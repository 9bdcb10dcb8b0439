----------------------- MODULE BuiltDominators_proofs -----------------------
(***************************************************************************)
(* Proofs about the dominator pass.  First on any function whose edges     *)
(* agree and whose entry has no predecessor: the walk numbers the          *)
(* reachable blocks so that dominators have larger numbers, the assertions *)
(* of the iteration do not fail, and when it is done the immediate         *)
(* dominators, the frontiers and the tree are what they are named for.     *)
(* Then with the visitor: what it keeps of its function is what the pass   *)
(* takes for granted, so all this holds of every function that it makes.   *)
(***************************************************************************)
EXTENDS BuiltDominators, CminusfBuilder_proofs

-----------------------------------------------------------------------------
(* Sequences.                                                              *)

\* s is front and one more element.
IsAppend(s, front, e) ==
    /\ Len(front) \in Nat /\ DOMAIN front = 1..Len(front)
    /\ Len(s) = Len(front) + 1 /\ DOMAIN s = 1..(Len(front) + 1)
    /\ s # << >>
    /\ \A k \in 1..Len(front) : s[k] = front[k]
    /\ s[Len(front) + 1] = e
    /\ Last(s) = e
    /\ ToSet(s) = ToSet(front) \cup {e}

\* Appending gives such a sequence.
LEMMA AppendIs ==
    ASSUME NEW S, NEW front \in Seq(S), NEW e \in S
    PROVE  /\ Append(front, e) \in Seq(S)
           /\ IsAppend(Append(front, e), front, e)
<1> DEFINE s == Append(front, e)
<1>1. /\ s \in Seq(S) /\ s # << >>
      /\ Len(s) = Len(front) + 1
      /\ \A k \in 1..Len(front) : s[k] = front[k]
      /\ s[Len(front) + 1] = e
  BY AppendProperties
<1> HIDE DEF s
<1>2. /\ Len(front) \in Nat /\ DOMAIN front = 1..Len(front)
      /\ DOMAIN s = 1..Len(s)
  BY <1>1, LenProperties
<1>3. Last(s) = e
  BY <1>1 DEF Last
<1>4. ToSet(s) = ToSet(front) \cup {e}
  <2>1. \A x : x \in ToSet(s) <=> \E k \in 1..(Len(front) + 1) : s[k] = x
    BY <1>1, <1>2 DEF ToSet
  <2>2. \A x : x \in ToSet(front) <=> \E k \in 1..Len(front) : front[k] = x
    BY <1>2 DEF ToSet
  <2>3. \A k : k \in 1..(Len(front) + 1) <=> k \in 1..Len(front) \/ k = Len(front) + 1
    BY <1>2
  <2>4. QED
    BY <1>1, <2>1, <2>2, <2>3
<1>5. QED
  BY <1>1, <1>2, <1>3, <1>4 DEF IsAppend, s

\* Front and Last take a sequence apart that way.
LEMMA FrontLast ==
    ASSUME NEW S, NEW s \in Seq(S), s # << >>
    PROVE  /\ Front(s) \in Seq(S) /\ Last(s) \in S
           /\ IsAppend(s, Front(s), Last(s))
<1>1. PICK front \in Seq(S), e \in S : s = Append(front, e)
  BY SequenceEmptyOrAppend
<1>2. IsAppend(s, front, e)
  BY <1>1, AppendIs
<1>3. Last(s) = e
  BY <1>2 DEF IsAppend
<1>4. Front(s) = front
  <2>1. \A k \in 1..(Len(s) - 1) : s[k] \in S
    <3>1. \A k \in 1..(Len(s) - 1) : k \in 1..Len(front)
      BY <1>2 DEF IsAppend
    <3>2. \A k \in 1..Len(front) : front[k] \in S
      BY ElementOfSeq
    <3>3. QED
      BY <1>2, <3>1, <3>2 DEF IsAppend
  <2>2. 1 \in Int /\ Len(s) - 1 \in Int /\ Len(s) - 1 = Len(front)
    BY <1>2 DEF IsAppend
  <2>3. /\ SubSeq(s, 1, Len(s) - 1) \in Seq(S)
        /\ Len(SubSeq(s, 1, Len(s) - 1)) =
               IF 1 <= Len(s) - 1 THEN Len(s) - 1 - 1 + 1 ELSE 0
        /\ \A k \in 1..(Len(s) - 1 - 1 + 1) : SubSeq(s, 1, Len(s) - 1)[k] = s[1 + k - 1]
    BY <2>1, <2>2, SubSeqProperties
  <2>4. /\ Front(s) \in Seq(S)
        /\ Len(Front(s)) = Len(front)
        /\ \A k \in 1..Len(front) : Front(s)[k] = s[k]
    BY <1>2, <2>2, <2>3 DEF Front, IsAppend
  <2>5. \A k \in 1..Len(front) : Front(s)[k] = front[k]
    BY <1>2, <2>4 DEF IsAppend
  <2>6. QED
    BY <2>4, <2>5, SeqEqual
<1>5. QED
  BY <1>2, <1>3, <1>4

\* The elements of a sequence are its head and those of its tail.
LEMMA HeadTail ==
    ASSUME NEW S, NEW s \in Seq(S), s # << >>
    PROVE  /\ Head(s) \in S /\ Tail(s) \in Seq(S)
           /\ ToSet(s) = {Head(s)} \cup ToSet(Tail(s))
<1>1. /\ Head(s) \in S /\ Tail(s) \in Seq(S)
      /\ Len(Tail(s)) = Len(s) - 1
      /\ \A i \in 1..Len(Tail(s)) : Tail(s)[i] = s[i + 1]
  BY HeadTailProperties
<1>2. /\ Len(s) \in Nat \ {0} /\ DOMAIN s = 1..Len(s)
      /\ DOMAIN Tail(s) = 1..Len(Tail(s))
  BY <1>1, EmptySeq, LenProperties
<1>3. Head(s) = s[1]
  <2>1. 1 \in 1..Len(s) /\ Len(s) \in 1..Len(s)
    BY <1>2
  <2>2. Head(SubSeq(s, 1, Len(s))) = s[1]
    BY <2>1, HeadTailOfSubSeq
  <2>3. QED
    BY <2>2, SubSeqFull
<1>4. \A k \in 1..Len(s) : k = 1 \/ k - 1 \in 1..Len(Tail(s))
  BY <1>1, <1>2
<1>5. \A k \in 1..Len(s) : k # 1 => s[k] = Tail(s)[k - 1]
  BY <1>1, <1>2, <1>4
<1>6. 1 \in 1..Len(s) /\ \A k \in 1..Len(Tail(s)) : k + 1 \in 1..Len(s)
  BY <1>1, <1>2
<1>7. ToSet(s) = {Head(s)} \cup ToSet(Tail(s))
  <2>1. ToSet(s) \subseteq {Head(s)} \cup ToSet(Tail(s))
    <3>1. \A k \in DOMAIN Tail(s) : Tail(s)[k] \in ToSet(Tail(s))
      BY DEF ToSet
    <3>2. \A k \in DOMAIN s : s[k] \in {Head(s)} \cup ToSet(Tail(s))
      BY <1>2, <1>3, <1>4, <1>5, <3>1
    <3>3. QED
      BY <3>2 DEF ToSet
  <2>2. {Head(s)} \cup ToSet(Tail(s)) \subseteq ToSet(s)
    <3>1. Head(s) \in ToSet(s)
      BY <1>2, <1>3, <1>6 DEF ToSet
    <3>2. \A k \in 1..Len(Tail(s)) : Tail(s)[k] \in ToSet(s)
      BY <1>1, <1>2, <1>6 DEF ToSet
    <3>3. QED
      BY <1>2, <3>1, <3>2 DEF ToSet
  <2>3. QED
    BY <2>1, <2>2
<1>8. QED
  BY <1>1, <1>7

-----------------------------------------------------------------------------
(* The recursive functions of the pass.                                    *)

\* A nonempty set of numbers of an interval has a least one.
LEMMA LeastNumber ==
    ASSUME NEW m \in Nat, NEW n \in Nat, NEW S \in SUBSET (m..n), S # {}
    PROVE  \E k \in S : \A j \in S : k <= j
<1> DEFINE U == m..n
           rank == [x \in U |-> x]
<1>1. IsFiniteSet(U)
  <2>1. m \in Int /\ n \in Int
    OBVIOUS
  <2>2. QED
    BY <2>1, FS_Interval, Zenon
<1>2. \A x \in U : rank[x] \in Nat
  OBVIOUS
<1>3. S \in SUBSET U
  OBVIOUS
<1>4. \E x \in S : \A y \in S : rank[x] <= rank[y]
  <2> HIDE DEF rank, U
  <2>1. QED
    BY <1>1, <1>2, <1>3, LeastRank
<1>5. QED
  BY <1>3, <1>4

\* Values from a first one on, each made of the one before.
Iterates(g, m, n, base, next) ==
    g = [k \in m..n |-> IF k = m THEN base ELSE next[<<k, g[k - 1]>>]]

\* There is such a function.
LEMMA IteratesExist ==
    ASSUME NEW m \in Nat, NEW n \in Nat, NEW V, NEW base \in V,
           NEW next \in [(m..n) \X V -> V]
    PROVE  \E g \in [m..n -> V] : Iterates(g, m, n, base, next)
<1> DEFINE Upto(k, g) == g \in [m..k -> V] /\ Iterates(g, m, k, base, next)
           Bad == {k \in m..n : ~ \E g : Upto(k, g)}
<1>1. ASSUME Bad # {}
      PROVE  FALSE
  <2>1. PICK k \in Bad : \A j \in Bad : k <= j
    <3>1. Bad \in SUBSET (m..n)
      OBVIOUS
    <3> HIDE DEF Bad
    <3>2. QED
      BY <1>1, <3>1, LeastNumber
  <2>2. k \in Nat /\ m <= k /\ k <= n
    OBVIOUS
  <2>3. CASE k = m
    <3> DEFINE g == [j \in m..m |-> base]
    <3>1. g \in [m..k -> V] /\ g = [j \in m..k |-> IF j = m THEN base ELSE next[<<j, g[j - 1]>>]]
      <4>1. \A j \in m..m : j = m
        OBVIOUS
      <4>2. QED
        BY <2>3, <4>1
    <3>2. Upto(k, g)
      BY <3>1 DEF Iterates
    <3>3. QED
      BY <3>2
  <2>4. CASE k # m
    <3>1. k - 1 \in m..n /\ ~(k <= k - 1)
      BY <2>2, <2>4
    <3>2. k - 1 \notin Bad
      BY <2>1, <3>1
    <3>3. PICK g : Upto(k - 1, g)
      BY <3>1, <3>2
    <3> DEFINE h == [j \in m..k |-> IF j \in m..(k - 1) THEN g[j] ELSE next[<<k, g[k - 1]>>]]
    <3>4. g \in [m..(k - 1) -> V] /\ Iterates(g, m, k - 1, base, next)
      BY <3>3
    <3>5. /\ \A j \in m..k : j \in m..(k - 1) \/ j = k
          /\ \A j \in m..(k - 1) : j # m => j - 1 \in m..(k - 1)
          /\ k - 1 \in m..(k - 1) /\ k \in m..n /\ k \notin m..(k - 1)
          /\ m \in m..(k - 1) /\ \A j \in m..(k - 1) : j \in m..k
      BY <2>2, <2>4
    <3>6. next[<<k, g[k - 1]>>] \in V
      BY <3>4, <3>5
    <3>7. h \in [m..k -> V]
      BY <3>4, <3>5, <3>6
    <3>8. ASSUME NEW j \in m..k
          PROVE  h[j] = IF j = m THEN base ELSE next[<<j, h[j - 1]>>]
      <4>1. CASE j = k
        <5>1. h[k] = next[<<k, g[k - 1]>>] /\ h[k - 1] = g[k - 1]
          BY <3>5
        <5>2. QED
          BY <2>4, <4>1, <5>1
      <4>2. CASE j \in m..(k - 1)
        <5>1. h[j] = g[j] /\ (j # m => h[j - 1] = g[j - 1])
          BY <3>5, <4>2
        <5>2. g[j] = IF j = m THEN base ELSE next[<<j, g[j - 1]>>]
          BY <3>4, <4>2 DEF Iterates
        <5>3. QED
          BY <5>1, <5>2
      <4>3. QED
        BY <3>5, <4>1, <4>2
    <3>9. Upto(k, h)
      <4>1. DOMAIN h = m..k
        OBVIOUS
      <4> HIDE DEF h
      <4>2. QED
        BY <3>7, <3>8 DEF Iterates
    <3>10. QED
      BY <3>9
  <2>5. QED
    BY <2>3, <2>4
<1>2. CASE m <= n
  <2>1. n \in m..n
    BY <1>2
  <2>2. QED
    BY <1>1, <2>1
<1>3. CASE ~(m <= n)
  <2> DEFINE g == [k \in m..n |-> base]
  <2>1. m..n = {}
    BY <1>3
  <2>2. g \in [m..n -> V] /\ g = [k \in m..n |-> IF k = m THEN base ELSE next[<<k, g[k - 1]>>]]
    BY <2>1
  <2>3. QED
    BY <2>2 DEF Iterates
<1>4. QED
  BY <1>2, <1>3

\* A function that goes on with itself until it may stop.
GoesOn(F, D, stop, out, step) ==
    F = [p \in D |-> IF p \in stop THEN out[p] ELSE F[step[p]]]

\* There is such a function, whether the steps ever stop or not.
LEMMA GoesOnExists ==
    ASSUME NEW D, NEW stop, NEW out, NEW step \in [D -> D]
    PROVE  \E F : GoesOn(F, D, stop, out, step)
<1> DEFINE V == {out[p] : p \in D \cap stop}
           Closes(C, v) == \A p \in D : \/ p \in stop /\ out[p] = v
                                        \/ p \notin stop /\ step[p] \in C
                                        => p \in C
           Lands(v) == {p \in D : \A C \in SUBSET D : Closes(C, v) => p \in C}
           Ends(p) == {v \in V : p \in Lands(v)}
           Value(S) == CHOOSE v : v \in S
           F == [p \in D |-> Value(Ends(p))]
<1>1. \A v : Closes(Lands(v), v)
  <2> SUFFICES ASSUME NEW v, NEW p \in D,
                      \/ p \in stop /\ out[p] = v
                      \/ p \notin stop /\ step[p] \in Lands(v),
                      NEW C \in SUBSET D, Closes(C, v)
               PROVE  p \in C
    BY Zenon
  <2>1. step[p] \in Lands(v) => step[p] \in C
    BY Zenon
  <2>2. QED
    BY <2>1
<1>2. \A v, C : Closes(C, v) => Lands(v) \subseteq C
  <2> SUFFICES ASSUME NEW v, NEW C, Closes(C, v), NEW p \in Lands(v)
               PROVE  p \in C
    BY Zenon
  <2>1. Closes(C \cap D, v)
    BY Zenon
  <2>2. C \cap D \in SUBSET D
    OBVIOUS
  <2>3. p \in C \cap D
    BY <2>1, <2>2, Zenon
  <2>4. QED
    BY <2>3
<1>3. ASSUME NEW p \in D, p \in stop
      PROVE  Ends(p) = {out[p]}
  <2>1. out[p] \in V /\ p \in Lands(out[p])
    <3>1. p \in Lands(out[p])
      <4> HIDE DEF Lands
      <4>1. QED
        BY <1>1, <1>3
    <3>2. QED
      BY <1>3, <3>1
  <2>2. ASSUME NEW v \in V, p \in Lands(v), v # out[p]
        PROVE  FALSE
    <3>1. Closes(Lands(v) \ {p}, v)
      <4>1. Closes(Lands(v), v)
        BY <1>1
      <4> HIDE DEF Lands
      <4>2. QED
        BY <1>3, <2>2, <4>1
    <3> HIDE DEF Lands, Closes
    <3>2. QED
      BY <1>2, <2>2, <3>1
  <2> HIDE DEF Lands, V
  <2>3. QED
    BY <2>1, <2>2
<1>4. ASSUME NEW p \in D, p \notin stop
      PROVE  Ends(p) = Ends(step[p])
  <2> SUFFICES ASSUME NEW v
               PROVE  p \in Lands(v) <=> step[p] \in Lands(v)
    <3> HIDE DEF Lands, V
    <3>1. QED
      OBVIOUS
  <2>1. Closes(Lands(v), v)
    BY <1>1
  <2>2. ASSUME p \in Lands(v), step[p] \notin Lands(v)
        PROVE  FALSE
    <3>1. Closes(Lands(v) \ {p}, v)
      <4> HIDE DEF Lands
      <4>1. QED
        BY <1>4, <2>1, <2>2
    <3> HIDE DEF Lands, Closes
    <3>2. QED
      BY <1>2, <2>2, <3>1
  <2>3. step[p] \in Lands(v) => p \in Lands(v)
    <3> HIDE DEF Lands
    <3>1. QED
      BY <1>4, <2>1
  <2>4. QED
    BY <2>2, <2>3
<1>5. \A p \in D : F[p] = IF p \in stop THEN out[p] ELSE F[step[p]]
  <2>1. \A x : Value({x}) = x
    OBVIOUS
  <2>2. \A p \in D : F[p] = Value(Ends(p)) /\ step[p] \in D
    OBVIOUS
  <2> HIDE DEF F, Ends, Value
  <2>3. QED
    BY <1>3, <1>4, <2>1, <2>2
<1>6. GoesOn(F, D, stop, out, step)
  <2>1. F = [p \in D |-> F[p]]
    OBVIOUS
  <2> HIDE DEF F
  <2>2. QED
    BY <1>5, <2>1 DEF GoesOn
<1>7. QED
  BY <1>6

-----------------------------------------------------------------------------
(* The post-order.                                                         *)

\* The functions the theorems are about: consistent, with an entry.
IsGraph(f) == Consistent(f) /\ Entry \in Blocks(f)

\* PostOrderId in an order.
Position(ord, b) == CHOOSE k \in DOMAIN ord : ord[k] = b

Distinct(s) == \A j, k \in DOMAIN s : s[j] = s[k] => j = k

\* The finished post-order: the reachable blocks, the entry last, each other
\* block with a predecessor behind it.
OrderFits(f, ord) ==
    /\ ord \in Seq(Blocks(f)) /\ Distinct(ord)
    /\ ToSet(ord) = Reachable(f)
    /\ ord # << >> /\ Last(ord) = Entry
    /\ \A j \in DOMAIN ord : ord[j] # Entry =>
           \E k \in DOMAIN ord : j < k /\ ord[j] \in Succ(f, ord[k])

\* The numbers of reachable blocks, the entry's the largest.
LEMMA PositionFacts ==
    ASSUME NEW f, NEW ord, OrderFits(f, ord)
    PROVE  /\ Len(ord) \in Nat \ {0} /\ DOMAIN ord = 1..Len(ord)
           /\ Position(ord, Entry) = Len(ord)
           /\ \A b \in Reachable(f) : /\ Position(ord, b) \in 1..Len(ord)
                                      /\ Position(ord, b) \in Nat
                                      /\ Position(ord, b) <= Len(ord)
                                      /\ ord[Position(ord, b)] = b
           /\ \A k \in 1..Len(ord) : ord[k] \in Reachable(f) /\ Position(ord, ord[k]) = k
           /\ \A a, b \in Reachable(f) : Position(ord, a) = Position(ord, b) => a = b
<1>1. Len(ord) \in Nat \ {0} /\ DOMAIN ord = 1..Len(ord)
  BY EmptySeq, LenProperties DEF OrderFits
<1>2. \A b \in Reachable(f) : Position(ord, b) \in DOMAIN ord /\ ord[Position(ord, b)] = b
  <2>1. \A b \in Reachable(f) : \E k \in DOMAIN ord : ord[k] = b
    BY DEF OrderFits, ToSet
  <2>2. QED
    BY <2>1 DEF Position
<1>3. \A k \in DOMAIN ord : ord[k] \in Reachable(f)
  BY DEF OrderFits, ToSet
<1>4. \A k \in DOMAIN ord : Position(ord, ord[k]) = k
  BY <1>2, <1>3 DEF OrderFits, Distinct
<1>5. Position(ord, Entry) = Len(ord)
  <2>1. Len(ord) \in DOMAIN ord /\ ord[Len(ord)] = Entry
    BY <1>1 DEF OrderFits, Last
  <2>2. QED
    BY <1>4, <2>1
<1>6. \A k \in 1..Len(ord) : k \in Nat /\ k <= Len(ord)
  BY <1>1
<1>7. QED
  BY <1>1, <1>2, <1>3, <1>4, <1>5, <1>6

\* Some predecessor of a reachable block has a larger number.
LEMMA PredecessorBehind ==
    ASSUME NEW f, NEW ord, OrderFits(f, ord), NEW b \in Reachable(f), b # Entry
    PROVE  \E p \in Reachable(f) : /\ b \in Succ(f, p)
                                   /\ Position(ord, b) < Position(ord, p)
<1>1. /\ Position(ord, b) \in DOMAIN ord /\ ord[Position(ord, b)] = b
      /\ \A k \in DOMAIN ord : ord[k] \in Reachable(f) /\ Position(ord, ord[k]) = k
  BY PositionFacts
<1>2. PICK k \in DOMAIN ord : Position(ord, b) < k /\ b \in Succ(f, ord[k])
  BY <1>1 DEF OrderFits
<1>3. QED
  BY <1>1, <1>2

\* A nonempty set of reachable blocks has one with the largest number.
LEMMA LargestPosition ==
    ASSUME NEW f, NEW ord, OrderFits(f, ord), NEW S \in SUBSET Reachable(f), S # {}
    PROVE  \E x \in S : \A y \in S : Position(ord, y) <= Position(ord, x)
<1> DEFINE U == Reachable(f)
           rank == [x \in U |-> Len(ord) - Position(ord, x)]
<1>1. /\ Len(ord) \in Nat
      /\ \A x \in U : Position(ord, x) \in Nat /\ Position(ord, x) <= Len(ord)
  BY PositionFacts
<1>2. IsFiniteSet(U)
  <2>1. IsFiniteSet(1..Len(ord))
    <3>1. 1 \in Int /\ Len(ord) \in Int
      BY <1>1
    <3>2. QED
      BY <3>1, FS_Interval, Zenon
  <2>2. ord \in [1..Len(ord) -> U]
    <3>1. ord \in [1..Len(ord) -> Blocks(f)]
      BY LenProperties DEF OrderFits
    <3>2. QED
      BY <3>1, PositionFacts
  <2>3. \A b \in U : \E k \in 1..Len(ord) : ord[k] = b
    BY PositionFacts
  <2>4. ord \in Surjection(1..Len(ord), U)
    BY <2>2, <2>3 DEF Surjection
  <2>5. QED
    BY <2>1, <2>4, FS_Surjection
<1>3. \A x \in U : rank[x] \in Nat
  BY <1>1
<1>4. PICK x \in S : \A y \in S : rank[x] <= rank[y]
  <2>1. S \in SUBSET U
    OBVIOUS
  <2> HIDE DEF rank, U
  <2>2. QED
    BY <1>2, <1>3, <2>1, LeastRank
<1>5. ASSUME NEW y \in S
      PROVE  Position(ord, y) <= Position(ord, x)
  <2>1. /\ Position(ord, x) \in Nat /\ Position(ord, y) \in Nat
        /\ rank[x] = Len(ord) - Position(ord, x)
        /\ rank[y] = Len(ord) - Position(ord, y)
        /\ rank[x] <= rank[y]
    BY <1>1, <1>4
  <2>2. QED
    BY <1>1, <2>1
<1>6. QED
  BY <1>5

\* Strict dominators have larger numbers.
LEMMA DominatorsBehind ==
    ASSUME NEW f, HasEntry(f), NEW ord, OrderFits(f, ord), NEW b \in Reachable(f),
           NEW d \in DominatorSets(f)[b], d # b
    PROVE  Position(ord, b) < Position(ord, d)
<1> DEFINE live == Reachable(f)
           A == ReachAvoiding(f, {Entry}, {d})
           S == {x \in live : x # d /\ Position(ord, d) <= Position(ord, x) /\ x \notin A}
<1>1. WellFormed(f) /\ Entry \in Blocks(f)
  BY DEF HasEntry
<1>2. d \in live /\ b \notin A
  BY DominatorSetsFacts DEF Dominates
<1>3. /\ Entry # d => Entry \in A
      /\ \A x \in A : Succ(f, x) \subseteq A \cup {d}
  BY <1>1, AroundFacts
<1>4. \A x \in live : Position(ord, x) \in Nat
  BY PositionFacts
<1>5. ASSUME S # {}
      PROVE  FALSE
  <2>1. PICK x \in S : \A y \in S : Position(ord, y) <= Position(ord, x)
    <3>1. S \in SUBSET Reachable(f)
      OBVIOUS
    <3> HIDE DEF S
    <3>2. QED
      BY <1>5, <3>1, LargestPosition
  <2>2. x # Entry /\ x \in live
    BY <1>3
  <2>3. PICK p \in live : x \in Succ(f, p) /\ Position(ord, x) < Position(ord, p)
    BY <2>2, PredecessorBehind
  <2> HIDE DEF A
  <2>4. Position(ord, p) \in Nat /\ Position(ord, x) \in Nat /\ Position(ord, d) \in Nat
    BY <1>2, <1>4, <2>2
  <2>5. /\ Position(ord, d) <= Position(ord, p) /\ ~(Position(ord, p) <= Position(ord, x))
        /\ p # d
    BY <2>1, <2>3, <2>4
  <2>6. p \in A
    BY <2>1, <2>5
  <2>7. QED
    BY <1>3, <2>1, <2>3, <2>6
<1>6. ~(Position(ord, d) <= Position(ord, b))
  BY <1>2, <1>5
<1>7. QED
  BY <1>2, <1>4, <1>6

\* Two blocks that dominate each other are one.
LEMMA DominanceAntisymmetric ==
    ASSUME NEW f, HasEntry(f), NEW ord, OrderFits(f, ord), NEW a \in Reachable(f),
           NEW b \in Reachable(f), a \in DominatorSets(f)[b], b \in DominatorSets(f)[a]
    PROVE  a = b
<1>1. Position(ord, a) \in Nat /\ Position(ord, b) \in Nat
  BY PositionFacts
<1>2. a # b => Position(ord, b) < Position(ord, a) /\ Position(ord, a) < Position(ord, b)
  BY DominatorsBehind
<1>3. QED
  BY <1>1, <1>2

-----------------------------------------------------------------------------
(* The walk that makes it.                                                 *)

Stacked(v) == {v[k][1] : k \in DOMAIN v}

\* The successors that a call of post_order_visit has looked at are visited.
CallFits(f, seen, call) ==
    /\ call[2] <= Len(f.succ[call[1]])
    /\ \A j \in 1..call[2] : f.succ[call[1]][j] \in seen

\* The calls follow edges from the entry on.
CallsFit(f, v, seen) ==
    /\ v \in Seq(Blocks(f) \X Nat)
    /\ \A j, k \in DOMAIN v : v[j][1] = v[k][1] => j = k
    /\ \A k \in DOMAIN v : CallFits(f, seen, v[k])
    /\ \A k \in DOMAIN v : IF k = 1 THEN v[k][1] = Entry ELSE v[k][1] \in Succ(f, v[k - 1][1])

\* What the numbered block j has been visited from gets a larger number.
EntersLater(f, v, ord, j) ==
    \E p : /\ ord[j] \in Succ(f, p)
           /\ p \in Stacked(v) \/ \E k \in DOMAIN ord : j < k /\ ord[k] = p

WalkFits(f, v, seen, ord) ==
    /\ CallsFit(f, v, seen)
    /\ ord \in Seq(Blocks(f)) /\ Distinct(ord)
    /\ Stacked(v) \cap ToSet(ord) = {}
    /\ seen = Stacked(v) \cup ToSet(ord)
    /\ seen \subseteq Reachable(f) /\ Entry \in seen
    /\ \A b \in ToSet(ord) : Succ(f, b) \subseteq seen
    /\ \A j \in DOMAIN ord : ord[j] # Entry => EntersLater(f, v, ord, j)

\* The walk after the first call.
LEMMA WalkStarts ==
    ASSUME NEW f, HasEntry(f)
    PROVE  WalkFits(f, <<<<Entry, 0>>>>, {Entry}, << >>)
<1> DEFINE v == <<<<Entry, 0>>>>
<1>1. Entry \in Blocks(f) /\ Entry \in Reachable(f) /\ WellFormed(f)
  BY DominatorsOfLive DEF HasEntry
<1>2. v \in Seq(Blocks(f) \X Nat) /\ DOMAIN v = {1} /\ v[1] = <<Entry, 0>>
  BY <1>1
<1>3. Len(f.succ[Entry]) \in Nat
  <2>1. f.succ[Entry] \in Seq(Nat)
    BY <1>1, BlocksFacts, ElementOfSeq
  <2>2. QED
    BY <2>1, LenProperties
<1>4. CallsFit(f, v, {Entry})
  <2>1. CallFits(f, {Entry}, v[1])
    BY <1>2, <1>3 DEF CallFits
  <2> HIDE DEF v
  <2>2. QED
    BY <1>2, <2>1 DEF CallsFit
<1>5. Stacked(v) = {Entry}
  BY <1>2 DEF Stacked
<1>6. << >> \in Seq(Blocks(f)) /\ DOMAIN << >> = {} /\ ToSet(<< >>) = {}
  BY DEF ToSet
<1> HIDE DEF v
<1>7. QED
  BY <1>1, <1>4, <1>5, <1>6 DEF WalkFits, Distinct, v

\* A call that looked at more.
LEMMA WalkCounts ==
    ASSUME NEW f, NEW v, NEW seen, NEW ord, WalkFits(f, v, seen, ord),
           NEW w \in Seq(Blocks(f) \X Nat), Len(w) = Len(v),
           \A k \in 1..Len(v) : w[k][1] = v[k][1] /\ CallFits(f, seen, w[k])
    PROVE  WalkFits(f, w, seen, ord)
<1>1. DOMAIN v = 1..Len(v) /\ DOMAIN w = 1..Len(v) /\ Len(v) \in Nat
  BY LenProperties DEF WalkFits, CallsFit
<1>2. Stacked(w) = Stacked(v)
  BY <1>1 DEF Stacked
<1>3. \A k \in DOMAIN v : k # 1 => k - 1 \in DOMAIN v
  BY <1>1
<1>4. CallsFit(f, w, seen)
  BY <1>1, <1>3 DEF WalkFits, CallsFit
<1>5. \A j : EntersLater(f, v, ord, j) => EntersLater(f, w, ord, j)
  BY <1>2 DEF EntersLater
<1>6. QED
  BY <1>2, <1>4, <1>5 DEF WalkFits

\* A call of a block that was not visited.
LEMMA WalkPushed ==
    ASSUME NEW f, HasEntry(f), NEW v, NEW seen, NEW ord, WalkFits(f, v, seen, ord), v # << >>,
           NEW b \in Succ(f, Last(v)[1]), b \notin seen
    PROVE  /\ b \in Blocks(f)
           /\ WalkFits(f, Append(v, <<b, 0>>), seen \cup {b}, ord)
<1> DEFINE w == Append(v, <<b, 0>>)
           C == Blocks(f) \X Nat
<1>1. v \in Seq(C) /\ WellFormed(f)
  BY DEF WalkFits, CallsFit, HasEntry
<1>2. Last(v) = v[Len(v)] /\ Len(v) \in DOMAIN v /\ DOMAIN v = 1..Len(v) /\ Len(v) \in Nat
  <2>1. Len(v) \in Nat \ {0} /\ DOMAIN v = 1..Len(v)
    BY <1>1, EmptySeq, LenProperties
  <2>2. QED
    BY <2>1 DEF Last
<1>3. Last(v)[1] \in Stacked(v)
  BY <1>2 DEF Stacked
<1>4. b \in Reachable(f) /\ b \in Blocks(f)
  <2>1. Last(v)[1] \in Reachable(f)
    BY <1>3 DEF WalkFits
  <2>2. QED
    BY <2>1, ReachableFacts DEF HasEntry
<1>5. w \in Seq(C) /\ IsAppend(w, v, <<b, 0>>)
  <2>1. <<b, 0>> \in C
    BY <1>4
  <2>2. QED
    BY <1>1, <2>1, AppendIs
<1> HIDE DEF w, C
<1>6. /\ DOMAIN w = 1..(Len(v) + 1)
      /\ \A k \in DOMAIN v : w[k] = v[k] /\ k \in DOMAIN w
      /\ w[Len(v) + 1] = <<b, 0>>
      /\ \A k \in DOMAIN w : k \in DOMAIN v \/ k = Len(v) + 1
  BY <1>2, <1>5 DEF IsAppend
<1>7. Stacked(w) = Stacked(v) \cup {b}
  <2>1. Stacked(w) \subseteq Stacked(v) \cup {b}
    BY <1>6 DEF Stacked
  <2>2. Stacked(v) \subseteq Stacked(w)
    BY <1>6 DEF Stacked
  <2>3. b \in Stacked(w)
    <3>1. Len(v) + 1 \in DOMAIN w
      BY <1>2, <1>6
    <3>2. QED
      BY <1>6, <3>1 DEF Stacked
  <2>4. QED
    BY <2>1, <2>2, <2>3
<1>8. CallsFit(f, w, seen \cup {b})
  <2>1. \A j, k \in DOMAIN w : w[j][1] = w[k][1] => j = k
    <3>1. \A k \in DOMAIN v : w[k][1] \in seen /\ w[k][1] = v[k][1]
      BY <1>6 DEF WalkFits, Stacked
    <3>2. w[Len(v) + 1][1] = b
      BY <1>6
    <3>3. \A j, k \in DOMAIN v : v[j][1] = v[k][1] => j = k
      BY DEF WalkFits, CallsFit
    <3>4. QED
      BY <1>6, <3>1, <3>2, <3>3, Zenon
  <2>2. \A k \in DOMAIN w : CallFits(f, seen \cup {b}, w[k])
    <3>1. \A k \in DOMAIN v : CallFits(f, seen, v[k])
      BY DEF WalkFits, CallsFit
    <3>2. \A c : CallFits(f, seen, c) => CallFits(f, seen \cup {b}, c)
      BY DEF CallFits
    <3>3. CallFits(f, seen \cup {b}, <<b, 0>>)
      <4>1. f.succ[b] \in Seq(Nat)
        BY <1>1, <1>4, BlocksFacts, ElementOfSeq
      <4>2. Len(f.succ[b]) \in Nat
        BY <4>1, LenProperties
      <4>3. QED
        BY <4>2 DEF CallFits
    <3>4. QED
      BY <1>6, <3>1, <3>2, <3>3
  <2>3. \A k \in DOMAIN w : IF k = 1 THEN w[k][1] = Entry ELSE w[k][1] \in Succ(f, w[k - 1][1])
    <3>1. ASSUME NEW k \in DOMAIN v
          PROVE  IF k = 1 THEN w[k][1] = Entry ELSE w[k][1] \in Succ(f, w[k - 1][1])
      <4>1. k # 1 => k - 1 \in DOMAIN v
        BY <1>2
      <4>2. IF k = 1 THEN v[k][1] = Entry ELSE v[k][1] \in Succ(f, v[k - 1][1])
        BY DEF WalkFits, CallsFit
      <4>3. QED
        BY <1>6, <4>1, <4>2
    <3>2. Len(v) + 1 # 1 /\ Len(v) + 1 - 1 = Len(v)
      BY <1>2
    <3>3. w[Len(v) + 1][1] = b /\ w[Len(v)] = Last(v)
      BY <1>2, <1>6
    <3>4. QED
      BY <1>6, <3>1, <3>2, <3>3
  <2>4. QED
    BY <1>5, <2>1, <2>2, <2>3 DEF CallsFit, C
<1>9. \A j : EntersLater(f, v, ord, j) => EntersLater(f, w, ord, j)
  BY <1>7 DEF EntersLater
<1>10. QED
  BY <1>4, <1>7, <1>8, <1>9 DEF WalkFits, w

\* The end of a call numbers its block.
LEMMA WalkPopped ==
    ASSUME NEW f, HasEntry(f), NEW v, NEW seen, NEW ord, WalkFits(f, v, seen, ord), v # << >>,
           Last(v)[2] = Len(f.succ[Last(v)[1]])
    PROVE  /\ Last(v)[1] \in Blocks(f)
           /\ WalkFits(f, Front(v), seen, Append(ord, Last(v)[1]))
<1> DEFINE w == Front(v)
           b == Last(v)[1]
           new == Append(ord, b)
           C == Blocks(f) \X Nat
<1>1. v \in Seq(C) /\ WellFormed(f) /\ ord \in Seq(Blocks(f))
  BY DEF WalkFits, CallsFit, HasEntry
<1>2. w \in Seq(C) /\ Last(v) \in C /\ IsAppend(v, w, Last(v))
  BY <1>1, FrontLast
<1>3. b \in Blocks(f)
  BY <1>2
<1>4. new \in Seq(Blocks(f)) /\ IsAppend(new, ord, b)
  BY <1>1, <1>3, AppendIs
<1> HIDE DEF w, new, C
<1>5. /\ Len(w) \in Nat /\ DOMAIN w = 1..Len(w) /\ DOMAIN v = 1..(Len(w) + 1)
      /\ \A k \in DOMAIN w : v[k] = w[k] /\ k \in DOMAIN v
      /\ \A k \in DOMAIN v : k \in DOMAIN w \/ k = Len(w) + 1
      /\ v[Len(w) + 1] = Last(v)
      /\ Len(w) + 1 \in DOMAIN v /\ Len(w) + 1 \notin DOMAIN w
  BY <1>2 DEF IsAppend
<1> DEFINE l == Len(w)
<1>6. /\ \A k \in DOMAIN v : CallFits(f, seen, v[k])
      /\ \A k \in DOMAIN v : k = 1 => v[k][1] = Entry
      /\ \A k \in DOMAIN v : k # 1 => v[k][1] \in Succ(f, v[k - 1][1])
      /\ \A j, k \in DOMAIN v : v[j][1] = v[k][1] => j = k
  BY DEF WalkFits, CallsFit
<1> HIDE DEF b
<1>7. Stacked(v) = Stacked(w) \cup {b} /\ b \notin Stacked(w)
  <2>1. Stacked(v) \subseteq Stacked(w) \cup {b}
    BY <1>5 DEF Stacked, b
  <2>2. Stacked(w) \subseteq Stacked(v)
    BY <1>5 DEF Stacked
  <2>3. b \in Stacked(v)
    BY <1>5 DEF Stacked, b
  <2>4. b \notin Stacked(w)
    <3>1. \A j, k \in DOMAIN v : v[j][1] = v[k][1] => j = k
      BY DEF WalkFits, CallsFit
    <3>2. \A k \in DOMAIN w : w[k][1] # b
      BY <1>5, <3>1 DEF b
    <3>3. QED
      BY <3>2 DEF Stacked
  <2>5. QED
    BY <2>1, <2>2, <2>3, <2>4
<1>8. /\ Len(ord) \in Nat /\ DOMAIN ord = 1..Len(ord) /\ DOMAIN new = 1..(Len(ord) + 1)
      /\ \A k \in DOMAIN ord : new[k] = ord[k] /\ k \in DOMAIN new /\ k < Len(ord) + 1
      /\ \A k \in DOMAIN new : k \in DOMAIN ord \/ k = Len(ord) + 1
      /\ new[Len(ord) + 1] = b /\ Len(ord) + 1 \in DOMAIN new
      /\ ToSet(new) = ToSet(ord) \cup {b}
  BY <1>4 DEF IsAppend
<1>9. b \notin ToSet(ord)
  BY <1>7 DEF WalkFits
<1>10. Distinct(new)
  <2>1. \A k \in DOMAIN ord : ord[k] # b
    BY <1>9 DEF ToSet
  <2>2. \A j, k \in DOMAIN ord : ord[j] = ord[k] => j = k
    BY DEF WalkFits, Distinct
  <2>3. \A j, k \in DOMAIN new : new[j] = new[k] => j = k
    BY <1>8, <2>1, <2>2, Zenon
  <2>4. QED
    BY <2>3 DEF Distinct
<1>11. CallsFit(f, w, seen)
  <2>1. \A k \in DOMAIN w : k # 1 => k - 1 \in DOMAIN w
    BY <1>5
  <2>2. \A k \in DOMAIN w : CallFits(f, seen, w[k])
    BY <1>5, <1>6
  <2>3. \A k \in DOMAIN w : IF k = 1 THEN w[k][1] = Entry ELSE w[k][1] \in Succ(f, w[k - 1][1])
    BY <1>5, <1>6, <2>1
  <2>4. \A j, k \in DOMAIN w : w[j][1] = w[k][1] => j = k
    <3>1. \A k \in DOMAIN w : w[k][1] = v[k][1] /\ k \in DOMAIN v
      BY <1>5
    <3>2. \A j, k \in DOMAIN v : v[j][1] = v[k][1] => j = k
      BY <1>6
    <3>3. QED
      BY <3>1, <3>2, Zenon
  <2>5. QED
    BY <1>2, <2>2, <2>3, <2>4 DEF CallsFit, C
<1>12. Succ(f, b) \subseteq seen
  <2>1. CallFits(f, seen, Last(v))
    BY <1>5, <1>6
  <2>2. \A j \in 1..Len(f.succ[b]) : f.succ[b][j] \in seen
    BY <2>1 DEF CallFits, b
  <2>3. f.succ[b] \in Seq(Nat)
    BY <1>1, <1>3, BlocksFacts, ElementOfSeq
  <2>4. DOMAIN f.succ[b] = 1..Len(f.succ[b])
    BY <2>3, LenProperties
  <2>5. QED
    BY <2>2, <2>4 DEF Succ, ToSet
<1>13. ASSUME NEW j \in DOMAIN new, new[j] # Entry
       PROVE  EntersLater(f, w, new, j)
  <2>1. CASE j \in DOMAIN ord
    <3>1. new[j] = ord[j]
      BY <1>8, <2>1
    <3>2. PICK p : /\ ord[j] \in Succ(f, p)
                   /\ p \in Stacked(v) \/ \E k \in DOMAIN ord : j < k /\ ord[k] = p
      BY <1>13, <2>1, <3>1 DEF WalkFits, EntersLater
    <3>3. p \in Stacked(w) \/ \E k \in DOMAIN new : j < k /\ new[k] = p
      BY <1>7, <1>8, <2>1, <3>2
    <3>4. QED
      BY <3>1, <3>2, <3>3 DEF EntersLater
  <2>2. CASE j = Len(ord) + 1
    <3>1. new[j] = v[l + 1][1]
      BY <1>5, <1>8, <2>2 DEF b
    <3>2. PICK m \in DOMAIN v : m = l + 1 /\ m # 1
      BY <1>5, <1>6, <1>13, <3>1
    <3>3. v[m][1] \in Succ(f, v[m - 1][1])
      BY <1>6, <3>2
    <3>4. m - 1 = l /\ l \in DOMAIN w
      BY <1>5, <3>2
    <3>5. w[l][1] \in Stacked(w) /\ w[l] = v[l]
      BY <1>5, <3>4 DEF Stacked
    <3>6. new[j] \in Succ(f, w[l][1])
      BY <3>1, <3>2, <3>3, <3>4, <3>5
    <3>7. QED
      BY <3>5, <3>6 DEF EntersLater
  <2>3. QED
    BY <1>8, <2>1, <2>2
<1>14. WalkFits(f, w, seen, new)
  <2>1. /\ Stacked(w) \cap ToSet(new) = {}
        /\ seen = Stacked(w) \cup ToSet(new)
        /\ seen \subseteq Reachable(f) /\ Entry \in seen
        /\ \A a \in ToSet(new) : Succ(f, a) \subseteq seen
    BY <1>7, <1>8, <1>12 DEF WalkFits
  <2>2. QED
    BY <1>4, <1>10, <1>11, <1>13, <2>1 DEF WalkFits
<1>15. QED
  BY <1>3, <1>14 DEF w, new, b

\* When the first call ends, the order is complete.
LEMMA WalkEnds ==
    ASSUME NEW f, HasEntry(f), NEW seen, NEW ord, NEW v, WalkFits(f, v, seen, ord), v = << >>,
           ord # << >>, Last(ord) = Entry
    PROVE  OrderFits(f, ord) /\ seen = ToSet(ord)
<1>1. Stacked(v) = {}
  BY DEF Stacked
<1>2. seen = ToSet(ord) /\ seen \subseteq Reachable(f) /\ Entry \in seen
  BY <1>1 DEF WalkFits
<1>3. Reachable(f) \subseteq seen
  <2>1. \A b \in seen \cap Reachable(f) : Succ(f, b) \subseteq seen
    BY <1>2 DEF WalkFits
  <2>2. QED
    BY <1>2, <2>1, ReachableFacts DEF HasEntry
<1>4. \A j \in DOMAIN ord : ord[j] # Entry =>
          \E k \in DOMAIN ord : j < k /\ ord[j] \in Succ(f, ord[k])
  BY <1>1 DEF WalkFits, EntersLater
<1>5. QED
  BY <1>2, <1>3, <1>4 DEF OrderFits, WalkFits

-----------------------------------------------------------------------------
(* The immediate dominators so far.                                        *)

Nodes(f) == Blocks(f) \cup {Null}

WithIdom(f, id) == {b \in Blocks(f) : id[b] # Null}

\* What create_idom keeps: a known block's immediate dominator is known, has
\* a larger number, and nothing that dominates the block is missing above it.
IdomFits(f, ord, id) ==
    /\ id \in [Nodes(f) -> Nodes(f)]
    /\ id[Null] = Null /\ id[Entry] = Entry
    /\ WithIdom(f, id) \subseteq Reachable(f)
    /\ \A b \in WithIdom(f, id) \ {Entry} :
           /\ id[b] \in WithIdom(f, id)
           /\ Position(ord, b) < Position(ord, id[b])
           /\ DominatorSets(f)[b] \ {b} \subseteq DominatorSets(f)[id[b]]

\* b, its immediate dominator, that one's and so on.
Up(f, id, b) ==
    {x \in Nodes(f) : \A C \in SUBSET Nodes(f) : b \in C /\ (\A y \in C : id[y] \in C) => x \in C}

\* What the lemmas about one state of create_idom assume.
Climbs(f, ord, id) == HasEntry(f) /\ OrderFits(f, ord) /\ IdomFits(f, ord, id)

\* Null is no block, and going up from a known block stays among the known.
LEMMA KnownFacts ==
    ASSUME NEW f, NEW ord, NEW id, Climbs(f, ord, id)
    PROVE  /\ Null \notin Blocks(f) /\ Entry \in WithIdom(f, id)
           /\ WithIdom(f, id) \subseteq Nodes(f)
           /\ Null \notin WithIdom(f, id)
           /\ \A b \in WithIdom(f, id) : id[b] \in WithIdom(f, id)
           /\ \A b \in WithIdom(f, id) :
                 /\ Position(ord, b) \in Nat /\ Position(ord, b) <= Len(ord)
                 /\ b # Entry => Position(ord, b) < Position(ord, id[b])
<1>1. Null \notin Blocks(f) /\ Entry # Null
  <2>1. Blocks(f) = 1..Len(f.code) /\ Len(f.code) \in Nat
    BY BlocksFacts DEF Climbs, HasEntry
  <2>2. QED
    BY <2>1 DEF Null, Entry
<1>2. Entry \in WithIdom(f, id)
  BY <1>1 DEF Climbs, HasEntry, IdomFits, WithIdom
<1>3. \A b \in WithIdom(f, id) : Position(ord, b) \in Nat /\ Position(ord, b) <= Len(ord)
  BY PositionFacts DEF Climbs, IdomFits
<1>4. QED
  BY <1>1, <1>2, <1>3 DEF Climbs, IdomFits, WithIdom, Nodes

\* The way up stays among the known blocks, with growing numbers.
LEMMA UpFacts ==
    ASSUME NEW f, NEW ord, NEW id, Climbs(f, ord, id), NEW b \in WithIdom(f, id)
    PROVE  /\ b \in Up(f, id, b) /\ Up(f, id, b) \subseteq WithIdom(f, id)
           /\ \A x \in Up(f, id, b) : id[x] \in Up(f, id, b)
           /\ Up(f, id, b) \subseteq {b} \cup Up(f, id, id[b])
           /\ \A x \in Up(f, id, b) : Up(f, id, x) \subseteq Up(f, id, b)
           /\ \A x \in Up(f, id, b) : Position(ord, b) <= Position(ord, x)
           /\ b = Entry => Up(f, id, b) = {Entry}
<1> DEFINE K == WithIdom(f, id)
           N == Nodes(f)
           Goes(C) == \A y \in C : id[y] \in C
<1>1. /\ Entry \in K /\ K \in SUBSET N /\ Goes(K)
      /\ id \in [N -> N] /\ id[Entry] = Entry
  BY KnownFacts DEF Climbs, IdomFits
<1>2. \A x \in N, C \in SUBSET N : x \in C /\ Goes(C) => Up(f, id, x) \subseteq C
  BY DEF Up
<1>3. \A x \in N : x \in Up(f, id, x) /\ Goes(Up(f, id, x)) /\ Up(f, id, x) \in SUBSET N
  <2> SUFFICES ASSUME NEW x \in N
               PROVE  x \in Up(f, id, x) /\ Goes(Up(f, id, x)) /\ Up(f, id, x) \in SUBSET N
    OBVIOUS
  <2>1. x \in Up(f, id, x) /\ Up(f, id, x) \in SUBSET N
    BY DEF Up
  <2>2. ASSUME NEW y \in Up(f, id, x)
        PROVE  id[y] \in Up(f, id, x)
    <3>1. y \in N /\ id[y] \in N
      BY <1>1, <2>1
    <3>2. \A C \in SUBSET N : x \in C /\ Goes(C) => id[y] \in C
      <4> SUFFICES ASSUME NEW C \in SUBSET N, x \in C, Goes(C)
                   PROVE  id[y] \in C
        OBVIOUS
      <4>1. y \in C
        BY <1>2
      <4>2. QED
        BY <4>1
    <3>3. QED
      BY <3>1, <3>2 DEF Up
  <2>3. QED
    BY <2>1, <2>2
<1>4. b \in N /\ b \in K
  BY <1>1
<1>5. Up(f, id, b) \subseteq K
  BY <1>1, <1>2, <1>4
<1>6. \A x \in Up(f, id, b) : Up(f, id, x) \subseteq Up(f, id, b)
  BY <1>2, <1>3, <1>4
<1>7. Up(f, id, b) \subseteq {b} \cup Up(f, id, id[b])
  <2> DEFINE C == {b} \cup Up(f, id, id[b])
  <2>1. id[b] \in N
    BY <1>1, <1>4
  <2>2. C \in SUBSET N /\ b \in C /\ Goes(C)
    BY <1>3, <1>4, <2>1
  <2>3. QED
    BY <1>2, <1>4, <2>2
<1>8. \A x \in Up(f, id, b) : Position(ord, b) <= Position(ord, x)
  <2> DEFINE C == {x \in K : Position(ord, b) <= Position(ord, x)}
  <2>1. /\ \A x \in K : Position(ord, x) \in Nat /\ id[x] \in K
        /\ \A x \in K : x # Entry => Position(ord, x) < Position(ord, id[x])
    BY KnownFacts
  <2>2. ASSUME NEW x \in C
        PROVE  id[x] \in C
    <3>1. id[x] = x \/ Position(ord, x) < Position(ord, id[x])
      BY <1>1, <2>1
    <3>2. /\ Position(ord, x) \in Nat /\ Position(ord, b) \in Nat
          /\ Position(ord, id[x]) \in Nat /\ Position(ord, b) <= Position(ord, x)
      BY <1>4, <2>1
    <3>3. Position(ord, b) <= Position(ord, id[x])
      BY <3>1, <3>2
    <3>4. QED
      BY <2>1, <3>3
  <2>3. b \in C /\ C \in SUBSET N
    BY <1>1, <1>4, <2>1
  <2>4. Up(f, id, b) \subseteq C
    <3> HIDE DEF C
    <3>1. QED
      BY <1>2, <1>4, <2>2, <2>3
  <2>5. QED
    BY <2>4
<1>9. b = Entry => Up(f, id, b) = {Entry}
  <2>1. Goes({Entry}) /\ {Entry} \in SUBSET N
    BY <1>1
  <2>2. QED
    BY <1>2, <1>3, <1>4, <2>1, ZenonT(30)
<1>10. QED
  BY <1>3, <1>4, <1>5, <1>6, <1>7, <1>8, <1>9

-----------------------------------------------------------------------------
(* intersect.                                                              *)

\* The recursion of Intersect.
Meets(M, f, ord, id) ==
    M = [p \in Nodes(f) \X Nodes(f) |->
            IF p[1] = p[2] THEN p[1]
            ELSE IF Null \in {p[1], p[2]} THEN Null
            ELSE IF Position(ord, p[1]) < Position(ord, p[2])
            THEN M[<<id[p[1]], p[2]>>]
            ELSE M[<<p[1], id[p[2]]>>]]

\* The equation of intersect has a solution.
LEMMA MeetsExist ==
    ASSUME NEW f, NEW ord, NEW id \in [Nodes(f) -> Nodes(f)]
    PROVE  \E M : Meets(M, f, ord, id)
<1> DEFINE N == Nodes(f)
           D == N \X N
           stop == {p \in D : p[1] = p[2] \/ Null \in {p[1], p[2]}}
           out == [p \in D |-> IF p[1] = p[2] THEN p[1] ELSE Null]
           step == [p \in D |-> IF Position(ord, p[1]) < Position(ord, p[2])
                                THEN <<id[p[1]], p[2]>>
                                ELSE <<p[1], id[p[2]]>>]
<1>1. step \in [D -> D]
  OBVIOUS
<1>2. PICK M : GoesOn(M, D, stop, out, step)
  <2> HIDE DEF D, stop, out, step
  <2>1. QED
    BY <1>1, GoesOnExists
<1>3. \A p \in D :
          (IF p \in stop THEN out[p] ELSE M[step[p]])
        = (IF p[1] = p[2] THEN p[1]
           ELSE IF Null \in {p[1], p[2]} THEN Null
           ELSE IF Position(ord, p[1]) < Position(ord, p[2])
           THEN M[<<id[p[1]], p[2]>>]
           ELSE M[<<p[1], id[p[2]]>>])
  OBVIOUS
<1>4. Meets(M, f, ord, id)
  <2>1. M = [p \in D |-> IF p \in stop THEN out[p] ELSE M[step[p]]]
    BY <1>2 DEF GoesOn
  <2> HIDE DEF stop, out, step
  <2>2. QED
    BY <1>3, <2>1, ZenonT(30) DEF Meets
<1>5. QED
  BY <1>4

\* The pair that intersect goes on with.
MeetStep(ord, id, p) ==
    IF Position(ord, p[1]) < Position(ord, p[2]) THEN <<id[p[1]], p[2]>> ELSE <<p[1], id[p[2]]>>

\* The pairs T stay together on the way, and where the way ends is in Res.
Carries(ord, id, T, Res) ==
    \A p \in T : IF p[1] = p[2] THEN p[1] \in Res ELSE MeetStep(ord, id, p) \in T

\* What holds on the way of intersect holds where it ends: the sum of the
\* numbers grows, and is bounded.
LEMMA MeetInduction ==
    ASSUME NEW f, NEW ord, NEW id, Climbs(f, ord, id), NEW M, Meets(M, f, ord, id),
           NEW T \in SUBSET (WithIdom(f, id) \X WithIdom(f, id)), NEW Res,
           Carries(ord, id, T, Res)
    PROVE  \A p \in T : M[p] \in Res
<1> DEFINE K == WithIdom(f, id)
           U == K \X K
           left(p) == (Len(ord) - Position(ord, p[1])) + (Len(ord) - Position(ord, p[2]))
           rank == [p \in U |-> left(p)]
           Bad == {p \in T : M[p] \notin Res}
<1>1. /\ Null \notin K /\ K \subseteq Nodes(f) /\ Len(ord) \in Nat
      /\ \A b \in K : /\ id[b] \in K /\ Position(ord, b) \in Nat /\ Position(ord, b) <= Len(ord)
                      /\ b # Entry => Position(ord, b) < Position(ord, id[b])
      /\ Position(ord, Entry) = Len(ord)
      /\ \A a, b \in K : Position(ord, a) = Position(ord, b) => a = b
  BY KnownFacts, PositionFacts DEF Climbs, IdomFits
<1>2. IsFiniteSet(U)
  <2>1. IsFiniteSet(K)
    <3>1. IsFiniteSet(Blocks(f))
      <4>1. Blocks(f) = 1..Len(f.code) /\ 1 \in Int /\ Len(f.code) \in Int
        BY BlocksFacts DEF Climbs, HasEntry
      <4>2. QED
        BY <4>1, FS_Interval, Zenon
    <3>2. K \subseteq Blocks(f)
      BY DEF WithIdom
    <3>3. QED
      BY <3>1, <3>2, FS_Subset
  <2>2. QED
    BY <2>1, FS_Product
<1>3. \A p \in U : rank[p] \in Nat
  BY <1>1
<1>4. ASSUME Bad # {}
      PROVE  FALSE
  <2>1. PICK p \in Bad : \A q \in Bad : rank[p] <= rank[q]
    <3>1. Bad \in SUBSET U
      OBVIOUS
    <3> HIDE DEF Bad, U, rank
    <3>2. QED
      BY <1>2, <1>3, <1>4, <3>1, LeastRank
  <2>2. p \in T /\ M[p] \notin Res /\ p \in U /\ p[1] \in K /\ p[2] \in K
    OBVIOUS
  <2>3. M[p] = IF p[1] = p[2] THEN p[1] ELSE M[MeetStep(ord, id, p)]
    BY <1>1, <2>2 DEF Meets, MeetStep
  <2>4. p[1] # p[2]
    BY <2>2, <2>3 DEF Carries
  <2> DEFINE q == MeetStep(ord, id, p)
  <2>5. q \in T /\ q \in U /\ M[q] = M[p]
    BY <2>2, <2>3, <2>4 DEF Carries
  <2>6. rank[q] < rank[p]
    <3> DEFINE a == Position(ord, p[1])
               b == Position(ord, p[2])
    <3>1. a \in Nat /\ b \in Nat /\ a # b /\ a <= Len(ord) /\ b <= Len(ord)
      BY <1>1, <2>2, <2>4
    <3>2. CASE a < b
      <4>1. q = <<id[p[1]], p[2]>>
        BY <3>2 DEF MeetStep
      <4>2. p[1] # Entry
        BY <1>1, <3>1, <3>2
      <4>3. /\ Position(ord, id[p[1]]) \in Nat /\ a < Position(ord, id[p[1]])
            /\ Position(ord, id[p[1]]) <= Len(ord)
        BY <1>1, <2>2, <4>2
      <4>4. rank[p] = (Len(ord) - a) + (Len(ord) - b)
        BY <2>2
      <4>5. rank[q] = (Len(ord) - Position(ord, id[p[1]])) + (Len(ord) - b)
        BY <2>5, <4>1
      <4> HIDE DEF rank, a, b, q
      <4>6. QED
        BY <1>1, <3>1, <4>3, <4>4, <4>5
    <3>3. CASE b < a
      <4>1. q = <<p[1], id[p[2]]>>
        BY <3>1, <3>3 DEF MeetStep
      <4>2. p[2] # Entry
        BY <1>1, <3>1, <3>3
      <4>3. /\ Position(ord, id[p[2]]) \in Nat /\ b < Position(ord, id[p[2]])
            /\ Position(ord, id[p[2]]) <= Len(ord)
        BY <1>1, <2>2, <4>2
      <4>4. rank[p] = (Len(ord) - a) + (Len(ord) - b)
        BY <2>2
      <4>5. rank[q] = (Len(ord) - a) + (Len(ord) - Position(ord, id[p[2]]))
        BY <2>5, <4>1
      <4> HIDE DEF rank, a, b, q
      <4>6. QED
        BY <1>1, <3>1, <4>3, <4>4, <4>5
    <3>4. QED
      BY <3>1, <3>2, <3>3
  <2>7. q \in Bad
    BY <2>2, <2>5
  <2>8. rank[p] \in Nat /\ rank[q] \in Nat /\ rank[p] <= rank[q]
    <3> HIDE DEF Bad, rank, q, U
    <3>1. QED
      BY <1>3, <2>1, <2>2, <2>5, <2>7
  <2>9. QED
    BY <2>6, <2>8
<1>5. QED
  BY <1>4

\* intersect finds a known block above both, and nothing that dominates both
\* is missing above it.
LEMMA MeetFacts ==
    ASSUME NEW f, NEW ord, NEW id, Climbs(f, ord, id), NEW M, Meets(M, f, ord, id),
           NEW a \in WithIdom(f, id), NEW b \in WithIdom(f, id)
    PROVE  /\ M[<<a, b>>] \in Up(f, id, a) /\ M[<<a, b>>] \in Up(f, id, b)
           /\ M[<<a, b>>] \in WithIdom(f, id)
           /\ \A S : S \subseteq DominatorSets(f)[a] /\ S \subseteq DominatorSets(f)[b]
                     => S \subseteq DominatorSets(f)[M[<<a, b>>]]
<1> DEFINE K == WithIdom(f, id)
<1>1. M[<<a, b>>] \in Up(f, id, a) \cap Up(f, id, b)
  <2> DEFINE T == {p \in K \X K : p[1] \in Up(f, id, a) /\ p[2] \in Up(f, id, b)}
             Res == Up(f, id, a) \cap Up(f, id, b)
  <2>1. /\ a \in Up(f, id, a) /\ Up(f, id, a) \subseteq K
        /\ \A x \in Up(f, id, a) : id[x] \in Up(f, id, a)
    BY UpFacts
  <2>2. /\ b \in Up(f, id, b) /\ Up(f, id, b) \subseteq K
        /\ \A x \in Up(f, id, b) : id[x] \in Up(f, id, b)
    BY UpFacts
  <2>3. \A p \in T : p[1] # p[2] => MeetStep(ord, id, p) \in T
    BY <2>1, <2>2 DEF MeetStep
  <2>4. \A p \in T : p[1] = p[2] => p[1] \in Res
    OBVIOUS
  <2>5. <<a, b>> \in T /\ T \in SUBSET (K \X K)
    BY <2>1, <2>2
  <2> HIDE DEF T, Res
  <2>6. \A p \in T : M[p] \in Res
    <3>1. T \in SUBSET (WithIdom(f, id) \X WithIdom(f, id))
      BY <2>5
    <3>2. Carries(ord, id, T, Res)
      BY <2>3, <2>4 DEF Carries
    <3> HIDE DEF K
    <3>3. QED
      BY <3>1, <3>2, MeetInduction
  <2>7. QED
    BY <2>5, <2>6 DEF Res
<1>2. ASSUME NEW S, S \subseteq DominatorSets(f)[a], S \subseteq DominatorSets(f)[b]
      PROVE  S \subseteq DominatorSets(f)[M[<<a, b>>]]
  <2> DEFINE T == {p \in K \X K : /\ S \subseteq DominatorSets(f)[p[1]]
                                  /\ S \subseteq DominatorSets(f)[p[2]]}
             Res == {x \in K : S \subseteq DominatorSets(f)[x]}
  <2>1. HasEntry(f) /\ OrderFits(f, ord) /\ K \subseteq Reachable(f)
    BY DEF Climbs, IdomFits
  <2>2. ASSUME NEW x \in K, NEW y \in K, Position(ord, x) < Position(ord, y),
               S \subseteq DominatorSets(f)[x], S \subseteq DominatorSets(f)[y]
        PROVE  id[x] \in K /\ S \subseteq DominatorSets(f)[id[x]]
    <3>1. /\ Position(ord, x) \in Nat /\ Position(ord, y) \in Nat
          /\ Position(ord, y) <= Len(ord) /\ Position(ord, Entry) = Len(ord)
          /\ Len(ord) \in Nat
      BY <2>1, KnownFacts, PositionFacts
    <3>2. x # Entry /\ x # y
      BY <2>2, <3>1
    <3>3. x \notin S
      <4> SUFFICES ASSUME x \in S
                   PROVE  FALSE
        OBVIOUS
      <4>1. Position(ord, y) < Position(ord, x)
        BY <2>1, <2>2, <3>2, DominatorsBehind
      <4>2. QED
        BY <2>2, <3>1, <4>1
    <3>4. id[x] \in K /\ DominatorSets(f)[x] \ {x} \subseteq DominatorSets(f)[id[x]]
      BY <3>2 DEF Climbs, IdomFits
    <3>5. QED
      BY <2>2, <3>3, <3>4
  <2>3. ASSUME NEW p \in T, p[1] # p[2]
        PROVE  MeetStep(ord, id, p) \in T
    <3>1. /\ p[1] \in K /\ p[2] \in K
          /\ S \subseteq DominatorSets(f)[p[1]] /\ S \subseteq DominatorSets(f)[p[2]]
      OBVIOUS
    <3>2. /\ Position(ord, p[1]) \in Nat /\ Position(ord, p[2]) \in Nat
          /\ Position(ord, p[1]) # Position(ord, p[2])
      BY <2>1, <2>3, <3>1, PositionFacts
    <3>3. CASE Position(ord, p[1]) < Position(ord, p[2])
      BY <2>2, <3>1, <3>3 DEF MeetStep
    <3>4. CASE Position(ord, p[2]) < Position(ord, p[1])
      <4>1. MeetStep(ord, id, p) = <<p[1], id[p[2]]>>
        BY <3>2, <3>4 DEF MeetStep
      <4>2. QED
        BY <2>2, <3>1, <3>4, <4>1
    <3>5. QED
      BY <3>2, <3>3, <3>4
  <2>4. \A p \in T : p[1] = p[2] => p[1] \in Res
    OBVIOUS
  <2>5. <<a, b>> \in T /\ T \in SUBSET (K \X K)
    BY <1>2
  <2> HIDE DEF T, Res
  <2>6. \A p \in T : M[p] \in Res
    <3>1. T \in SUBSET (WithIdom(f, id) \X WithIdom(f, id))
      BY <2>5
    <3>2. Carries(ord, id, T, Res)
      BY <2>3, <2>4 DEF Carries
    <3> HIDE DEF K
    <3>3. QED
      BY <3>1, <3>2, MeetInduction
  <2>7. QED
    BY <2>5, <2>6 DEF Res
<1>3. M[<<a, b>>] \in K
  BY <1>1, UpFacts
<1>4. QED
  BY <1>1, <1>2, <1>3

\* Intersect is a solution of its recursion.
LEMMA IntersectMeets ==
    ASSUME idom \in [Nodes(func) -> Nodes(func)]
    PROVE  \E M : Meets(M, func, order, idom) /\ \A a, b : Intersect(a, b) = M[<<a, b>>]
<1> DEFINE M == CHOOSE Meet : Meet =
                    [p \in Node \X Node |->
                        IF p[1] = p[2] THEN p[1]
                        ELSE IF Null \in {p[1], p[2]} THEN Null
                        ELSE IF PostOrderId(p[1]) < PostOrderId(p[2])
                        THEN Meet[<<idom[p[1]], p[2]>>]
                        ELSE Meet[<<p[1], idom[p[2]]>>]]
<1>1. \A a, b : Intersect(a, b) = M[<<a, b>>]
  BY DEF Intersect
<1>2. \A Q : Meets(Q, func, order, idom) <=>
             Q = [p \in Node \X Node |->
                        IF p[1] = p[2] THEN p[1]
                        ELSE IF Null \in {p[1], p[2]} THEN Null
                        ELSE IF PostOrderId(p[1]) < PostOrderId(p[2])
                        THEN Q[<<idom[p[1]], p[2]>>]
                        ELSE Q[<<p[1], idom[p[2]]>>]]
  <2>1. \A b : PostOrderId(b) = Position(order, b)
    BY DEF PostOrderId, Position
  <2>2. QED
    BY <2>1 DEF Meets, Node, Nodes
<1>3. \E Q : Meets(Q, func, order, idom)
  BY MeetsExist
<1>4. Meets(M, func, order, idom)
  BY <1>2, <1>3
<1> HIDE DEF M
<1>5. QED
  BY <1>1, <1>4

-----------------------------------------------------------------------------
(* The immediate dominator that the predecessors suggest.                  *)

\* The predecessors that have an immediate dominator, by their places.
KnownPlaces(id, preds) == {k \in DOMAIN preds : id[preds[k]] # Null}

\* The recursion of NewIdom, over the predecessors from the first on.
Suggests(g, M, id, preds, first) ==
    g = [k \in first..Len(preds) |->
            IF k = first THEN preds[k]
            ELSE IF k \notin KnownPlaces(id, preds) \/ preds[k] = preds[first] \/ g[k - 1] = Null
            THEN g[k - 1]
            ELSE M[<<preds[k], g[k - 1]>>]]

\* preds have a first one that is known.
StartsAt(f, ord, id, M, preds, first) ==
    /\ Climbs(f, ord, id) /\ Meets(M, f, ord, id)
    /\ preds \in Seq(Blocks(f))
    /\ first \in KnownPlaces(id, preds)
    /\ \A j \in KnownPlaces(id, preds) : first <= j

\* The places of the predecessors that are known are numbers in range.
LEMMA StartFacts ==
    ASSUME NEW f, NEW ord, NEW id, NEW M, NEW preds, NEW first,
           StartsAt(f, ord, id, M, preds, first)
    PROVE  /\ Len(preds) \in Nat /\ DOMAIN preds = 1..Len(preds)
           /\ first \in Nat \ {0} /\ first <= Len(preds) /\ first \in 1..Len(preds)
           /\ \A k \in KnownPlaces(id, preds) : preds[k] \in WithIdom(f, id) /\ k \in Nat
<1>1. Len(preds) \in Nat /\ DOMAIN preds = 1..Len(preds)
  BY LenProperties DEF StartsAt
<1>2. \A k \in 1..Len(preds) : preds[k] \in Blocks(f)
  BY ElementOfSeq DEF StartsAt
<1>3. first \in 1..Len(preds)
  BY <1>1 DEF StartsAt, KnownPlaces
<1>4. QED
  BY <1>1, <1>2, <1>3 DEF KnownPlaces, WithIdom

\* The equation of the loop over the predecessors has a solution.
LEMMA SuggestsExists ==
    ASSUME NEW f, NEW ord, NEW id, NEW M, NEW preds, NEW first,
           StartsAt(f, ord, id, M, preds, first)
    PROVE  \E g : Suggests(g, M, id, preds, first)
<1> DEFINE K == WithIdom(f, id)
           n == Len(preds)
           next == [x \in (first..n) \X K |->
                       IF x[1] \notin KnownPlaces(id, preds) \/ preds[x[1]] = preds[first]
                       THEN x[2] ELSE M[<<preds[x[1]], x[2]>>]]
<1>1. /\ n \in Nat /\ first \in Nat /\ preds[first] \in K
      /\ \A k \in KnownPlaces(id, preds) : preds[k] \in K
  BY StartFacts DEF StartsAt
<1>2. next \in [(first..n) \X K -> K]
  <2>1. \A a, b \in K : M[<<a, b>>] \in K
    BY MeetFacts DEF StartsAt
  <2>2. QED
    BY <1>1, <2>1
<1>3. PICK g \in [first..n -> K] : Iterates(g, first, n, preds[first], next)
  <2> HIDE DEF K, n, next
  <2>1. QED
    BY <1>1, <1>2, IteratesExist
<1>4. g = [k \in first..n |-> IF k = first THEN preds[first] ELSE next[<<k, g[k - 1]>>]]
  BY <1>3 DEF Iterates
<1>5. ASSUME NEW k \in first..n
      PROVE  g[k] = IF k = first THEN preds[k]
                    ELSE IF k \notin KnownPlaces(id, preds) \/ preds[k] = preds[first] \/ g[k - 1] = Null
                    THEN g[k - 1]
                    ELSE M[<<preds[k], g[k - 1]>>]
  <2>1. g[k] = IF k = first THEN preds[first] ELSE next[<<k, g[k - 1]>>]
    BY <1>4
  <2>2. CASE k = first
    BY <2>1, <2>2
  <2>3. CASE k # first
    <3>1. k - 1 \in first..n
      BY <1>1, <2>3
    <3>2. g[k - 1] \in K /\ g[k - 1] # Null
      BY <1>3, <3>1, KnownFacts DEF StartsAt
    <3>3. next[<<k, g[k - 1]>>] =
              IF k \notin KnownPlaces(id, preds) \/ preds[k] = preds[first]
              THEN g[k - 1] ELSE M[<<preds[k], g[k - 1]>>]
      BY <3>2
    <3>4. QED
      BY <2>1, <2>3, <3>2, <3>3
  <2>4. QED
    BY <2>2, <2>3
<1>6. Suggests(g, M, id, preds, first)
  <2>1. DOMAIN g = first..n
    BY <1>3
  <2>2. g = [k \in first..n |-> g[k]]
    BY <1>3
  <2> HIDE DEF next
  <2>3. QED
    BY <1>5, <2>2 DEF Suggests
<1>7. QED
  BY <1>6

\* Up to each place, the block found is above the known predecessors, and
\* nothing that dominates all of them is missing above it.
LEMMA SuggestionFacts ==
    ASSUME NEW f, NEW ord, NEW id, NEW M, NEW preds, NEW first,
           StartsAt(f, ord, id, M, preds, first),
           NEW g, Suggests(g, M, id, preds, first),
           NEW S, \A k \in KnownPlaces(id, preds) : S \subseteq DominatorSets(f)[preds[k]]
    PROVE  \A k \in first..Len(preds) :
               /\ g[k] \in WithIdom(f, id)
               /\ \A j \in KnownPlaces(id, preds) : j <= k => g[k] \in Up(f, id, preds[j])
               /\ S \subseteq DominatorSets(f)[g[k]]
<1> DEFINE K == WithIdom(f, id)
           P == KnownPlaces(id, preds)
           n == Len(preds)
           Fits(k) == /\ g[k] \in K
                      /\ \A j \in P : j <= k => g[k] \in Up(f, id, preds[j])
                      /\ S \subseteq DominatorSets(f)[g[k]]
           Bad == {k \in first..n : ~Fits(k)}
<1>1. /\ n \in Nat /\ first \in Nat /\ first \in P /\ preds[first] \in K
      /\ \A k \in P : preds[k] \in K /\ k \in Nat /\ first <= k
  BY StartFacts DEF StartsAt
<1>2. Climbs(f, ord, id) /\ Meets(M, f, ord, id)
  BY DEF StartsAt
<1>3. ASSUME Bad # {}
      PROVE  FALSE
  <2>1. PICK k \in Bad : \A j \in Bad : k <= j
    <3>1. Bad \in SUBSET (first..n)
      OBVIOUS
    <3> HIDE DEF Bad
    <3>2. QED
      BY <1>1, <1>3, <3>1, LeastNumber
  <2>2. k \in first..n /\ k \in Nat /\ first <= k /\ k <= n /\ ~Fits(k)
    BY <1>1
  <2> HIDE DEF Fits
  <2>3. g[k] = IF k = first THEN preds[k]
               ELSE IF k \notin P \/ preds[k] = preds[first] \/ g[k - 1] = Null
               THEN g[k - 1]
               ELSE M[<<preds[k], g[k - 1]>>]
    BY <2>2 DEF Suggests
  <2>4. CASE k = first
    <3>1. g[k] = preds[first]
      BY <2>3, <2>4
    <3>2. \A j \in P : j <= k => j = first
      BY <1>1, <2>4
    <3>3. preds[first] \in Up(f, id, preds[first])
      BY <1>1, <1>2, UpFacts
    <3>4. Fits(k)
      BY <1>1, <3>1, <3>2, <3>3 DEF Fits
    <3>5. QED
      BY <2>2, <3>4
  <2>5. CASE k # first
    <3>1. k - 1 \in first..n /\ ~(k <= k - 1) /\ first <= k - 1
      BY <1>1, <2>2, <2>5
    <3>2. Fits(k - 1)
      BY <2>1, <3>1
    <3>3. g[k - 1] \in K /\ g[k - 1] # Null
      BY <1>2, <3>2, KnownFacts DEF Fits
    <3>4. \A j \in P : j <= k => j <= k - 1 \/ j = k
      BY <1>1, <2>2
    <3>5. CASE k \notin P \/ preds[k] = preds[first]
      <4>1. g[k] = g[k - 1]
        BY <2>3, <2>5, <3>5
      <4>2. k \in P => g[k - 1] \in Up(f, id, preds[k])
        BY <1>1, <3>1, <3>2, <3>5 DEF Fits
      <4>3. Fits(k)
        BY <3>2, <3>4, <4>1, <4>2 DEF Fits
      <4>4. QED
        BY <2>2, <4>3
    <3>6. CASE ~(k \notin P \/ preds[k] = preds[first])
      <4>1. g[k] = M[<<preds[k], g[k - 1]>>] /\ preds[k] \in K
        BY <1>1, <2>3, <2>5, <3>3, <3>6
      <4>2. /\ g[k] \in Up(f, id, preds[k]) /\ g[k] \in Up(f, id, g[k - 1]) /\ g[k] \in K
            /\ \A X : X \subseteq DominatorSets(f)[preds[k]] /\ X \subseteq DominatorSets(f)[g[k - 1]]
                      => X \subseteq DominatorSets(f)[g[k]]
        BY <1>2, <3>3, <4>1, MeetFacts
      <4>3. S \subseteq DominatorSets(f)[g[k]]
        BY <3>2, <3>6, <4>2 DEF Fits
      <4>4. \A j \in P : j <= k - 1 => g[k] \in Up(f, id, preds[j])
        <5> SUFFICES ASSUME NEW j \in P, j <= k - 1
                     PROVE  g[k] \in Up(f, id, preds[j])
          OBVIOUS
        <5>1. g[k - 1] \in Up(f, id, preds[j])
          BY <3>2 DEF Fits
        <5>2. \A x \in Up(f, id, preds[j]) : Up(f, id, x) \subseteq Up(f, id, preds[j])
          BY <1>1, <1>2, UpFacts
        <5>3. QED
          BY <4>2, <5>1, <5>2
      <4>5. Fits(k)
        BY <3>4, <4>2, <4>3, <4>4 DEF Fits
      <4>6. QED
        BY <2>2, <4>5
    <3>7. QED
      BY <3>5, <3>6
  <2>6. QED
    BY <2>4, <2>5
<1>4. QED
  BY <1>3

\* NewIdom of a block with a known predecessor.
LEMMA NewIdomFacts ==
    ASSUME Climbs(func, order, idom), NEW bb \in Blocks(func),
           NEW q \in Pre(func, bb) \cap WithIdom(func, idom)
    PROVE  /\ NewIdom(bb) \in WithIdom(func, idom)
           /\ \A p \in Pre(func, bb) \cap WithIdom(func, idom) : NewIdom(bb) \in Up(func, idom, p)
           /\ \A S : (\A p \in Pre(func, bb) \cap WithIdom(func, idom) : S \subseteq DominatorSets(func)[p])
                     => S \subseteq DominatorSets(func)[NewIdom(bb)]
<1> DEFINE preds == func.pre[bb]
           P == KnownPlaces(idom, preds)
           first == CHOOSE k \in P : \A j \in P : k <= j
<1>1. preds \in Seq(Blocks(func)) /\ Len(preds) \in Nat /\ DOMAIN preds = 1..Len(preds)
  <2>1. WellFormed(func)
    BY DEF Climbs, HasEntry
  <2>2. preds \in Seq(Nat)
    BY <2>1, BlocksFacts, ElementOfSeq
  <2>3. Len(preds) \in Nat /\ DOMAIN preds = 1..Len(preds)
    BY <2>2, LenProperties
  <2>4. \A k \in 1..Len(preds) : preds[k] \in Blocks(func)
    BY <2>1, <2>3 DEF WellFormed, ToSet
  <2>5. preds = [k \in 1..Len(preds) |-> preds[k]]
    BY <2>2, LenProperties
  <2> HIDE DEF preds
  <2>6. preds \in Seq(Blocks(func))
    BY <2>3, <2>4, <2>5
  <2>7. QED
    BY <2>3, <2>6
<1>2. \A p \in Pre(func, bb) \cap WithIdom(func, idom) : \E k \in P : preds[k] = p
  BY DEF Pre, ToSet, KnownPlaces, WithIdom
<1>3. P # {} /\ P \in SUBSET (1..Len(preds))
  BY <1>1, <1>2 DEF KnownPlaces
<1> HIDE DEF preds
<1>4. first \in P /\ \A j \in P : first <= j
  <2>1. \E k \in P : \A j \in P : k <= j
    <3> HIDE DEF P
    <3>1. QED
      BY <1>1, <1>3, LeastNumber
  <2> HIDE DEF P
  <2>2. QED
    BY <2>1
<1>5. idom \in [Nodes(func) -> Nodes(func)]
  BY DEF Climbs, IdomFits
<1>6. PICK M : Meets(M, func, order, idom) /\ \A a, b : Intersect(a, b) = M[<<a, b>>]
  BY <1>5, IntersectMeets
<1>7. StartsAt(func, order, idom, M, preds, first)
  <2> HIDE DEF first
  <2>1. QED
    BY <1>1, <1>4, <1>6 DEF StartsAt
<1> DEFINE g == CHOOSE New : New =
                    [k \in first..Len(preds) |->
                        IF k = first THEN preds[k]
                        ELSE IF k \notin P \/ preds[k] = preds[first] \/ New[k - 1] = Null
                        THEN New[k - 1]
                        ELSE Intersect(preds[k], New[k - 1])]
<1>8. NewIdom(bb) = g[Len(preds)]
  BY <1>3 DEF NewIdom, preds, KnownPlaces
<1>9. \A h : Suggests(h, M, idom, preds, first) <=>
             h = [k \in first..Len(preds) |->
                        IF k = first THEN preds[k]
                        ELSE IF k \notin P \/ preds[k] = preds[first] \/ h[k - 1] = Null
                        THEN h[k - 1]
                        ELSE Intersect(preds[k], h[k - 1])]
  <2> HIDE DEF first
  <2>1. QED
    BY <1>6 DEF Suggests
<1>10. Suggests(g, M, idom, preds, first)
  <2>1. \E h : Suggests(h, M, idom, preds, first)
    BY <1>7, SuggestsExists
  <2> HIDE DEF first, P
  <2>2. QED
    BY <1>9, <2>1
<1> HIDE DEF g, first
<1>11. Len(preds) \in first..Len(preds) /\ \A j \in P : j <= Len(preds)
  <2>1. first \in Nat /\ first <= Len(preds)
    BY <1>7, StartFacts
  <2>2. QED
    BY <1>1, <1>3, <2>1
<1>12. ASSUME NEW S, \A p \in Pre(func, bb) \cap WithIdom(func, idom) : S \subseteq DominatorSets(func)[p]
       PROVE  /\ g[Len(preds)] \in WithIdom(func, idom)
              /\ \A j \in P : g[Len(preds)] \in Up(func, idom, preds[j])
              /\ S \subseteq DominatorSets(func)[g[Len(preds)]]
  <2>1. \A k \in P : preds[k] \in Pre(func, bb) \cap WithIdom(func, idom)
    <3>1. \A k \in P : preds[k] \in WithIdom(func, idom)
      BY <1>7, StartFacts
    <3>2. \A k \in P : preds[k] \in Pre(func, bb)
      BY <1>1, <1>3 DEF Pre, ToSet, preds
    <3>3. QED
      BY <3>1, <3>2
  <2>2. \A k \in P : S \subseteq DominatorSets(func)[preds[k]]
    BY <1>12, <2>1
  <2>3. \A k \in first..Len(preds) :
               /\ g[k] \in WithIdom(func, idom)
               /\ \A j \in P : j <= k => g[k] \in Up(func, idom, preds[j])
               /\ S \subseteq DominatorSets(func)[g[k]]
    BY <1>7, <1>10, <2>2, SuggestionFacts
  <2>4. QED
    BY <1>11, <2>3
<1>13. /\ g[Len(preds)] \in WithIdom(func, idom)
       /\ \A j \in P : g[Len(preds)] \in Up(func, idom, preds[j])
  <2> DEFINE S == {}
  <2>1. \A p \in Pre(func, bb) \cap WithIdom(func, idom) : S \subseteq DominatorSets(func)[p]
    OBVIOUS
  <2> HIDE DEF P, S
  <2>2. QED
    BY <1>12, <2>1
<1>14. QED
  <2> HIDE DEF P
  <2>1. QED
    BY <1>2, <1>8, <1>12, <1>13

-----------------------------------------------------------------------------
(* The iteration.                                                          *)

\* The edges of a consistent function, seen from both ends.
LEMMA GraphFacts ==
    ASSUME NEW f, IsGraph(f)
    PROVE  /\ HasEntry(f)
           /\ \A b \in Blocks(f) : Pre(f, b) \subseteq Blocks(f) /\ Succ(f, b) \subseteq Blocks(f)
           /\ \A b, p \in Blocks(f) : p \in Pre(f, b) <=> b \in Succ(f, p)
           /\ Pre(f, Entry) = {}
<1>1. Consistent(f) /\ WellFormed(f) /\ Entry \in Blocks(f)
  BY DEF IsGraph, Consistent
<1>2. \A b \in Blocks(f) : Pre(f, b) \subseteq Blocks(f) /\ Succ(f, b) \subseteq Blocks(f)
  BY <1>1 DEF WellFormed, Pre, Succ
<1>3. \A b, p \in Blocks(f) : p \in Pre(f, b) <=> b \in Succ(f, p)
  BY <1>1, PredecessorsAre
<1>4. Pre(f, Entry) = {}
  BY <1>1 DEF Consistent, NoWayBack, Pre, ToSet
<1>5. QED
  BY <1>1, <1>2, <1>3, <1>4 DEF HasEntry

\* The immediate dominator of b is above each predecessor that has one.
Settled(f, id, b) == \A p \in Pre(f, b) \cap WithIdom(f, id) : id[b] \in Up(f, id, p)

\* The round is past the blocks behind k: they have an immediate dominator,
\* and the one that their predecessors suggest unless something changed.
RoundFits(f, ord, id, k, change) ==
    /\ IdomFits(f, ord, id)
    /\ k \in 0..Len(ord)
    /\ \A j \in DOMAIN ord : k < j => ord[j] \in WithIdom(f, id)
    /\ ~change => \A j \in DOMAIN ord : k < j /\ ord[j] # Entry => Settled(f, id, ord[j])

\* What create_idom gives the block at its place.
Suggested(bb) == IF bb = Entry THEN Entry ELSE NewIdom(bb)

\* One block of the iteration: it has a predecessor that is known, so the
\* assertions hold, and the round fits as before.
LEMMA IterateKeeps ==
    ASSUME IsGraph(func), OrderFits(func, order), RoundFits(func, order, idom, at, changed), at > 0
    PROVE  LET bb == order[at]  new == Suggested(bb)
           IN  /\ new # Null
               /\ RoundFits(func, order, [idom EXCEPT ![bb] = new], at - 1, changed \/ new # idom[bb])
<1> DEFINE bb == order[at]
           new == Suggested(bb)
           id == [idom EXCEPT ![bb] = new]
           doms == DominatorSets(func)
           live == Reachable(func)
           K == WithIdom(func, idom)
<1>1. /\ HasEntry(func) /\ Climbs(func, order, idom)
      /\ \A b \in Blocks(func) : Pre(func, b) \subseteq Blocks(func)
      /\ \A b, p \in Blocks(func) : p \in Pre(func, b) <=> b \in Succ(func, p)
  BY GraphFacts DEF Climbs, RoundFits
<1>2. /\ Len(order) \in Nat /\ DOMAIN order = 1..Len(order)
      /\ \A b \in live : /\ Position(order, b) \in 1..Len(order)
                         /\ order[Position(order, b)] = b
      /\ \A k \in 1..Len(order) : order[k] \in live /\ Position(order, order[k]) = k
  BY PositionFacts
<1>3. at \in DOMAIN order /\ at \in Nat /\ at - 1 \in 0..Len(order)
  BY <1>2 DEF RoundFits
<1>4. bb \in live /\ bb \in Blocks(func) /\ Position(order, bb) = at /\ live \subseteq Blocks(func)
  BY <1>1, <1>2, <1>3, DominatorsOfLive
<1>5. /\ idom \in [Nodes(func) -> Nodes(func)] /\ idom[Null] = Null /\ idom[Entry] = Entry
      /\ K \subseteq live
      /\ \A b \in K \ {Entry} : /\ idom[b] \in K
                                /\ Position(order, b) < Position(order, idom[b])
                                /\ doms[b] \ {b} \subseteq doms[idom[b]]
  BY DEF RoundFits, IdomFits
<1>6. /\ Null \notin Blocks(func) /\ Entry \in K /\ K \subseteq Nodes(func) /\ Null \notin K
  BY <1>1, KnownFacts
<1>7. bb # Entry =>
          /\ new \in K /\ at < Position(order, new)
          /\ doms[bb] \ {bb} \subseteq doms[new]
          /\ \A p \in Pre(func, bb) \cap K : new \in Up(func, idom, p)
  <2> SUFFICES ASSUME bb # Entry
               PROVE  /\ new \in K /\ at < Position(order, new)
                      /\ doms[bb] \ {bb} \subseteq doms[new]
                      /\ \A p \in Pre(func, bb) \cap K : new \in Up(func, idom, p)
    OBVIOUS
  <2>1. PICK q \in live : bb \in Succ(func, q) /\ at < Position(order, q)
    BY <1>4, PredecessorBehind
  <2>2. q \in Pre(func, bb) \cap K
    <3>1. q \in Pre(func, bb)
      BY <1>1, <1>4, <2>1
    <3>2. order[Position(order, q)] \in K
      BY <1>2, <2>1 DEF RoundFits
    <3>3. QED
      BY <1>2, <3>1, <3>2
  <2>3. new = NewIdom(bb)
    BY DEF Suggested
  <2> HIDE DEF new, bb
  <2>4. /\ new \in K
        /\ \A p \in Pre(func, bb) \cap K : new \in Up(func, idom, p)
        /\ \A S : (\A p \in Pre(func, bb) \cap K : S \subseteq doms[p]) => S \subseteq doms[new]
    BY <1>1, <1>4, <2>2, <2>3, NewIdomFacts
  <2>5. at < Position(order, new)
    <3>1. Position(order, q) <= Position(order, new)
      BY <1>1, <2>2, <2>4, UpFacts
    <3>2. Position(order, q) \in Nat /\ Position(order, new) \in Nat
      BY <1>2, <1>5, <2>1, <2>4
    <3>3. QED
      BY <1>3, <2>1, <3>1, <3>2
  <2>6. \A p \in Pre(func, bb) \cap K : doms[bb] \ {bb} \subseteq doms[p]
    <3> SUFFICES ASSUME NEW p \in Pre(func, bb) \cap K
                 PROVE  doms[bb] \ {bb} \subseteq doms[p]
      OBVIOUS
    <3>1. p \in live /\ p \in Blocks(func) /\ bb \in Succ(func, p)
      BY <1>1, <1>4, <1>5
    <3>2. QED
      BY <1>1, <3>1, DominatorsThroughEdge
  <2>7. doms[bb] \ {bb} \subseteq doms[new]
    BY <2>4, <2>6
  <2>8. QED
    BY <2>4, <2>5, <2>7
<1>8. new \in K /\ new # Null /\ (bb = Entry => new = Entry)
  BY <1>6, <1>7 DEF Suggested
<1> HIDE DEF bb, new
<1>9. /\ id \in [Nodes(func) -> Nodes(func)]
      /\ id[bb] = new /\ \A b \in Nodes(func) : b # bb => id[b] = idom[b]
  BY <1>4, <1>5, <1>6, <1>8 DEF Nodes
<1> HIDE DEF id
<1>10. WithIdom(func, id) = K \cup {bb}
  BY <1>4, <1>8, <1>9 DEF WithIdom, Nodes
<1>11. IdomFits(func, order, id)
  <2>1. id[Null] = Null
    BY <1>4, <1>5, <1>6, <1>9 DEF Nodes
  <2>2. id[Entry] = Entry
    BY <1>5, <1>6, <1>8, <1>9
  <2>3. \A b \in WithIdom(func, id) \ {Entry} :
           /\ id[b] \in WithIdom(func, id)
           /\ Position(order, b) < Position(order, id[b])
           /\ doms[b] \ {b} \subseteq doms[id[b]]
    <3> SUFFICES ASSUME NEW b \in WithIdom(func, id) \ {Entry}
                 PROVE  /\ id[b] \in WithIdom(func, id)
                        /\ Position(order, b) < Position(order, id[b])
                        /\ doms[b] \ {b} \subseteq doms[id[b]]
      OBVIOUS
    <3>1. CASE b = bb
      BY <1>4, <1>7, <1>9, <1>10, <3>1
    <3>2. CASE b # bb
      BY <1>5, <1>6, <1>9, <1>10, <3>2
    <3>3. QED
      BY <3>1, <3>2
  <2>4. QED
    BY <1>4, <1>5, <1>9, <1>10, <2>1, <2>2, <2>3 DEF IdomFits
<1>12. \A j \in DOMAIN order : at - 1 < j => j = at \/ at < j
  BY <1>2, <1>3
<1>13. \A j \in DOMAIN order : at - 1 < j => order[j] \in WithIdom(func, id)
  BY <1>10, <1>12 DEF RoundFits, bb
<1>14. ASSUME ~(changed \/ new # idom[bb])
       PROVE  \A j \in DOMAIN order : at - 1 < j /\ order[j] # Entry => Settled(func, id, order[j])
  <2>1. id = idom
    <3>1. \A b \in Nodes(func) : id[b] = idom[b]
      BY <1>9, <1>14
    <3>2. QED
      BY <1>5, <1>9, <3>1
  <2>2. bb # Entry => Settled(func, idom, bb)
    BY <1>7, <1>14 DEF Settled
  <2>3. \A j \in DOMAIN order : at < j /\ order[j] # Entry => Settled(func, idom, order[j])
    BY <1>14 DEF RoundFits
  <2>4. QED
    BY <1>12, <2>1, <2>2, <2>3 DEF bb
<1>15. RoundFits(func, order, id, at - 1, changed \/ new # idom[bb])
  BY <1>3, <1>11, <1>13, <1>14 DEF RoundFits
<1>16. QED
  BY <1>8, <1>15 DEF id, bb, new

-----------------------------------------------------------------------------
(* What the iteration ends with.                                           *)

\* The immediate dominators of the reachable blocks, and of no others.
ImmediateFits(f, id) ==
    /\ id \in [Nodes(f) -> Nodes(f)]
    /\ id[Null] = Null /\ id[Entry] = Entry
    /\ \A b \in Reachable(f) \ {Entry} :
           /\ id[b] \in DominatorSets(f)[b] \ {b}
           /\ DominatorSets(f)[b] \ {b} \subseteq DominatorSets(f)[id[b]]
    /\ \A b \in Blocks(f) \ Reachable(f) : id[b] = Null

\* After a round without a change, what is above a block dominates it.
LEMMA RoundEnds ==
    ASSUME NEW f, IsGraph(f), NEW ord, OrderFits(f, ord), NEW id, RoundFits(f, ord, id, 0, FALSE)
    PROVE  ImmediateFits(f, id)
<1> DEFINE live == Reachable(f)
           K == WithIdom(f, id)
           doms == DominatorSets(f)
<1>1. HasEntry(f) /\ Climbs(f, ord, id) /\ WellFormed(f) /\ Entry \in Blocks(f)
  BY GraphFacts DEF Climbs, RoundFits, HasEntry
<1>2. live \subseteq Blocks(f) /\ Entry \in live
  BY <1>1, DominatorsOfLive
<1>3. \A b \in live : \E j \in DOMAIN ord : 0 < j /\ ord[j] = b
  BY PositionFacts
<1>4. K = live
  BY <1>3 DEF RoundFits, IdomFits
<1>5. \A b \in live : b # Entry => Settled(f, id, b)
  BY <1>3 DEF RoundFits
<1> DEFINE dom == [x \in Blocks(f) |-> IF x \in live THEN Up(f, id, x) ELSE Nodes(f)]
<1>6. \A b \in live : /\ b \in Up(f, id, b) /\ Up(f, id, b) \subseteq K
                      /\ Up(f, id, b) \subseteq {b} \cup Up(f, id, id[b])
                      /\ \A x \in Up(f, id, b) : Up(f, id, x) \subseteq Up(f, id, b)
                      /\ id[b] \in Up(f, id, b)
                      /\ b = Entry => Up(f, id, b) = {Entry}
  BY <1>1, <1>4, UpFacts
<1>7. Claims(f, dom)
  <2>1. dom[Entry] \subseteq {Entry}
    BY <1>1, <1>2, <1>6
  <2>2. ASSUME NEW b \in Blocks(f), NEW t \in Succ(f, b)
        PROVE  dom[t] \subseteq dom[b] \cup {t}
    <3>1. t \in Blocks(f) /\ b \in Pre(f, t)
      BY GraphFacts
    <3>2. CASE b \in live
      <4>1. t \in live
        BY <1>1, <3>2, ReachableFacts
      <4>2. CASE t = Entry
        BY <1>6, <2>1, <4>1, <4>2
      <4>3. CASE t # Entry
        <5>1. id[t] \in Up(f, id, b)
          BY <1>4, <1>5, <3>1, <3>2, <4>1, <4>3 DEF Settled
        <5>2. Up(f, id, t) \subseteq {t} \cup Up(f, id, b)
          BY <1>6, <3>2, <4>1, <5>1
        <5>3. QED
          BY <3>1, <3>2, <4>1, <5>2
      <4>4. QED
        BY <4>2, <4>3
    <3>3. CASE b \notin live
      <4>1. dom[b] = Nodes(f)
        BY <3>3
      <4>2. dom[t] \subseteq Nodes(f)
        BY <3>1 DEF Up
      <4>3. QED
        BY <4>1, <4>2
    <3>4. QED
      BY <3>2, <3>3
  <2> HIDE DEF dom
  <2>3. QED
    BY <2>1, <2>2 DEF Claims
<1>8. \A b \in live : dom[b] = Up(f, id, b)
  BY <1>2
<1> HIDE DEF dom
<1>9. \A b \in live : Up(f, id, b) \subseteq doms[b]
  BY <1>1, <1>7, <1>8, ClaimsDominate
<1>10. ASSUME NEW b \in live \ {Entry}
       PROVE  /\ id[b] \in doms[b] \ {b}
              /\ doms[b] \ {b} \subseteq doms[id[b]]
  <2>1. id[b] \in doms[b]
    BY <1>6, <1>9
  <2>2. Position(ord, b) < Position(ord, id[b]) /\ doms[b] \ {b} \subseteq doms[id[b]]
    BY <1>4, <1>10 DEF RoundFits, IdomFits
  <2>3. Position(ord, b) \in Nat
    BY PositionFacts
  <2>4. id[b] # b
    BY <2>2, <2>3
  <2>5. QED
    BY <2>1, <2>2, <2>4
<1>11. \A b \in Blocks(f) \ live : id[b] = Null
  BY <1>4 DEF WithIdom
<1>12. QED
  BY <1>10, <1>11 DEF ImmediateFits, RoundFits, IdomFits

-----------------------------------------------------------------------------
(* The runners of the frontiers.                                           *)

\* What a concatenation holds.
LEMMA ConcatIs ==
    ASSUME NEW S, NEW s \in Seq(S), NEW t \in Seq(S)
    PROVE  s \o t \in Seq(S) /\ ToSet(s \o t) = ToSet(s) \cup ToSet(t)
<1>1. s \o t \in Seq(S) /\ Range(s \o t) = Range(s) \cup Range(t)
  BY ConcatProperties, RangeConcatenation
<1>2. QED
  BY <1>1 DEF Range, ToSet

\* What a flattened sequence of sequences holds.
LEMMA FlattenIs ==
    ASSUME NEW S, NEW seqs \in Seq(Seq(S)), seqs # << >>
    PROVE  /\ FlattenSeq(seqs) \in Seq(S)
           /\ \A x : x \in ToSet(FlattenSeq(seqs)) <=> \E i \in DOMAIN seqs : x \in ToSet(seqs[i])
<1> DEFINE n == Len(seqs)
           V == Seq(S)
           next == [a \in (1..n) \X V |-> a[2] \o seqs[a[1]]]
           R == CHOOSE R : R = [i \in 1..n |-> IF i = 1 THEN seqs[i] ELSE R[i - 1] \o seqs[i]]
           Good(i) == /\ R[i] \in V
                      /\ \A x : x \in ToSet(R[i]) <=> \E j \in 1..i : x \in ToSet(seqs[j])
           Bad == {i \in 1..n : ~Good(i)}
<1>1. n \in Nat /\ n # 0 /\ DOMAIN seqs = 1..n /\ \A i \in 1..n : seqs[i] \in V
  OBVIOUS
<1>2. FlattenSeq(seqs) = R[n]
  BY <1>1 DEF FlattenSeq
<1>3. \E g : g = [i \in 1..n |-> IF i = 1 THEN seqs[i] ELSE g[i - 1] \o seqs[i]]
  <2>1. \A i \in 1..n, v \in V : next[<<i, v>>] = v \o seqs[i] /\ next[<<i, v>>] \in V
    BY <1>1, ConcatIs
  <2>2. next \in [(1..n) \X V -> V]
    BY <2>1
  <2>3. seqs[1] \in V /\ 1 \in Nat
    BY <1>1
  <2> HIDE DEF next, n, V
  <2>4. PICK g \in [1..n -> V] : Iterates(g, 1, n, seqs[1], next)
    BY <1>1, <2>2, <2>3, IteratesExist
  <2>5. \A i \in 1..n : i # 1 => i - 1 \in 1..n
    BY <1>1
  <2>6. \A i \in 1..n : g[i] = IF i = 1 THEN seqs[i] ELSE g[i - 1] \o seqs[i]
    BY <2>1, <2>4, <2>5 DEF Iterates
  <2>7. g = [i \in 1..n |-> IF i = 1 THEN seqs[i] ELSE g[i - 1] \o seqs[i]]
    BY <2>6
  <2>8. QED
    BY <2>7
<1>4. R = [i \in 1..n |-> IF i = 1 THEN seqs[i] ELSE R[i - 1] \o seqs[i]]
  BY <1>3
<1> HIDE DEF n, R
<1>5. ASSUME Bad # {}
      PROVE  FALSE
  <2>1. PICK i \in Bad : \A j \in Bad : i <= j
    <3>1. Bad \in SUBSET (1..n) /\ 1 \in Nat
      OBVIOUS
    <3> HIDE DEF Bad
    <3>2. QED
      BY <1>1, <1>5, <3>1, LeastNumber
  <2>2. i \in Nat /\ 1 <= i /\ i <= n /\ i \in 1..n
    BY <1>1
  <2>3. CASE i = 1
    <3>1. R[i] = seqs[1] /\ seqs[1] \in V
      BY <1>1, <1>4, <2>2, <2>3
    <3>2. \A j \in 1..i : j = 1
      BY <2>3
    <3>3. Good(i)
      BY <2>2, <2>3, <3>1, <3>2
    <3>4. QED
      BY <3>3
  <2>4. CASE i # 1
    <3>1. i - 1 \in 1..n /\ ~(i <= i - 1)
      BY <1>1, <2>2, <2>4
    <3>2. Good(i - 1)
      <4>1. i - 1 \notin Bad
        <5> HIDE DEF Bad
        <5>1. QED
          BY <2>1, <3>1
      <4> HIDE DEF Good
      <4>2. QED
        BY <3>1, <4>1
    <3>3. R[i] = R[i - 1] \o seqs[i] /\ seqs[i] \in V
      BY <1>1, <1>4, <2>2, <2>4
    <3>4. R[i] \in V /\ ToSet(R[i]) = ToSet(R[i - 1]) \cup ToSet(seqs[i])
      BY <3>2, <3>3, ConcatIs
    <3>5. \A j : j \in 1..i <=> j \in 1..(i - 1) \/ j = i
      BY <2>2, <2>4
    <3>6. Good(i)
      BY <3>2, <3>4, <3>5
    <3>7. QED
      BY <3>6
  <2>5. QED
    BY <2>3, <2>4
<1>6. Good(n)
  <2>1. n \in 1..n
    BY <1>1
  <2>2. QED
    BY <1>5, <2>1
<1>7. QED
  BY <1>1, <1>2, <1>6

\* What create_dominance_frontier goes through: every edge into a block with
\* two predecessors.
LEMMA RunnersAre ==
    ASSUME IsGraph(func)
    PROVE  /\ Runners \in Seq(Blocks(func) \X Blocks(func))
           /\ \A e \in ToSet(Runners) : e[1] \in Pre(func, e[2]) /\ Len(func.pre[e[2]]) >= 2
           /\ \A b \in Blocks(func) : Len(func.pre[b]) >= 2 =>
                 \A p \in Pre(func, b) : <<p, b>> \in ToSet(Runners)
<1> DEFINE S == Blocks(func) \X Blocks(func)
           edges == [b \in Blocks(func) |->
                        IF Len(func.pre[b]) >= 2
                        THEN [k \in DOMAIN func.pre[b] |-> <<func.pre[b][k], b>>]
                        ELSE << >>]
<1>1. WellFormed(func) /\ Entry \in Blocks(func)
  BY GraphFacts DEF HasEntry
<1>2. /\ Blocks(func) = 1..Len(func.code) /\ Len(func.code) \in Nat
      /\ \A b \in Blocks(func) :
            /\ func.pre[b] \in Seq(Blocks(func)) /\ Len(func.pre[b]) \in Nat
            /\ DOMAIN func.pre[b] = 1..Len(func.pre[b])
            /\ \A k \in DOMAIN func.pre[b] : func.pre[b][k] \in Blocks(func)
  <2>1. /\ func.code \in Seq(Seq(Instructions))
        /\ func.pre \in Seq(Seq(Nat)) /\ Len(func.pre) = Len(func.code)
    BY <1>1 DEF WellFormed, FunctionRecords
  <2>2. Blocks(func) = 1..Len(func.code) /\ Len(func.code) \in Nat
    BY <2>1 DEF Blocks
  <2>3. \A b \in Blocks(func) :
            /\ func.pre[b] \in Seq(Nat)
            /\ ToSet(func.pre[b]) \subseteq Blocks(func)
    BY <1>1, <2>1, <2>2, SMTT(30) DEF WellFormed
  <2>4. ASSUME NEW b \in Blocks(func)
        PROVE  /\ func.pre[b] \in Seq(Blocks(func)) /\ Len(func.pre[b]) \in Nat
               /\ DOMAIN func.pre[b] = 1..Len(func.pre[b])
               /\ \A k \in DOMAIN func.pre[b] : func.pre[b][k] \in Blocks(func)
    <3>1. \A k \in DOMAIN func.pre[b] : func.pre[b][k] \in Blocks(func)
      BY <2>3 DEF ToSet
    <3>2. QED
      BY <2>3, <3>1
  <2>5. QED
    BY <2>2, <2>4
<1>3. \A b \in Blocks(func) : edges[b] \in Seq(S)
  <2>1. ASSUME NEW b \in Blocks(func)
        PROVE  edges[b] \in Seq(S)
    <3>1. \A k \in 1..Len(func.pre[b]) : <<func.pre[b][k], b>> \in S
      BY <1>2
    <3>2. [k \in 1..Len(func.pre[b]) |-> <<func.pre[b][k], b>>] \in Seq(S)
      BY <1>2, <3>1
    <3>3. << >> \in Seq(S)
      OBVIOUS
    <3>4. DOMAIN func.pre[b] = 1..Len(func.pre[b])
      BY <1>2
    <3>5. edges[b] = IF Len(func.pre[b]) >= 2
                     THEN [k \in 1..Len(func.pre[b]) |-> <<func.pre[b][k], b>>]
                     ELSE << >>
      BY <3>4
    <3> HIDE DEF edges, S
    <3>6. QED
      BY <3>2, <3>3, <3>5
  <2>2. QED
    BY <2>1
<1>4. edges \in Seq(Seq(S)) /\ edges # << >> /\ DOMAIN edges = Blocks(func)
  <2>1. edges \in [1..Len(func.code) -> Seq(S)]
    BY <1>2, <1>3
  <2>2. edges \in Seq(Seq(S)) /\ Len(edges) = Len(func.code)
    BY <1>2, <2>1
  <2>3. Len(func.code) # 0
    BY <1>1, <1>2
  <2>4. QED
    BY <2>2, <2>3
<1>5. \A b \in Blocks(func) : \A e :
         e \in ToSet(edges[b]) <=> Len(func.pre[b]) >= 2 /\ \E p \in Pre(func, b) : e = <<p, b>>
  <2>1. ASSUME NEW b \in Blocks(func), NEW e
        PROVE  e \in ToSet(edges[b])
                 <=> Len(func.pre[b]) >= 2 /\ \E p \in Pre(func, b) : e = <<p, b>>
    <3>1. CASE Len(func.pre[b]) >= 2
      <4>1. edges[b] = [k \in DOMAIN func.pre[b] |-> <<func.pre[b][k], b>>]
        BY <3>1
      <4> HIDE DEF edges
      <4>2. ToSet(edges[b]) = {<<func.pre[b][k], b>> : k \in DOMAIN func.pre[b]}
        BY <4>1 DEF ToSet
      <4>3. Pre(func, b) = {func.pre[b][k] : k \in DOMAIN func.pre[b]}
        BY DEF Pre, ToSet
      <4>4. QED
        BY <3>1, <4>2, <4>3
    <3>2. CASE ~(Len(func.pre[b]) >= 2)
      <4>1. edges[b] = << >>
        BY <3>2
      <4> HIDE DEF edges
      <4>2. ToSet(edges[b]) = {}
        BY <4>1 DEF ToSet
      <4>3. QED
        BY <3>2, <4>2
    <3>3. QED
      BY <3>1, <3>2
  <2>2. QED
    BY <2>1
<1>6. Runners = FlattenSeq(edges)
  BY Zenon DEF Runners
<1> HIDE DEF edges, S
<1>7. /\ Runners \in Seq(S)
      /\ \A e : e \in ToSet(Runners) <=> \E b \in Blocks(func) : e \in ToSet(edges[b])
  BY <1>4, <1>6, FlattenIs
<1>8. \A e \in ToSet(Runners) : e[1] \in Pre(func, e[2]) /\ Len(func.pre[e[2]]) >= 2
  BY <1>5, <1>7
<1>9. \A b \in Blocks(func) : Len(func.pre[b]) >= 2 =>
         \A p \in Pre(func, b) : <<p, b>> \in ToSet(Runners)
  BY <1>5, <1>7
<1>10. QED
  BY <1>7, <1>8, <1>9 DEF S

-----------------------------------------------------------------------------
(* The frontiers.                                                          *)

\* The blocks that b must have in its frontier on account of the edge p, y.
Misses(f, p, y, x) ==
    /\ y \in Reachable(f) /\ p \in Pre(f, y) \cap Reachable(f) /\ Len(f.pre[y]) >= 2
    /\ x \in DominatorSets(f)[p] /\ x \notin DominatorSets(f)[y] \ {y}

\* The runner has come from a predecessor of the join, and is not yet above
\* the immediate dominator.
RunnerFits(f, run, jn) ==
    /\ run \in Nodes(f) /\ jn \in Nodes(f) \ {Entry}
    /\ jn \in Reachable(f) /\ run \in Reachable(f) =>
          /\ \E p \in Pre(f, jn) \cap Reachable(f) : run \in DominatorSets(f)[p]
          /\ DominatorSets(f)[jn] \ {jn} \subseteq DominatorSets(f)[run]

\* The unreachable blocks, where a runner ends after one step: what their
\* frontiers hold of such blocks belongs there, and what they miss is still on
\* its way.
DeadFits(f, front, edges, run, jn) ==
    LET live == Reachable(f)
        dead == Blocks(f) \ live
    IN  /\ \A e \in ToSet(edges) : Len(f.pre[e[2]]) >= 2
        /\ run \in dead /\ jn \in dead => jn \in DeadJoins(f, live, run)
        /\ \A x \in dead : front[x] \ live \subseteq DeadJoins(f, live, x)
        /\ \A x \in dead : \A y \in DeadJoins(f, live, x) :
              \/ y \in front[x]
              \/ <<x, y>> \in ToSet(edges)
              \/ jn = y /\ run = x

\* What the frontiers hold belongs there, and what they miss is still on the
\* way of a runner.
FrontierFits(f, front, edges, run, jn) ==
    /\ front \in [Nodes(f) -> SUBSET Blocks(f)]
    /\ edges \in Seq(Blocks(f) \X Blocks(f))
    /\ \A e \in ToSet(edges) : e[1] \in Pre(f, e[2])
    /\ RunnerFits(f, run, jn)
    /\ \A b \in Reachable(f) :
          front[b] \cap Reachable(f) \subseteq FrontierOf(f, DominatorSets(f), b)
    /\ \A p, y, x : Misses(f, p, y, x) =>
          \/ y \in front[x]
          \/ <<p, y>> \in ToSet(edges)
          \/ jn = y /\ run \in Reachable(f) /\ x \in DominatorSets(f)[run]
    /\ DeadFits(f, front, edges, run, jn)

\* The entry dominates every reachable block.
LEMMA EntryDominates ==
    ASSUME NEW f, HasEntry(f), NEW b \in Reachable(f)
    PROVE  Entry \in DominatorSets(f)[b]
<1> DEFINE none == {}
<1>1. none = {} /\ Entry \in Reachable(f)
  BY DominatorsOfLive
<1> HIDE DEF none
<1>2. ReachAvoiding(f, {Entry}, {Entry}) \subseteq none
  <2>1. \A x \in none \cap ReachAvoiding(f, {Entry}, {Entry}) : Succ(f, x) \subseteq none \cup {Entry}
    BY <1>1
  <2>2. QED
    BY <2>1, AroundFacts DEF HasEntry
<1>3. Dominates(f, Entry, b)
  BY <1>1, <1>2 DEF Dominates
<1>4. QED
  BY <1>1, <1>3, DominatorSetsFacts

\* The frontiers when the runners are about to start.
LEMMA FrontierStarts ==
    ASSUME IsGraph(func)
    PROVE  FrontierFits(func, [b \in Nodes(func) |-> {}], Runners, Null, Null)
<1>1. HasEntry(func) /\ Reachable(func) \subseteq Blocks(func)
  BY GraphFacts, DominatorsOfLive
<1>2. Null \notin Blocks(func) /\ Null # Entry
  <2>1. Blocks(func) = 1..Len(func.code) /\ Len(func.code) \in Nat
    BY <1>1, BlocksFacts DEF HasEntry
  <2>2. QED
    BY <2>1 DEF Null, Entry
<1>3. RunnerFits(func, Null, Null)
  BY <1>1, <1>2 DEF RunnerFits, Nodes
<1>4. \A p, y, x : Misses(func, p, y, x) => <<p, y>> \in ToSet(Runners)
  BY <1>1, RunnersAre DEF Misses
<1>5. Reachable(func) \subseteq Nodes(func)
  BY <1>1 DEF Nodes
<1>6. DeadFits(func, [b \in Nodes(func) |-> {}], Runners, Null, Null)
  BY <1>2, RunnersAre DEF DeadFits, DeadJoins, Nodes
<1>7. QED
  BY <1>3, <1>4, <1>5, <1>6, RunnersAre DEF FrontierFits

\* What the proofs about the frontiers use of the immediate dominators.
IdomReady(f, ord, id) == IsGraph(f) /\ OrderFits(f, ord) /\ ImmediateFits(f, id)

\* Reachable blocks, their dominators and immediate dominators are reachable.
LEMMA ReadyFacts ==
    ASSUME NEW f, NEW ord, NEW id, IdomReady(f, ord, id)
    PROVE  /\ HasEntry(f) /\ Null \notin Reachable(f) /\ Entry \in Reachable(f)
           /\ Reachable(f) \subseteq Blocks(f) /\ Null \in Nodes(f)
           /\ \A b \in Reachable(f) : id[b] \in Reachable(f)
           /\ \A b \in Reachable(f) : DominatorSets(f)[b] \subseteq Reachable(f)
           /\ \A b \in Reachable(f) : Entry \in DominatorSets(f)[b]
           /\ \A n \in Nodes(f) : id[n] \in Nodes(f)
<1>1. HasEntry(f)
  BY GraphFacts DEF IdomReady
<1>2. Reachable(f) \subseteq Blocks(f) /\ Entry \in Reachable(f)
  BY <1>1, DominatorsOfLive
<1>3. \A b \in Reachable(f) : DominatorSets(f)[b] \subseteq Reachable(f)
  BY <1>1, DominatorsOfLive
<1>4. Null \notin Blocks(f)
  <2>1. Blocks(f) = 1..Len(f.code) /\ Len(f.code) \in Nat
    BY <1>1, BlocksFacts DEF HasEntry
  <2>2. QED
    BY <2>1 DEF Null
<1>5. \A b \in Reachable(f) : id[b] \in Reachable(f)
  BY <1>2, <1>3 DEF IdomReady, ImmediateFits
<1>6. \A n \in Nodes(f) : id[n] \in Nodes(f)
  BY DEF IdomReady, ImmediateFits
<1>7. QED
  BY <1>1, <1>2, <1>3, <1>4, <1>5, <1>6, EntryDominates DEF Nodes

\* A runner above or at the immediate dominator of the join strictly
\* dominates the join only if it has met it.
LEMMA OnlyTheImmediate ==
    ASSUME NEW f, NEW ord, NEW id, IdomReady(f, ord, id),
           NEW jn \in Reachable(f), jn # Entry, NEW run \in Reachable(f),
           DominatorSets(f)[jn] \ {jn} \subseteq DominatorSets(f)[run],
           run \in DominatorSets(f)[jn] \ {jn}
    PROVE  run = id[jn]
<1>1. /\ id[jn] \in DominatorSets(f)[jn] \ {jn} /\ id[jn] \in Reachable(f)
      /\ DominatorSets(f)[jn] \ {jn} \subseteq DominatorSets(f)[id[jn]]
  BY ReadyFacts DEF IdomReady, ImmediateFits
<1>2. run \in DominatorSets(f)[id[jn]] /\ id[jn] \in DominatorSets(f)[run]
  BY <1>1
<1>3. HasEntry(f) /\ OrderFits(f, ord)
  BY ReadyFacts DEF IdomReady
<1>4. QED
  BY <1>1, <1>2, <1>3, DominanceAntisymmetric

\* When the runner has met the immediate dominator of the join, nothing is
\* left on its way.
LEMMA MetIsSpent ==
    ASSUME NEW f, NEW ord, NEW id, IdomReady(f, ord, id),
           NEW jn \in Reachable(f), jn # Entry, NEW run \in Reachable(f), run = id[jn],
           NEW x \in DominatorSets(f)[run], x \notin DominatorSets(f)[jn] \ {jn}
    PROVE  FALSE
<1>1. /\ HasEntry(f) /\ OrderFits(f, ord)
      /\ run \in DominatorSets(f)[jn] \ {jn}
  BY ReadyFacts DEF IdomReady, ImmediateFits
<1>2. x \in DominatorSets(f)[jn]
  BY <1>1, DominanceTransitive
<1>3. x = jn
  BY <1>2
<1>4. jn \in DominatorSets(f)[run] /\ run \in DominatorSets(f)[jn]
  BY <1>1, <1>3
<1>5. jn = run
  BY <1>1, <1>4, DominanceAntisymmetric
<1>6. QED
  BY <1>1, <1>5

\* An unreachable block is a node of its own and has no immediate dominator.
LEMMA DeadFacts ==
    ASSUME NEW f, NEW ord, NEW id, IdomReady(f, ord, id),
           NEW x \in Blocks(f) \ Reachable(f)
    PROVE  x # Null /\ x \in Nodes(f) /\ id[x] = Null
<1>1. Blocks(f) = 1..Len(f.code) /\ Len(f.code) \in Nat
  BY ReadyFacts, BlocksFacts DEF HasEntry
<1>2. QED
  BY <1>1 DEF IdomReady, ImmediateFits, Null, Nodes

\* The next runner starts in an unreachable block, or elsewhere.
LEMMA DeadAdvances ==
    ASSUME NEW f, NEW ord, NEW id, IdomReady(f, ord, id),
           NEW front, NEW edges, NEW run, NEW jn, DeadFits(f, front, edges, run, jn),
           jn = Null \/ run = id[jn],
           NEW p1, NEW y1, p1 \in Pre(f, y1), y1 \in Blocks(f),
           NEW rest, ToSet(edges) = {<<p1, y1>>} \cup ToSet(rest)
    PROVE  DeadFits(f, front, rest, p1, y1)
<1> DEFINE live == Reachable(f)
           dead == Blocks(f) \ live
<1>1. Len(f.pre[y1]) >= 2 /\ \A e \in ToSet(rest) : Len(f.pre[e[2]]) >= 2
  <2>1. <<p1, y1>> \in ToSet(edges) /\ <<p1, y1>>[2] = y1
    OBVIOUS
  <2>2. QED
    BY <2>1 DEF DeadFits
<1>2. y1 \in dead => y1 \in DeadJoins(f, live, p1)
  BY <1>1 DEF DeadJoins
<1>3. ASSUME NEW x \in dead, NEW y \in DeadJoins(f, live, x)
      PROVE  \/ y \in front[x]
             \/ <<x, y>> \in ToSet(rest)
             \/ y1 = y /\ p1 = x
  <2>1. y \in dead
    BY DEF DeadJoins
  <2>2. ~(jn = y /\ run = x)
    BY <2>1, DeadFacts
  <2>3. y \in front[x] \/ <<x, y>> \in ToSet(edges)
    BY <2>2 DEF DeadFits
  <2>4. QED
    BY <2>3
<1>4. QED
  BY <1>1, <1>2, <1>3 DEF DeadFits

\* The runner steps up from an unreachable block, or elsewhere.
LEMMA DeadMoves ==
    ASSUME NEW f, NEW ord, NEW id, IdomReady(f, ord, id),
           NEW front, front \in [Nodes(f) -> SUBSET Blocks(f)],
           NEW edges, NEW run \in Nodes(f), NEW jn \in Blocks(f),
           DeadFits(f, front, edges, run, jn)
    PROVE  DeadFits(f, [front EXCEPT ![run] = @ \cup {jn}], edges, id[run], jn)
<1> DEFINE live == Reachable(f)
           dead == Blocks(f) \ live
           new == [front EXCEPT ![run] = @ \cup {jn}]
<1>1. /\ \A b \in Nodes(f) : front[b] \subseteq new[b] /\ new[b] \subseteq front[b] \cup {jn}
      /\ \A b \in Nodes(f) : b # run => new[b] = front[b]
      /\ jn \in new[run]
  OBVIOUS
<1> HIDE DEF new
<1>2. id[run] \notin dead
  <2>1. run \in live \/ run = Null \/ run \in dead
    BY DEF Nodes
  <2>2. id[Null] = Null /\ Null \notin dead
    BY DeadFacts DEF IdomReady, ImmediateFits
  <2>3. QED
    BY <2>1, <2>2, ReadyFacts, DeadFacts
<1>3. ASSUME NEW x \in dead
      PROVE  new[x] \ live \subseteq DeadJoins(f, live, x)
  BY <1>1, <1>3, DeadFacts DEF DeadFits
<1>4. ASSUME NEW x \in dead, NEW y \in DeadJoins(f, live, x)
      PROVE  y \in new[x] \/ <<x, y>> \in ToSet(edges)
  BY <1>1, <1>4, DeadFacts DEF DeadFits
<1>5. QED
  BY <1>2, <1>3, <1>4 DEF DeadFits, new

\* The next runner starts.
LEMMA FrontierAdvances ==
    ASSUME NEW f, NEW ord, NEW id, IdomReady(f, ord, id),
           NEW front, NEW edges, NEW run, NEW jn, FrontierFits(f, front, edges, run, jn),
           jn = Null \/ run = id[jn], edges # << >>
    PROVE  FrontierFits(f, front, Tail(edges), Head(edges)[1], Head(edges)[2])
<1> DEFINE live == Reachable(f)
           doms == DominatorSets(f)
           p1 == Head(edges)[1]
           y1 == Head(edges)[2]
<1>1. /\ Head(edges) \in Blocks(f) \X Blocks(f)
      /\ Tail(edges) \in Seq(Blocks(f) \X Blocks(f))
      /\ ToSet(edges) = {Head(edges)} \cup ToSet(Tail(edges))
  <2> DEFINE S == Blocks(f) \X Blocks(f)
  <2>1. edges \in Seq(S)
    BY DEF FrontierFits
  <2> HIDE DEF S
  <2>2. Head(edges) \in S /\ Tail(edges) \in Seq(S) /\ ToSet(edges) = {Head(edges)} \cup ToSet(Tail(edges))
    BY <2>1, HeadTail
  <2>3. QED
    BY <2>2 DEF S
<1>2. p1 \in Blocks(f) /\ y1 \in Blocks(f) /\ Head(edges) = <<p1, y1>>
  BY <1>1
<1>3. p1 \in Pre(f, y1)
  BY <1>1 DEF FrontierFits
<1>4. y1 # Entry /\ y1 \in Succ(f, p1)
  BY <1>2, <1>3, GraphFacts DEF IdomReady
<1>5. /\ HasEntry(f) /\ Null \notin live
      /\ \A b \in live : b \in doms[b]
  BY ReadyFacts, DominatorsOfLive
<1>6. RunnerFits(f, p1, y1)
  <2>1. ASSUME y1 \in live, p1 \in live
        PROVE  /\ \E p \in Pre(f, y1) \cap live : p1 \in doms[p]
               /\ doms[y1] \ {y1} \subseteq doms[p1]
    BY <1>3, <1>4, <1>5, <2>1, DominatorsThroughEdge
  <2>2. QED
    BY <1>2, <1>4, <2>1 DEF RunnerFits, Nodes
<1>7. ASSUME NEW p, NEW y, NEW x, Misses(f, p, y, x)
      PROVE  \/ y \in front[x]
             \/ <<p, y>> \in ToSet(Tail(edges))
             \/ y1 = y /\ p1 \in live /\ x \in doms[p1]
  <2>1. /\ y \in live /\ p \in live /\ x \in doms[p] /\ x \notin doms[y] \ {y}
    BY <1>7 DEF Misses
  <2>2. CASE <<p, y>> \in ToSet(edges)
    <3>1. <<p, y>> = <<p1, y1>> \/ <<p, y>> \in ToSet(Tail(edges))
      BY <1>1, <1>2, <2>2
    <3>2. QED
      BY <2>1, <3>1
  <2>3. CASE jn = y /\ run \in live /\ x \in doms[run]
    <3>1. run = id[jn] /\ jn # Entry
      BY <1>5, <2>1, <2>3 DEF FrontierFits, RunnerFits
    <3>2. FALSE
      BY <2>1, <2>3, <3>1, MetIsSpent
    <3>3. QED
      BY <3>2
  <2>4. QED
    BY <1>7, <2>2, <2>3 DEF FrontierFits
<1>8. \A e \in ToSet(Tail(edges)) : e[1] \in Pre(f, e[2])
  BY <1>1 DEF FrontierFits
<1>9. DeadFits(f, front, Tail(edges), p1, y1)
  BY <1>1, <1>2, <1>3, DeadAdvances DEF FrontierFits
<1>10. QED
  BY <1>1, <1>6, <1>7, <1>8, <1>9 DEF FrontierFits

\* The runner steps up: its frontier gets the join, which belongs there.
LEMMA FrontierMoves ==
    ASSUME NEW f, NEW ord, NEW id, IdomReady(f, ord, id),
           NEW front, NEW edges, NEW run, NEW jn, FrontierFits(f, front, edges, run, jn),
           jn # Null, run # id[jn]
    PROVE  FrontierFits(f, [front EXCEPT ![run] = @ \cup {jn}], edges, id[run], jn)
<1> DEFINE live == Reachable(f)
           doms == DominatorSets(f)
           new == [front EXCEPT ![run] = @ \cup {jn}]
<1>1. /\ run \in Nodes(f) /\ jn \in Blocks(f) /\ jn # Entry
      /\ front \in [Nodes(f) -> SUBSET Blocks(f)]
  BY DEF FrontierFits, RunnerFits, Nodes
<1>2. /\ HasEntry(f) /\ Null \notin live /\ live \subseteq Nodes(f)
      /\ \A b \in live : b \in doms[b] /\ doms[b] \subseteq live /\ Entry \in doms[b]
      /\ \A b \in live : id[b] \in live
  BY ReadyFacts, DominatorsOfLive DEF Nodes
<1>3. /\ new \in [Nodes(f) -> SUBSET Blocks(f)]
      /\ \A b \in Nodes(f) : front[b] \subseteq new[b] /\ new[b] \subseteq front[b] \cup {jn}
      /\ \A b \in Nodes(f) : b # run => new[b] = front[b]
      /\ jn \in new[run]
  BY <1>1
<1> HIDE DEF new
<1>4. ASSUME jn \in live, run \in live
      PROVE  /\ \E p \in Pre(f, jn) \cap live : run \in doms[p]
             /\ doms[jn] \ {jn} \subseteq doms[run]
             /\ run \notin doms[jn] \ {jn}
             /\ run # Entry
             /\ id[run] \in doms[run] \ {run} /\ doms[run] \ {run} \subseteq doms[id[run]]
  <2>1. /\ \E p \in Pre(f, jn) \cap live : run \in doms[p]
        /\ doms[jn] \ {jn} \subseteq doms[run]
    BY <1>4 DEF FrontierFits, RunnerFits
  <2>2. run \notin doms[jn] \ {jn}
    BY <1>1, <1>4, <2>1, OnlyTheImmediate
  <2>3. run # Entry
    BY <1>1, <1>2, <1>4, <2>2
  <2>4. id[run] \in doms[run] \ {run} /\ doms[run] \ {run} \subseteq doms[id[run]]
    BY <1>4, <2>3 DEF IdomReady, ImmediateFits
  <2>5. QED
    BY <2>1, <2>2, <2>3, <2>4
<1>5. RunnerFits(f, id[run], jn)
  <2>1. id[run] \in Nodes(f) /\ jn \in Nodes(f) \ {Entry}
    BY <1>1, ReadyFacts DEF Nodes
  <2>2. ASSUME jn \in live, id[run] \in live
        PROVE  /\ \E p \in Pre(f, jn) \cap live : id[run] \in doms[p]
               /\ doms[jn] \ {jn} \subseteq doms[id[run]]
    <3>1. run \in live
      <4>1. \A n \in Nodes(f) \ live : id[n] = Null
        BY DEF IdomReady, ImmediateFits, Nodes
      <4>2. QED
        BY <1>1, <1>2, <2>2, <4>1
    <3>2. PICK p \in Pre(f, jn) \cap live : run \in doms[p]
      BY <1>4, <2>2, <3>1
    <3>3. doms[run] \subseteq doms[p]
      BY <1>2, <3>2, DominanceTransitive
    <3>4. id[run] \in doms[p]
      BY <1>4, <2>2, <3>1, <3>3
    <3>5. doms[jn] \ {jn} \subseteq doms[id[run]]
      BY <1>4, <2>2, <3>1
    <3>6. QED
      BY <3>2, <3>4, <3>5
  <2>3. QED
    BY <2>1, <2>2 DEF RunnerFits
<1>6. ASSUME NEW b \in live
      PROVE  new[b] \cap live \subseteq FrontierOf(f, doms, b)
  <2>1. front[b] \cap live \subseteq FrontierOf(f, doms, b)
    BY DEF FrontierFits
  <2>2. ASSUME b = run, jn \in live
        PROVE  jn \in FrontierOf(f, doms, b)
    <3>1. DOMAIN doms = live
      BY DominatorSetsFacts
    <3>2. QED
      BY <1>4, <1>6, <2>2, <3>1 DEF FrontierOf
  <2>3. QED
    BY <1>2, <1>3, <2>1, <2>2
<1>7. ASSUME NEW p, NEW y, NEW x, Misses(f, p, y, x)
      PROVE  \/ y \in new[x]
             \/ <<p, y>> \in ToSet(edges)
             \/ jn = y /\ id[run] \in live /\ x \in doms[id[run]]
  <2>1. y \in live /\ p \in live /\ x \in doms[p] /\ x \in live
    BY <1>2, <1>7 DEF Misses
  <2>2. CASE jn = y /\ run \in live /\ x \in doms[run]
    <3>1. CASE x = run
      BY <1>3, <2>2, <3>1
    <3>2. CASE x # run
      BY <1>2, <1>4, <2>1, <2>2, <3>2
    <3>3. QED
      BY <3>1, <3>2
  <2>3. QED
    BY <1>2, <1>3, <1>7, <2>1, <2>2 DEF FrontierFits
<1>8. DeadFits(f, new, edges, id[run], jn)
  BY <1>1, DeadMoves DEF FrontierFits, new
<1>9. QED
  BY <1>3, <1>5, <1>6, <1>7, <1>8 DEF FrontierFits, new

\* The finished frontiers, among reachable blocks.
FrontierDone(f, front) ==
    /\ front \in [Nodes(f) -> SUBSET Blocks(f)]
    /\ \A b \in Reachable(f) :
          front[b] \cap Reachable(f) = FrontierOf(f, DominatorSets(f), b)
    /\ \A b \in Blocks(f) \ Reachable(f) :
          front[b] \ Reachable(f) = DeadJoins(f, Reachable(f), b)

\* No runner is left: a block with one predecessor is in no frontier.
LEMMA FrontierEnds ==
    ASSUME NEW f, NEW ord, NEW id, IdomReady(f, ord, id),
           NEW front, NEW run, NEW jn, NEW edges, FrontierFits(f, front, edges, run, jn),
           jn = Null \/ run = id[jn], edges = << >>
    PROVE  FrontierDone(f, front)
<1> DEFINE live == Reachable(f)
           doms == DominatorSets(f)
<1>1. /\ HasEntry(f) /\ Null \notin live /\ live \subseteq Blocks(f)
      /\ OrderFits(f, ord) /\ IsGraph(f) /\ jn # Entry
  BY ReadyFacts DEF IdomReady, FrontierFits, RunnerFits
<1>2. ToSet(edges) = {}
  BY DEF ToSet
<1>3. ASSUME NEW p, NEW y, NEW x, Misses(f, p, y, x)
      PROVE  y \in front[x]
  <2>1. y \in live /\ p \in live /\ x \in doms[p] /\ x \notin doms[y] \ {y}
    BY <1>3 DEF Misses
  <2>2. CASE jn = y /\ run \in live /\ x \in doms[run]
    <3>1. run = id[jn]
      BY <1>1, <2>1, <2>2
    <3>2. FALSE
      BY <1>1, <2>1, <2>2, <3>1, MetIsSpent
    <3>3. QED
      BY <3>2
  <2>3. QED
    BY <1>2, <1>3, <2>2 DEF FrontierFits
<1>4. ASSUME NEW x \in live, NEW y \in FrontierOf(f, doms, x)
      PROVE  y \in front[x]
  <2>1. /\ y \in live
        /\ \E p \in Pre(f, y) \cap live : x \in doms[p]
        /\ x \notin doms[y] \ {y}
    BY DominatorSetsFacts DEF FrontierOf
  <2>2. PICK p \in Pre(f, y) \cap live : x \in doms[p]
    BY <2>1
  <2>3. Len(f.pre[y]) >= 2
    <3>1. y \in Blocks(f) /\ y # Entry
      BY <1>1, <2>1, <2>2, GraphFacts
    <3>2. PICK q \in live : y \in Succ(f, q) /\ Position(ord, y) < Position(ord, q)
      BY <1>1, <2>1, <3>1, PredecessorBehind
    <3>3. q \in Pre(f, y) /\ p \in Pre(f, y)
      BY <1>1, <2>2, <3>1, <3>2, GraphFacts
    <3>4. f.pre[y] \in Seq(Nat)
      <4>1. f.pre \in Seq(Seq(Nat)) /\ y \in DOMAIN f.pre
        BY <1>1, <3>1 DEF HasEntry, WellFormed, FunctionRecords, Blocks
      <4>2. QED
        BY <4>1
    <3>5. ASSUME ~(Len(f.pre[y]) >= 2)
          PROVE  \A r \in Pre(f, y) : r = p
      <4>1. DOMAIN f.pre[y] = 1..Len(f.pre[y]) /\ Len(f.pre[y]) \in Nat
        BY <3>4
      <4>2. \A j, k \in DOMAIN f.pre[y] : j = k
        BY <3>5, <4>1
      <4>3. QED
        BY <3>3, <4>2 DEF Pre, ToSet
    <3>6. ASSUME ~(Len(f.pre[y]) >= 2)
          PROVE  FALSE
      <4>1. q = p /\ \A r \in live : y \in Succ(f, r) => r = p
        <5>1. \A r \in live : y \in Succ(f, r) => r \in Pre(f, y)
          BY <1>1, <3>1, GraphFacts
        <5>2. QED
          BY <3>3, <3>5, <3>6, <5>1
      <4>2. x \in live
        BY <1>4
      <4>3. x \in doms[y]
        BY <1>1, <2>1, <2>2, <3>1, <4>1, <4>2, DominatorsFromPredecessors
      <4>4. x = y
        BY <2>1, <4>3
      <4>5. Position(ord, y) \in Nat /\ Position(ord, p) \in Nat /\ Position(ord, y) < Position(ord, p)
        BY <1>1, <2>1, <2>2, <3>2, <4>1, PositionFacts
      <4>6. y # p
        BY <4>5
      <4>7. Position(ord, p) < Position(ord, y)
        BY <1>1, <2>2, <4>4, <4>6, DominatorsBehind
      <4>8. QED
        BY <4>5, <4>7
    <3>7. QED
      BY <3>6
  <2>4. Misses(f, p, y, x)
    BY <2>1, <2>2, <2>3 DEF Misses
  <2>5. QED
    BY <1>3, <2>4
<1>5. \A x \in live : FrontierOf(f, doms, x) \subseteq live
  BY DominatorSetsFacts DEF FrontierOf
<1>6. ASSUME NEW b \in Blocks(f) \ live
      PROVE  front[b] \ live = DeadJoins(f, live, b)
  <2>1. ASSUME NEW y \in DeadJoins(f, live, b)
        PROVE  y \in front[b] \ live
    <3>1. y \in Blocks(f) \ live
      BY DEF DeadJoins
    <3>2. ~(jn = y /\ run = b)
      BY <3>1, DeadFacts
    <3>3. QED
      BY <1>2, <3>1, <3>2 DEF FrontierFits, DeadFits
  <2>2. QED
    BY <2>1 DEF FrontierFits, DeadFits
<1>7. QED
  BY <1>4, <1>5, <1>6 DEF FrontierDone, FrontierFits

-----------------------------------------------------------------------------
(* The tree.                                                               *)

\* Each block below its immediate dominator.
TreeOf(f, id) == [b \in Nodes(f) |-> {c \in Blocks(f) : id[c] = b /\ b # c}]

\* The blocks below a reachable block are those it dominates immediately, and
\* every reachable block but the entry is below one.
LEMMA TreeFits ==
    ASSUME NEW f, NEW ord, NEW id, IdomReady(f, ord, id)
    PROVE  /\ \A b \in Reachable(f) : TreeOf(f, id)[b] = ChildrenOf(DominatorSets(f), b)
           /\ UNION {TreeOf(f, id)[b] : b \in Reachable(f)} = Reachable(f) \ {Entry}
<1> DEFINE live == Reachable(f)
           doms == DominatorSets(f)
           below == TreeOf(f, id)
<1>1. /\ HasEntry(f) /\ OrderFits(f, ord) /\ Null \notin live /\ live \subseteq Blocks(f)
      /\ DOMAIN doms = live
      /\ \A b \in live : id[b] \in live /\ b \in doms[b] /\ doms[b] \subseteq live
  BY ReadyFacts, DominatorsOfLive, DominatorSetsFacts DEF IdomReady
<1>2. /\ id[Entry] = Entry /\ doms[Entry] = {Entry}
      /\ \A c \in live \ {Entry} : /\ id[c] \in doms[c] \ {c}
                                   /\ doms[c] \ {c} \subseteq doms[id[c]]
      /\ \A c \in Blocks(f) \ live : id[c] = Null
  BY <1>1, DominatorsOfLive DEF IdomReady, ImmediateFits
<1>3. \A b \in live : below[b] = {c \in Blocks(f) : id[c] = b /\ b # c}
  BY <1>1 DEF TreeOf, Nodes
<1> HIDE DEF below, doms
<1>4. \A b \in live : below[b] = {c \in live \ {Entry} : id[c] = b}
  BY <1>1, <1>2, <1>3
<1>5. ASSUME NEW b \in live, NEW c \in live
      PROVE  c \in below[b] <=> c \in ChildrenOf(doms, b)
  <2>1. ASSUME c # Entry, id[c] = b
        PROVE  c \in ChildrenOf(doms, b)
    BY <1>1, <1>2, <2>1 DEF ChildrenOf
  <2>2. ASSUME c \in ChildrenOf(doms, b)
        PROVE  c # Entry /\ id[c] = b
    <3>1. b \in doms[c] \ {c} /\ doms[c] \ {c} \subseteq doms[b]
      BY <2>2 DEF ChildrenOf
    <3>2. c # Entry
      BY <1>2, <3>1
    <3>3. b \in doms[id[c]] /\ id[c] \in doms[b]
      BY <1>2, <3>1, <3>2
    <3>4. id[c] = b
      BY <1>1, <3>3, DominanceAntisymmetric DEF doms
    <3>5. QED
      BY <3>2, <3>4
  <2>3. QED
    BY <1>4, <2>1, <2>2
<1>6. \A b \in live : below[b] = ChildrenOf(doms, b)
  BY <1>1, <1>4, <1>5 DEF ChildrenOf
<1>7. UNION {below[b] : b \in live} = live \ {Entry}
  BY <1>1, <1>4
<1>8. QED
  BY <1>6, <1>7 DEF below, doms

-----------------------------------------------------------------------------
(* The steps of the pass.                                                  *)

\* The innermost call looks at its next successor, and calls itself on it if
\* that was not visited.
LEMMA WalkLooks ==
    ASSUME NEW f, HasEntry(f), NEW v, NEW seen, NEW ord, WalkFits(f, v, seen, ord), v # << >>,
           NEW bb, bb = Last(v)[1], NEW k, k = Last(v)[2] + 1, k <= Len(f.succ[bb]),
           NEW b, b = f.succ[bb][k]
    PROVE  LET stepped == Append(Front(v), <<bb, k>>)
           IN  /\ b \in seen => stepped # << >> /\ WalkFits(f, stepped, seen, ord)
               /\ b \notin seen => /\ Append(stepped, <<b, 0>>) # << >>
                                   /\ WalkFits(f, Append(stepped, <<b, 0>>), seen \cup {b}, ord)
<1> DEFINE C == Blocks(f) \X Nat
           front == Front(v)
           stepped == Append(front, <<bb, k>>)
<1>1. v \in Seq(C) /\ WellFormed(f)
  BY DEF WalkFits, CallsFit, HasEntry
<1>2. front \in Seq(C) /\ Last(v) \in C /\ IsAppend(v, front, Last(v))
  <2> HIDE DEF C
  <2>1. QED
    BY <1>1, FrontLast
<1>3. bb \in Blocks(f) /\ k \in Nat /\ Last(v) = <<bb, Last(v)[2]>> /\ Last(v)[2] \in Nat
  BY <1>2
<1>4. stepped \in Seq(C) /\ IsAppend(stepped, front, <<bb, k>>)
  <2>1. <<bb, k>> \in C
    BY <1>3
  <2> HIDE DEF C, front
  <2>2. QED
    BY <1>2, <2>1, AppendIs DEF front
<1> HIDE DEF stepped, front
<1>5. /\ Len(front) \in Nat /\ Len(v) = Len(front) + 1 /\ Len(stepped) = Len(front) + 1
      /\ DOMAIN v = 1..(Len(front) + 1)
      /\ \A j \in 1..Len(front) : v[j] = front[j] /\ stepped[j] = front[j]
      /\ v[Len(front) + 1] = Last(v) /\ stepped[Len(front) + 1] = <<bb, k>>
      /\ \A j \in 1..(Len(front) + 1) : j \in 1..Len(front) \/ j = Len(front) + 1
  BY <1>2, <1>4 DEF IsAppend
<1>6. /\ k - 1 = Last(v)[2] /\ CallFits(f, seen, Last(v))
      /\ \A j \in 1..Len(front) : CallFits(f, seen, front[j])
  <2>1. \A j \in DOMAIN v : CallFits(f, seen, v[j])
    BY DEF WalkFits, CallsFit
  <2>2. \A j \in 1..Len(front) : j \in DOMAIN v
    BY <1>5
  <2>3. Len(front) + 1 \in DOMAIN v
    BY <1>5
  <2>4. CallFits(f, seen, Last(v))
    BY <1>5, <2>1, <2>3
  <2>5. QED
    BY <1>3, <1>5, <2>1, <2>2, <2>4
<1>7. ASSUME NEW more, seen \subseteq more, b \in more
      PROVE  CallFits(f, more, <<bb, k>>)
  <2>1. \A j \in 1..k : j \in 1..(k - 1) \/ j = k
    BY <1>3
  <2>2. \A j \in 1..(k - 1) : f.succ[bb][j] \in seen
    BY <1>3, <1>6 DEF CallFits
  <2>3. QED
    BY <1>7, <2>1, <2>2 DEF CallFits
<1>8. /\ stepped # << >>
      /\ \A j \in 1..Len(v) : stepped[j][1] = v[j][1]
  <2>1. stepped # << >>
    BY <1>4 DEF IsAppend
  <2>2. stepped[Len(front) + 1][1] = v[Len(front) + 1][1]
    BY <1>5
  <2>3. ASSUME NEW j \in 1..Len(v)
        PROVE  stepped[j][1] = v[j][1]
    <3>1. j \in 1..Len(front) \/ j = Len(front) + 1
      BY <1>5
    <3>2. QED
      BY <1>5, <2>2, <3>1
  <2>4. QED
    BY <2>1, <2>3
<1>9. ASSUME b \in seen
      PROVE  stepped # << >> /\ WalkFits(f, stepped, seen, ord)
  <2>1. \A j \in 1..Len(v) : CallFits(f, seen, stepped[j])
    BY <1>5, <1>6, <1>7, <1>9
  <2>2. QED
    BY <1>4, <1>5, <1>8, <2>1, WalkCounts
<1>10. ASSUME b \notin seen
       PROVE  /\ Append(stepped, <<b, 0>>) # << >>
              /\ WalkFits(f, Append(stepped, <<b, 0>>), seen \cup {b}, ord)
  <2> DEFINE pushed == Append(v, <<b, 0>>)
             w == Append(stepped, <<b, 0>>)
             more == seen \cup {b}
  <2>1. b \in Succ(f, bb)
    <3>1. DOMAIN f.succ[bb] = 1..Len(f.succ[bb]) /\ Len(f.succ[bb]) \in Nat
      <4>1. bb \in DOMAIN f.succ /\ f.succ \in Seq(Seq(Nat))
        <5>1. f.succ \in Seq(Seq(Nat))
          BY <1>1 DEF WellFormed, FunctionRecords
        <5>2. bb \in 1..Len(f.succ)
          BY <1>1, <1>3, BlocksFacts
        <5>3. QED
          BY <5>1, <5>2
      <4>2. QED
        BY <4>1
    <3>2. k \in DOMAIN f.succ[bb]
      BY <1>3, <3>1
    <3>3. QED
      BY <3>2 DEF Succ, ToSet
  <2>2. b \in Blocks(f) /\ WalkFits(f, pushed, more, ord)
    BY <1>10, <2>1, WalkPushed
  <2>3. <<b, 0>> \in C
    BY <2>2
  <2>4. /\ IsAppend(pushed, v, <<b, 0>>)
        /\ w \in Seq(C) /\ IsAppend(w, stepped, <<b, 0>>)
    <3> HIDE DEF C
    <3>1. QED
      BY <1>1, <1>4, <2>3, AppendIs
  <2> HIDE DEF pushed, w, more
  <2>5. /\ Len(w) = Len(v) + 1 /\ Len(pushed) = Len(v) + 1 /\ Len(v) \in Nat
        /\ \A j \in 1..Len(v) : w[j] = stepped[j] /\ pushed[j] = v[j]
        /\ w[Len(v) + 1] = <<b, 0>> /\ pushed[Len(v) + 1] = <<b, 0>>
        /\ DOMAIN pushed = 1..(Len(v) + 1)
        /\ \A j \in 1..(Len(v) + 1) : j \in 1..Len(v) \/ j = Len(v) + 1
    BY <1>5, <2>4, SMTT(30) DEF IsAppend
  <2>6. \A j \in DOMAIN pushed : CallFits(f, more, pushed[j])
    BY <2>2 DEF WalkFits, CallsFit
  <2>7. Len(v) + 1 \in DOMAIN pushed /\ \A j \in 1..Len(v) : j \in DOMAIN pushed
    BY <2>5
  <2>8. CallFits(f, more, <<bb, k>>)
    BY <1>7 DEF more
  <2>9. \A j \in 1..Len(v) : CallFits(f, more, stepped[j])
    <3>1. \A j \in 1..Len(front) : CallFits(f, more, front[j])
      <4>1. \A j \in 1..Len(front) : j \in 1..Len(v)
        BY <1>5
      <4>2. QED
        BY <1>5, <2>5, <2>6, <2>7, <4>1
    <3>2. QED
      BY <1>5, <2>8, <3>1
  <2>10. \A j \in 1..Len(pushed) : w[j][1] = pushed[j][1] /\ CallFits(f, more, w[j])
    BY <1>8, <2>5, <2>6, <2>7, <2>9, SMTT(30)
  <2>11. WalkFits(f, w, more, ord)
    BY <2>2, <2>4, <2>5, <2>10, WalkCounts DEF C
  <2>12. QED
    BY <2>4, <2>11 DEF IsAppend, w, more
<1>11. QED
  BY <1>9, <1>10 DEF stepped, front

\* The first round of create_idom: only the entry has an immediate dominator.
LEMMA RoundStarts ==
    ASSUME NEW f, HasEntry(f), NEW ord, OrderFits(f, ord),
           NEW id, id = [[b \in Nodes(f) |-> Null] EXCEPT ![Entry] = Entry]
    PROVE  RoundFits(f, ord, id, Len(ord), FALSE)
<1>1. /\ Entry \in Blocks(f) /\ Entry \in Nodes(f) /\ Null \in Nodes(f) /\ Entry # Null
      /\ Entry \in Reachable(f)
  <2>1. Entry # Null
    BY DEF Entry, Null
  <2>2. QED
    BY <2>1, DominatorsOfLive DEF HasEntry, Nodes
<1>2. /\ id \in [Nodes(f) -> Nodes(f)]
      /\ id[Entry] = Entry /\ \A b \in Nodes(f) \ {Entry} : id[b] = Null
  BY <1>1
<1>3. WithIdom(f, id) = {Entry}
  BY <1>1, <1>2 DEF WithIdom, Nodes
<1>4. IdomFits(f, ord, id)
  BY <1>1, <1>2, <1>3 DEF IdomFits
<1>5. Len(ord) \in 0..Len(ord) /\ \A j \in DOMAIN ord : ~(Len(ord) < j)
  BY PositionFacts
<1>6. QED
  BY <1>4, <1>5 DEF RoundFits

\* A later round starts with what the one before has found.
LEMMA RoundAgain ==
    ASSUME NEW f, NEW ord, OrderFits(f, ord), NEW id, NEW k, NEW change, RoundFits(f, ord, id, k, change)
    PROVE  RoundFits(f, ord, id, Len(ord), FALSE)
<1>1. Len(ord) \in 0..Len(ord) /\ \A j \in DOMAIN ord : ~(Len(ord) < j)
  BY PositionFacts
<1>2. QED
  BY <1>1 DEF RoundFits

-----------------------------------------------------------------------------
(* The invariant: what each phase of the pass has done, and the values that *)
(* the phases behind it still have.                                         *)

Nothing(f) == [b \in Nodes(f) |-> {}]

\* The walk is over.
Numbered == visit = << >> /\ visited = ToSet(order) /\ OrderFits(func, order)

NoRunnerYet == todo = << >> /\ runner = Null /\ join = Null /\ frontier = Nothing(func)

Walking ==
    /\ pc = "dfs"
    /\ visit # << >> /\ WalkFits(func, visit, visited, order)
    /\ idom = [b \in Nodes(func) |-> Null]
    /\ changed = FALSE /\ at = 0
    /\ NoRunnerYet /\ tree = Nothing(func)

Iterating ==
    /\ pc = "idom"
    /\ Numbered
    /\ changed \in BOOLEAN /\ RoundFits(func, order, idom, at, changed)
    /\ NoRunnerYet /\ tree = Nothing(func)

IdomDone == Numbered /\ changed = FALSE /\ at = 0 /\ ImmediateFits(func, idom)

Bordering ==
    /\ pc = "frontier"
    /\ IdomDone
    /\ FrontierFits(func, frontier, todo, runner, join)
    /\ tree = Nothing(func)

BordersDone ==
    /\ IdomDone
    /\ RunnerFits(func, runner, join)
    /\ FrontierDone(func, frontier)

Hanging == pc = "tree" /\ BordersDone /\ tree = Nothing(func)
Hung == pc = "done" /\ BordersDone /\ tree = TreeOf(func, idom)

DInv ==
    /\ aborted = FALSE
    /\ \/ InitPass
       \/ IsGraph(func) /\ (Walking \/ Iterating \/ Bordering \/ Hanging \/ Hung)

\* run(): the walk starts at the entry.
LEMMA RunKeeps ==
    ASSUME Consistent(func), DInv, Run
    PROVE  DInv'
<1>1. InitPass
  BY DEF DInv, Run, Walking, Iterating, Bordering, Hanging, Hung, InitPass
<1>2. Entry \in Blocks(func)
  <2>1. Blocks(func) = 1..Len(func.code) /\ Len(func.code) \in Nat
    BY BlocksFacts DEF Consistent
  <2>2. QED
    BY <2>1 DEF Run, Entry
<1>3. IsGraph(func)
  BY <1>2 DEF IsGraph
<1>4. WalkFits(func, <<<<Entry, 0>>>>, {Entry}, << >>)
  BY <1>3, GraphFacts, WalkStarts
<1>5. visit' # << >>
  BY DEF Run
<1>6. Node = Nodes(func)
  BY DEF Node, Nodes
<1>7. Walking'
  BY <1>1, <1>4, <1>5, <1>6 DEF Walking, NoRunnerYet, Nothing, Run, InitPass
<1>8. QED
  BY <1>1, <1>3, <1>7 DEF DInv, Run

\* The innermost call looks at a successor.
LEMMA VisitSuccKeeps ==
    ASSUME DInv, VisitSucc
    PROVE  DInv'
<1>1. IsGraph(func) /\ Walking
  BY DEF DInv, VisitSucc, InitPass, Iterating, Bordering, Hanging, Hung
<1>2. HasEntry(func)
  BY <1>1, GraphFacts
<1>3. WalkFits(func, visit, visited, order) /\ visit # << >>
  BY <1>1 DEF Walking
<1>4. visit' # << >> /\ WalkFits(func, visit', visited', order)
  <2> DEFINE bb == Last(visit)[1]
             k == Last(visit)[2] + 1
             b == func.succ[bb][k]
             stepped == Append(Front(visit), <<bb, k>>)
  <2>1. /\ k <= Len(func.succ[bb])
        /\ IF b \in visited
           THEN visit' = stepped /\ visited' = visited
           ELSE visit' = Append(stepped, <<b, 0>>) /\ visited' = visited \cup {b}
    BY DEF VisitSucc
  <2>2. /\ b \in visited => stepped # << >> /\ WalkFits(func, stepped, visited, order)
        /\ b \notin visited => /\ Append(stepped, <<b, 0>>) # << >>
                               /\ WalkFits(func, Append(stepped, <<b, 0>>), visited \cup {b}, order)
    BY <1>2, <1>3, <2>1, WalkLooks, ZenonT(30)
  <2> HIDE DEF stepped, b, k, bb
  <2>3. QED
    BY <2>1, <2>2
<1>5. Walking'
  BY <1>1, <1>4 DEF Walking, NoRunnerYet, VisitSucc
<1>6. QED
  BY <1>1, <1>5 DEF DInv, VisitSucc

\* A call ends; after the outermost one the iteration begins.
LEMMA NumberBlockKeeps ==
    ASSUME DInv, NumberBlock
    PROVE  DInv'
<1>1. IsGraph(func) /\ Walking
  BY DEF DInv, NumberBlock, InitPass, Iterating, Bordering, Hanging, Hung
<1>2. HasEntry(func)
  BY <1>1, GraphFacts
<1>3. WalkFits(func, visit, visited, order) /\ visit # << >>
  BY <1>1 DEF Walking
<1>4. /\ order' = Append(order, Last(visit)[1]) /\ visit' = Front(visit) /\ visited' = visited
      /\ func' = func
  BY DEF NumberBlock
<1>5. Last(visit)[1] \in Blocks(func) /\ WalkFits(func, visit', visited, order')
  <2>1. Last(visit)[2] = Len(func.succ[Last(visit)[1]])
    BY DEF NumberBlock
  <2>2. QED
    BY <1>2, <1>3, <1>4, <2>1, WalkPopped
<1>6. IsAppend(visit, visit', Last(visit)) /\ IsAppend(order', order, Last(visit)[1])
  <2>1. order \in Seq(Blocks(func))
    BY <1>3 DEF WalkFits
  <2>2. IsAppend(order', order, Last(visit)[1])
    BY <1>4, <1>5, <2>1, AppendIs
  <2> DEFINE C == Blocks(func) \X Nat
  <2>3. visit \in Seq(C)
    BY <1>3 DEF WalkFits, CallsFit
  <2> HIDE DEF C
  <2>4. IsAppend(visit, visit', Last(visit))
    BY <1>3, <1>4, <2>3, FrontLast
  <2>5. QED
    BY <2>2, <2>4
<1>7. CASE Len(visit) > 1
  <2>1. visit' # << >>
    <3>1. Len(visit) = Len(visit') + 1
      BY <1>6 DEF IsAppend
    <3>2. QED
      BY <1>7, <3>1
  <2>2. Walking'
    BY <1>1, <1>4, <1>5, <1>7, <2>1 DEF Walking, NoRunnerYet, NumberBlock
  <2>3. QED
    BY <1>1, <2>2 DEF DInv, NumberBlock
<1>8. CASE ~(Len(visit) > 1)
  <2>1. Len(visit') = 0 /\ DOMAIN visit = 1..1 /\ Last(visit) = visit[1]
    BY <1>6, <1>8 DEF IsAppend
  <2>2. visit' = << >>
    <3>1. visit' \in Seq(Blocks(func) \X Nat)
      BY <1>5 DEF WalkFits, CallsFit
    <3>2. QED
      BY <2>1, <3>1, EmptySeq
  <2>3. Last(visit)[1] = Entry
    <3>1. 1 \in DOMAIN visit
      BY <2>1
    <3>2. visit[1][1] = Entry
      BY <1>3, <3>1 DEF WalkFits, CallsFit
    <3>3. QED
      BY <2>1, <3>2
  <2>4. order' # << >> /\ Last(order') = Entry
    BY <1>6, <2>3 DEF IsAppend
  <2>5. OrderFits(func, order') /\ visited = ToSet(order')
    BY <1>2, <1>5, <2>2, <2>4, WalkEnds
  <2>6. /\ pc' = "idom" /\ idom' = [idom EXCEPT ![Entry] = Entry]
        /\ changed' = FALSE /\ at' = Len(order')
    BY <1>8 DEF NumberBlock
  <2>7. idom' = [[b \in Nodes(func) |-> Null] EXCEPT ![Entry] = Entry]
    BY <1>1, <2>6 DEF Walking
  <2>8. RoundFits(func, order', idom', at', changed')
    BY <1>2, <2>5, <2>6, <2>7, RoundStarts
  <2>9. Iterating'
    BY <1>1, <1>4, <2>2, <2>5, <2>6, <2>8 DEF Iterating, Numbered, Walking, NoRunnerYet, NumberBlock
  <2>10. QED
    BY <1>1, <2>9 DEF DInv, NumberBlock
<1>9. QED
  BY <1>7, <1>8

\* One block of the iteration: its assertion holds.
LEMMA IterateIdomKeeps ==
    ASSUME DInv, IterateIdom
    PROVE  DInv'
<1>1. IsGraph(func) /\ Iterating
  BY DEF DInv, IterateIdom, InitPass, Walking, Bordering, Hanging, Hung
<1> DEFINE bb == order[at]
           new == Suggested(bb)
<1>2. /\ new # Null
      /\ RoundFits(func, order, [idom EXCEPT ![bb] = new], at - 1, changed \/ new # idom[bb])
  <2>1. OrderFits(func, order) /\ RoundFits(func, order, idom, at, changed) /\ at > 0
    BY <1>1 DEF Iterating, Numbered, IterateIdom
  <2>2. QED
    BY <1>1, <2>1, IterateKeeps
<1>3. /\ aborted' = (new = Null)
      /\ idom' = [idom EXCEPT ![bb] = new]
      /\ changed' = (changed \/ new # idom[bb])
      /\ at' = at - 1
      /\ UNCHANGED <<func, pc, visit, visited, order, todo, runner, join, frontier, tree>>
  BY DEF IterateIdom, Suggested
<1> HIDE DEF new, bb
<1>4. aborted' = FALSE
  BY <1>2, <1>3
<1>5. RoundFits(func', order', idom', at', changed') /\ changed' \in BOOLEAN
  BY <1>2, <1>3
<1>6. Iterating'
  BY <1>1, <1>3, <1>5 DEF Iterating, Numbered, NoRunnerYet
<1>7. QED
  BY <1>1, <1>3, <1>4, <1>6 DEF DInv

\* The end of a round.
LEMMA NextRoundKeeps ==
    ASSUME DInv, NextRound
    PROVE  DInv'
<1>1. IsGraph(func) /\ Iterating
  BY DEF DInv, NextRound, InitPass, Walking, Bordering, Hanging, Hung
<1>2. /\ OrderFits(func, order) /\ RoundFits(func, order, idom, at, changed) /\ at = 0
      /\ UNCHANGED <<func, visit, visited, order, idom, runner, join, frontier, tree, aborted>>
      /\ changed' = FALSE
  BY <1>1 DEF Iterating, Numbered, NextRound
<1>3. CASE changed
  <2>1. at' = Len(order) /\ UNCHANGED <<pc, todo>>
    BY <1>3 DEF NextRound
  <2>2. RoundFits(func, order, idom, Len(order), FALSE)
    BY <1>2, RoundAgain
  <2>3. Iterating'
    BY <1>1, <1>2, <2>1, <2>2 DEF Iterating, Numbered, NoRunnerYet
  <2>4. QED
    BY <1>1, <1>2, <2>3 DEF DInv
<1>4. CASE ~changed
  <2>1. pc' = "frontier" /\ todo' = Runners /\ UNCHANGED at
    BY <1>4 DEF NextRound
  <2>2. changed = FALSE
    BY <1>1, <1>4 DEF Iterating
  <2>3. ImmediateFits(func, idom)
    <3>1. RoundFits(func, order, idom, 0, FALSE)
      BY <1>2, <2>2
    <3>2. QED
      BY <1>1, <1>2, <3>1, RoundEnds
  <2>4. FrontierFits(func, frontier, todo', runner, join)
    <3>1. frontier = [b \in Nodes(func) |-> {}] /\ runner = Null /\ join = Null
      BY <1>1 DEF Iterating, NoRunnerYet, Nothing
    <3>2. QED
      BY <1>1, <2>1, <3>1, FrontierStarts
  <2>5. IdomDone'
    BY <1>1, <1>2, <2>1, <2>3 DEF IdomDone, Iterating, Numbered
  <2>6. Bordering'
    BY <1>1, <1>2, <2>1, <2>4, <2>5 DEF Bordering, Iterating
  <2>7. QED
    BY <1>1, <1>2, <2>6 DEF DInv
<1>5. QED
  BY <1>3, <1>4

\* What holds from the moment the immediate dominators are known.
LEMMA DoneIsReady ==
    ASSUME IsGraph(func), IdomDone
    PROVE  IdomReady(func, order, idom)
BY DEF IdomDone, Numbered, IdomReady

\* The next runner.
LEMMA StartRunnerKeeps ==
    ASSUME DInv, StartRunner
    PROVE  DInv'
<1>1. IsGraph(func) /\ Bordering
  BY DEF DInv, StartRunner, InitPass, Walking, Iterating, Hanging, Hung
<1>2. IdomReady(func, order, idom) /\ FrontierFits(func, frontier, todo, runner, join)
  BY <1>1, DoneIsReady DEF Bordering
<1>3. /\ join = Null \/ runner = idom[join]
      /\ todo # << >>
      /\ runner' = Head(todo)[1] /\ join' = Head(todo)[2] /\ todo' = Tail(todo)
      /\ UNCHANGED <<func, pc, visit, visited, order, idom, changed, at, frontier, tree, aborted>>
  BY DEF StartRunner, RunnerMet
<1>4. FrontierFits(func, frontier, todo', runner', join')
  BY <1>2, <1>3, FrontierAdvances
<1>5. Bordering'
  BY <1>1, <1>3, <1>4 DEF Bordering, IdomDone, Numbered
<1>6. QED
  BY <1>1, <1>3, <1>5 DEF DInv

\* The runner steps up.
LEMMA MoveRunnerKeeps ==
    ASSUME DInv, MoveRunner
    PROVE  DInv'
<1>1. IsGraph(func) /\ Bordering
  BY DEF DInv, MoveRunner, InitPass, Walking, Iterating, Hanging, Hung
<1>2. IdomReady(func, order, idom) /\ FrontierFits(func, frontier, todo, runner, join)
  BY <1>1, DoneIsReady DEF Bordering
<1>3. /\ join # Null /\ runner # idom[join]
      /\ frontier' = [frontier EXCEPT ![runner] = @ \cup {join}]
      /\ runner' = idom[runner]
      /\ UNCHANGED <<func, pc, visit, visited, order, idom, changed, at, todo, join, tree, aborted>>
  BY DEF MoveRunner, RunnerMet
<1>4. FrontierFits(func, frontier', todo, runner', join)
  BY <1>2, <1>3, FrontierMoves
<1>5. Bordering'
  BY <1>1, <1>3, <1>4 DEF Bordering, IdomDone, Numbered
<1>6. QED
  BY <1>1, <1>3, <1>5 DEF DInv

\* The last runner has met the immediate dominator of its join.
LEMMA EndFrontierKeeps ==
    ASSUME DInv, EndFrontier
    PROVE  DInv'
<1>1. IsGraph(func) /\ Bordering
  BY DEF DInv, EndFrontier, InitPass, Walking, Iterating, Hanging, Hung
<1>2. IdomReady(func, order, idom) /\ FrontierFits(func, frontier, todo, runner, join)
  BY <1>1, DoneIsReady DEF Bordering
<1>3. /\ join = Null \/ runner = idom[join]
      /\ todo = << >> /\ pc' = "tree"
      /\ UNCHANGED <<func, visit, visited, order, idom, changed, at, todo, runner, join,
                     frontier, tree, aborted>>
  BY DEF EndFrontier, RunnerMet
<1>4. FrontierDone(func, frontier)
  BY <1>2, <1>3, FrontierEnds
<1>5. Hanging'
  BY <1>1, <1>2, <1>3, <1>4 DEF Hanging, BordersDone, Bordering, IdomDone, Numbered, FrontierFits
<1>6. QED
  BY <1>1, <1>3, <1>5 DEF DInv

\* The tree is made.
LEMMA CreateDomTreeKeeps ==
    ASSUME DInv, CreateDomTree
    PROVE  DInv'
<1>1. IsGraph(func) /\ Hanging
  BY DEF DInv, CreateDomTree, InitPass, Walking, Iterating, Bordering, Hung
<1>2. /\ tree' = [b \in Node |-> {c \in Blocks(func) : idom[c] = b /\ b # c}]
      /\ pc' = "done"
      /\ UNCHANGED <<func, visit, visited, order, idom, changed, at, todo, runner, join,
                     frontier, aborted>>
  BY DEF CreateDomTree
<1>3. tree' = TreeOf(func, idom)
  BY <1>2, Zenon DEF TreeOf, Node, Nodes
<1>4. Hung'
  BY <1>1, <1>2, <1>3 DEF Hung, Hanging, BordersDone, IdomDone, Numbered
<1>5. QED
  BY <1>1, <1>2, <1>4 DEF DInv

\* Every step of the pass keeps the invariant.
LEMMA StepKeeps ==
    ASSUME DInv, Step
    PROVE  DInv'
BY VisitSuccKeeps, NumberBlockKeeps, IterateIdomKeeps, NextRoundKeeps, StartRunnerKeeps,
   MoveRunnerKeeps, EndFrontierKeeps, CreateDomTreeKeeps DEF Step

-----------------------------------------------------------------------------
(* What the invariant shows.                                               *)

\* The values of the pass are of their types.
LEMMA InvTypes ==
    ASSUME DInv
    PROVE  DominatorsTypeOK
<1>1. CASE InitPass
  <2>1. \A k \in DOMAIN visit : FALSE
    BY <1>1 DEF InitPass
  <2>2. ToSet(order) = {} /\ at \in 0..Len(order)
    BY <1>1 DEF InitPass, ToSet
  <2>3. QED
    BY <1>1, <2>1, <2>2 DEF InitPass, DominatorsTypeOK, Node
<1>2. ASSUME IsGraph(func), ~InitPass
      PROVE  DominatorsTypeOK
  <2>1. /\ Node = Nodes(func) /\ Null \in Nodes(func)
        /\ HasEntry(func) /\ Reachable(func) \subseteq Blocks(func)
    BY <1>2, GraphFacts, DominatorsOfLive DEF Node, Nodes
  <2>2. /\ pc \in {"dfs", "idom", "frontier", "tree", "done"}
        /\ changed \in BOOLEAN /\ aborted = FALSE
    BY <1>2 DEF DInv, Walking, Iterating, Bordering, Hanging, Hung, BordersDone, IdomDone
  <2>3. \A k \in DOMAIN visit :
            visit[k][1] \in Blocks(func) /\ visit[k][2] \in 0..Len(func.succ[visit[k][1]])
    <3>1. CASE Walking
      <4>1. visit \in Seq(Blocks(func) \X Nat) /\ \A k \in DOMAIN visit : CallFits(func, visited, visit[k])
        BY <3>1 DEF Walking, WalkFits, CallsFit
      <4>2. ASSUME NEW k \in DOMAIN visit
            PROVE  visit[k][1] \in Blocks(func) /\ visit[k][2] \in 0..Len(func.succ[visit[k][1]])
        <5>1. visit[k] \in Blocks(func) \X Nat
          BY <4>1
        <5>2. visit[k][2] <= Len(func.succ[visit[k][1]])
          BY <4>1 DEF CallFits
        <5>3. Len(func.succ[visit[k][1]]) \in Nat
          <6>1. WellFormed(func) /\ visit[k][1] \in 1..Len(func.succ)
            BY <2>1, <5>1, BlocksFacts DEF HasEntry
          <6>2. func.succ \in Seq(Seq(Nat))
            BY <6>1 DEF WellFormed, FunctionRecords
          <6>3. QED
            BY <6>1, <6>2
        <5>4. QED
          BY <5>1, <5>2, <5>3
      <4>3. QED
        BY <4>2
    <3>2. CASE visit = << >>
      BY <3>2
    <3>3. QED
      BY <1>2, <3>1, <3>2 DEF DInv, Iterating, Bordering, Hanging, Hung, BordersDone, IdomDone, Numbered
  <2>4. visited \subseteq Blocks(func) /\ ToSet(order) \subseteq visited
    <3>1. CASE Walking
      BY <2>1, <3>1 DEF Walking, WalkFits
    <3>2. CASE Numbered
      BY <2>1, <3>2 DEF Numbered, OrderFits
    <3>3. QED
      BY <1>2, <3>1, <3>2 DEF DInv, Iterating, Bordering, Hanging, Hung, BordersDone, IdomDone
  <2>5. idom \in [Node -> Node]
    <3>1. CASE Walking
      BY <2>1, <3>1 DEF Walking
    <3>2. CASE Iterating
      BY <2>1, <3>2 DEF Iterating, RoundFits, IdomFits
    <3>3. CASE IdomDone
      BY <2>1, <3>3 DEF IdomDone, ImmediateFits
    <3>4. QED
      BY <1>2, <3>1, <3>2, <3>3 DEF DInv, Bordering, Hanging, Hung, BordersDone
  <2>6. \A b \in Node : frontier[b] \subseteq Blocks(func)
    <3>1. CASE frontier = Nothing(func)
      BY <2>1, <3>1 DEF Nothing
    <3>2. CASE FrontierFits(func, frontier, todo, runner, join) \/ FrontierDone(func, frontier)
      BY <2>1, <3>2 DEF FrontierFits, FrontierDone
    <3>3. QED
      BY <1>2, <3>1, <3>2 DEF DInv, Walking, Iterating, Bordering, Hanging, Hung, BordersDone, NoRunnerYet
  <2>7. \A b \in Node : tree[b] \subseteq Blocks(func)
    <3>1. CASE tree = Nothing(func)
      BY <2>1, <3>1 DEF Nothing
    <3>2. CASE tree = TreeOf(func, idom)
      BY <2>1, <3>2 DEF TreeOf
    <3>3. QED
      BY <1>2, <3>1, <3>2 DEF DInv, Walking, Iterating, Bordering, Hanging, Hung
  <2>8. at \in 0..Len(order)
    <3>1. CASE at = 0
      <4>1. order \in Seq(Blocks(func))
        BY <1>2 DEF DInv, Walking, WalkFits, Iterating, Bordering, Hanging, Hung, BordersDone,
                    IdomDone, Numbered, OrderFits
      <4>2. Len(order) \in Nat
        BY <4>1
      <4>3. QED
        BY <3>1, <4>2
    <3>2. CASE Iterating
      BY <3>2 DEF Iterating, RoundFits
    <3>3. QED
      BY <1>2, <3>1, <3>2 DEF DInv, Walking, Bordering, Hanging, Hung, BordersDone, IdomDone
  <2>9. runner \in Node /\ join \in Node
    <3>1. CASE NoRunnerYet
      BY <2>1, <3>1 DEF NoRunnerYet
    <3>2. CASE RunnerFits(func, runner, join)
      BY <2>1, <3>2 DEF RunnerFits
    <3>3. QED
      BY <1>2, <3>1, <3>2 DEF DInv, Walking, Iterating, Bordering, Hanging, Hung, BordersDone, FrontierFits
  <2>10. QED
    BY <2>2, <2>3, <2>4, <2>5, <2>6, <2>7, <2>8, <2>9 DEF DominatorsTypeOK
<1>3. QED
  BY <1>1, <1>2 DEF DInv

\* The assertions hold, and what each phase has made is what it is for.
LEMMA InvCorrect ==
    ASSUME DInv
    PROVE  NeverAborts /\ IdomCorrect /\ FrontierCorrect /\ TreeSpansReachable
<1> DEFINE doms == DominatorSets(func)
           live == Reachable(func)
<1>1. NeverAborts
  BY DEF DInv, NeverAborts
<1>2. ASSUME pc \in {"frontier", "tree", "done"}
      PROVE  IdomReady(func, order, idom)
  <2>1. IsGraph(func) /\ IdomDone
    BY <1>2 DEF DInv, InitPass, Walking, Iterating, Bordering, Hanging, Hung, BordersDone
  <2>2. QED
    BY <2>1, DoneIsReady
<1>3. DOMAIN doms = live
  BY DominatorSetsFacts
<1>4. IdomCorrect
  <2>1. ASSUME pc \in {"frontier", "tree", "done"}
        PROVE  /\ \A b \in live \ {Entry} :
                     idom[b] \in live /\ b \in ChildrenOf(doms, idom[b])
               /\ \A b \in Blocks(func) \ live : idom[b] = Null
    <3>1. IdomReady(func, order, idom)
      BY <1>2, <2>1
    <3>2. \A b \in live : idom[b] \in live
      BY <3>1, ReadyFacts
    <3>3. /\ \A b \in live \ {Entry} :
                /\ idom[b] \in doms[b] \ {b}
                /\ doms[b] \ {b} \subseteq doms[idom[b]]
          /\ \A b \in Blocks(func) \ live : idom[b] = Null
      BY <3>1 DEF IdomReady, ImmediateFits
    <3>4. QED
      BY <1>3, <3>2, <3>3 DEF ChildrenOf
  <2>2. QED
    BY <1>3, <2>1 DEF IdomCorrect
<1>5. FrontierCorrect
  <2>1. ASSUME pc \in {"tree", "done"}
        PROVE  FrontierDone(func, frontier)
    BY <2>1 DEF DInv, InitPass, Walking, Iterating, Bordering, Hanging, Hung, BordersDone
  <2>2. QED
    BY <1>3, <2>1 DEF FrontierCorrect, FrontierDone
<1>6. TreeSpansReachable
  <2>1. ASSUME pc = "done"
        PROVE  /\ UNION {tree[b] : b \in live} = live \ {Entry}
               /\ \A b \in live : tree[b] = ChildrenOf(doms, b)
    <3>1. tree = TreeOf(func, idom)
      BY <2>1 DEF DInv, InitPass, Walking, Iterating, Bordering, Hanging, Hung
    <3>2. IdomReady(func, order, idom)
      BY <1>2, <2>1
    <3>3. QED
      BY <3>1, <3>2, TreeFits
  <2>2. QED
    BY <1>3, <2>1 DEF TreeSpansReachable
<1>7. QED
  BY <1>1, <1>4, <1>5, <1>6

\* The pass waits while the visitor works, and the visitor is done when the
\* pass runs.
BuiltInv == IInv /\ DInv

\* A step of the visitor.
LEMMA BuildKeeps ==
    ASSUME BuiltInv, Build
    PROVE  BuiltInv'
<1>1. IInv'
  BY NextIInv DEF BuiltInv, Build
<1>2. InitPass
  BY DEF BuiltInv, DInv, Build, Walking, Iterating, Bordering, Hanging, Hung
<1>3. InitPass' /\ aborted' = FALSE
  BY <1>2 DEF InitPass, Build, passvars
<1>4. QED
  BY <1>1, <1>3 DEF BuiltInv, DInv

\* The invariant of the visitor is about its own values alone.
LEMMA BuilderRests ==
    ASSUME IInv, UNCHANGED <<func, buildvars>>
    PROVE  IInv'
<1>1. UNCHANGED vars
  BY DEF vars, buildvars
<1>2. QED
  BY <1>1, StutterIInv

\* The first step of the pass, on a function of the visitor.
LEMMA AnalyseKeeps ==
    ASSUME BuiltInv, Analyse
    PROVE  BuiltInv'
<1>1. Consistent(func)
  BY DEF BuiltInv, IInv, FunctionInv
<1>2. DInv'
  BY <1>1, RunKeeps DEF BuiltInv, Analyse
<1>3. IInv'
  BY BuilderRests DEF BuiltInv, Analyse, Run
<1>4. QED
  BY <1>2, <1>3 DEF BuiltInv

\* The other steps of the pass.
LEMMA AnalysisStepKeeps ==
    ASSUME BuiltInv, AnalysisStep
    PROVE  BuiltInv'
<1>1. DInv'
  BY StepKeeps DEF BuiltInv, AnalysisStep
<1>2. func' = func
  BY DEF AnalysisStep, Step, VisitSucc, NumberBlock, IterateIdom, NextRound, StartRunner,
         MoveRunner, EndFrontier, CreateDomTree
<1>3. IInv'
  BY <1>2, BuilderRests DEF BuiltInv, AnalysisStep
<1>4. QED
  BY <1>1, <1>3 DEF BuiltInv

\* The visitor and the pass keep their invariants, whatever the program.
THEOREM BuiltInvariant == BuiltSpec => []BuiltInv
<1>1. BuiltInit => BuiltInv
  BY InitIInv DEF BuiltInit, BuiltInv, DInv, InitPass
<1>2. BuiltInv /\ [BuiltNext]_builtvars => BuiltInv'
  <2> SUFFICES ASSUME BuiltInv, [BuiltNext]_builtvars
               PROVE  BuiltInv'
    OBVIOUS
  <2>1. CASE BuiltNext
    BY <2>1, BuildKeeps, AnalyseKeeps, AnalysisStepKeeps DEF BuiltNext
  <2>2. CASE UNCHANGED builtvars
    <3>1. IInv'
      BY <2>2, BuilderRests DEF BuiltInv, builtvars
    <3>2. DInv'
      BY <2>2 DEF builtvars, passvars, BuiltInv, DInv, InitPass, Walking, Iterating, Bordering,
                  Hanging, Hung, BordersDone, IdomDone, Numbered, NoRunnerYet
    <3>3. QED
      BY <3>1, <3>2 DEF BuiltInv
  <2>3. QED
    BY <2>1, <2>2
<1>3. QED
  BY <1>1, <1>2, PTL DEF BuiltSpec

\* The values of the pass are of their types.
THEOREM DominatorsTypes == BuiltSpec => []DominatorsTypeOK
<1>1. BuiltInv => DominatorsTypeOK
  BY InvTypes DEF BuiltInv
<1>2. QED
  BY <1>1, BuiltInvariant, PTL

\* The assertions of create_idom and intersect never fail.
THEOREM DominatorsNeverAbort == BuiltSpec => []NeverAborts
<1>1. BuiltInv => NeverAborts
  BY InvCorrect DEF BuiltInv
<1>2. QED
  BY <1>1, BuiltInvariant, PTL

\* What create_idom leaves are the immediate dominators.
THEOREM ImmediateDominators == BuiltSpec => []IdomCorrect
<1>1. BuiltInv => IdomCorrect
  BY InvCorrect DEF BuiltInv
<1>2. QED
  BY <1>1, BuiltInvariant, PTL

\* What create_dominance_frontier leaves are the dominance frontiers.
THEOREM DominanceFrontiers == BuiltSpec => []FrontierCorrect
<1>1. BuiltInv => FrontierCorrect
  BY InvCorrect DEF BuiltInv
<1>2. QED
  BY <1>1, BuiltInvariant, PTL

\* What create_dom_tree_succ leaves is the dominator tree.
THEOREM DominatorTree == BuiltSpec => []TreeSpansReachable
<1>1. BuiltInv => TreeSpansReachable
  BY InvCorrect DEF BuiltInv
<1>2. QED
  BY <1>1, BuiltInvariant, PTL
=============================================================================
