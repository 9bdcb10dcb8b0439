------------------------- MODULE ActiveVars_proofs --------------------------
(***************************************************************************)
(* Proofs about ActiveVars, for every function: the iteration only adds    *)
(* values, what it ends with is the least solution of the equations it     *)
(* iterates, and how that relates to the least solution of the equations   *)
(* of the manual, with phi uses per edge; and that this holds of what the  *)
(* visitor and Mem2Reg make.                                               *)
(***************************************************************************)
EXTENDS BuiltActiveVars, BuiltMem2Reg_proofs

\* The pass on one function.
ActiveSpec ==
    InitActive /\ IsGraph(func) /\ [][ActiveStep]_<<func, activevars>>

\* The blocks are numbered.
LEMMA BlocksNumbered ==
    ASSUME NEW f, IsGraph(f)
    PROVE  \E n \in Nat : Blocks(f) = 1..n
<1>1. f.code \in Seq(ToSet(f.code))
  BY DEF IsGraph, IsSequence
<1>2. Len(f.code) \in Nat /\ DOMAIN f.code = 1..Len(f.code)
  BY <1>1, LenProperties
<1>3. QED
  BY <1>2 DEF Blocks

\* The right-hand side of the equation for the beginning of b.
LiveIn(live, b) == facts[b].use \cup (LiveOut(live, b) \ facts[b].def)

\* The equations hold at b.
SolvedAt(b) ==
    /\ live_out[b] = LiveOut(live_in, b)
    /\ live_in[b] = LiveIn(live_in, b)

\* live is closed under the equations, as each solution of them is.
ClosedUnder(live) == \A b \in Blocks(func) : LiveIn(live, b) \subseteq live[b]

-----------------------------------------------------------------------------
\* The inductive invariant, in two parts.  A block that was visited in this
\* round is solved as long as the round has changed nothing.
RoundInv ==
    /\ active \in {"idle", "run", "done"}
    /\ IsGraph(func)
    /\ active = "idle" => bb_left = << >>
    /\ active = "run" =>
        /\ bb_left \in Seq(Blocks(func))
        /\ flag \in BOOLEAN
        /\ ~flag => \A b \in Blocks(func) \ ToSet(bb_left) : SolvedAt(b)
    /\ active = "done" => \A b \in Blocks(func) : SolvedAt(b)

\* The sets hold no value too many, and no more than a visit would give them.
SetsInv ==
    active # "idle" =>
        /\ live_in = [b \in Blocks(func) |-> live_in[b]]
        /\ live_out = [b \in Blocks(func) |-> live_out[b]]
        /\ \A b \in Blocks(func) : live_in[b] \subseteq LiveIn(live_in, b)
        /\ \A live : ClosedUnder(live) => \A b \in Blocks(func) : live_in[b] \subseteq live[b]

ActiveInv == RoundInv /\ SetsInv

\* More live at the beginnings of the blocks is no less live at their ends,
\* though the values of phis are subtracted.
LEMMA LiveOutMonotone ==
    ASSUME IsGraph(func), NEW live, NEW more,
           \A s \in Blocks(func) : live[s] \subseteq more[s],
           NEW b \in Blocks(func)
    PROVE  /\ LiveOut(live, b) \subseteq LiveOut(more, b)
           /\ LiveIn(live, b) \subseteq LiveIn(more, b)
<1>1. Succ(func, b) \subseteq Blocks(func)
  BY DEF IsGraph
<1>2. LiveOut(live, b) \subseteq LiveOut(more, b)
  BY <1>1 DEF LiveOut
<1>3. QED
  BY <1>2 DEF LiveIn

\* Before the pass starts there is nothing to say.
LEMMA InitActiveInv == InitActive /\ IsGraph(func) => ActiveInv
BY DEF InitActive, ActiveInv, RoundInv, SetsInv

\* The sets start empty.
LEMMA StartActiveActiveInv ==
    ASSUME ActiveInv, StartActive
    PROVE  ActiveInv'
<1>1. /\ func' = func /\ active' = "run" /\ flag' = TRUE /\ bb_left' = << >>
      /\ live_in' = [b \in Blocks(func) |-> {}] /\ live_out' = live_in'
  BY DEF StartActive, ActiveInv, RoundInv
<1>2. RoundInv'
  BY <1>1 DEF ActiveInv, RoundInv
<1>3. SetsInv'
  BY <1>1 DEF SetsInv
<1>4. QED
  BY <1>2, <1>3 DEF ActiveInv

\* A round visits every block.
LEMMA NextLiveRoundActiveInv ==
    ASSUME ActiveInv, NextLiveRound
    PROVE  ActiveInv'
<1>1. /\ active = "run" /\ func' = func /\ active' = active /\ flag' = FALSE
      /\ bb_left' = [b \in Blocks(func) |-> b]
      /\ facts' = facts /\ live_in' = live_in /\ live_out' = live_out
  BY DEF NextLiveRound
<1>2. bb_left' \in Seq(Blocks(func)) /\ ToSet(bb_left') = Blocks(func)
  <2>1. PICK n \in Nat : Blocks(func) = 1..n
    BY BlocksNumbered DEF ActiveInv, RoundInv
  <2>2. QED
    BY <1>1, <2>1 DEF ToSet
<1>3. RoundInv'
  BY <1>1, <1>2 DEF ActiveInv, RoundInv
<1>4. SetsInv'
  BY <1>1 DEF ActiveInv, SetsInv, ClosedUnder, LiveIn, LiveOut
<1>5. QED
  BY <1>3, <1>4 DEF ActiveInv

\* What is in a sequence is its head or in its tail.
LEMMA HeadOrTail ==
    ASSUME NEW S, NEW s \in Seq(S), s # << >>, NEW c \in ToSet(s), c # Head(s)
    PROVE  c \in ToSet(Tail(s))
<1>1. PICK k \in DOMAIN s : s[k] = c
  BY DEF ToSet
<1>2. k \in 1..Len(s) /\ k # 1 /\ Len(s) \in Nat
  BY <1>1
<1>3. k - 1 \in 1..Len(Tail(s)) /\ Tail(s)[k - 1] = c
  BY <1>1, <1>2
<1>4. QED
  BY <1>3 DEF ToSet

\* The visit of a block makes its sets what the equations say.
LEMMA VisitLiveSets ==
    ASSUME ActiveInv, VisitLive
    PROVE  LET b == Head(bb_left)
           IN  /\ b \in Blocks(func)
               /\ \A c \in Blocks(func) :
                     /\ live_in'[c] = IF c = b THEN LiveIn(live_in, b) ELSE live_in[c]
                     /\ live_out'[c] = IF c = b THEN LiveOut(live_in, b) ELSE live_out[c]
                     /\ live_in[c] \subseteq live_in'[c]
               /\ live_in' = [c \in Blocks(func) |-> live_in'[c]]
               /\ live_out' = [c \in Blocks(func) |-> live_out'[c]]
<1> DEFINE b == Head(bb_left)
<1>1. bb_left \in Seq(Blocks(func)) /\ bb_left # << >>
  BY DEF VisitLive, ActiveInv, RoundInv
<1>2. b \in Blocks(func)
  BY <1>1
<1>3. /\ live_in = [c \in Blocks(func) |-> live_in[c]]
      /\ live_out = [c \in Blocks(func) |-> live_out[c]]
  BY DEF VisitLive, ActiveInv, SetsInv
<1>4. live_out' = [live_out EXCEPT ![b] = LiveOut(live_in, b)]
  BY DEF VisitLive
<1>5. live_out'[b] = LiveOut(live_in, b)
  BY <1>2, <1>3, <1>4
<1>6. live_in' = [live_in EXCEPT ![b] = LiveIn(live_in, b)]
  BY <1>5 DEF VisitLive, LiveIn
<1>7. live_in[b] \subseteq LiveIn(live_in, b)
  BY <1>2 DEF VisitLive, ActiveInv, SetsInv
<1> HIDE DEF b
<1>8. QED
  BY <1>2, <1>3, <1>4, <1>6, <1>7 DEF b

\* What a visit adds is in every solution, and what others have got stays theirs.
LEMMA VisitLiveActiveInv ==
    ASSUME ActiveInv, VisitLive
    PROVE  ActiveInv'
<1> DEFINE b == Head(bb_left)
<1>1. /\ active = "run" /\ active' = "run" /\ func' = func /\ facts' = facts
      /\ bb_left # << >> /\ bb_left' = Tail(bb_left)
      /\ bb_left \in Seq(Blocks(func)) /\ flag \in BOOLEAN
      /\ flag' = (flag \/ live_in'[b] # live_in[b])
      /\ IsGraph(func)
  BY DEF VisitLive, ActiveInv, RoundInv
<1>2. /\ b \in Blocks(func)
      /\ \A c \in Blocks(func) :
            /\ live_in'[c] = IF c = b THEN LiveIn(live_in, b) ELSE live_in[c]
            /\ live_out'[c] = IF c = b THEN LiveOut(live_in, b) ELSE live_out[c]
            /\ live_in[c] \subseteq live_in'[c]
      /\ live_in' = [c \in Blocks(func) |-> live_in'[c]]
      /\ live_out' = [c \in Blocks(func) |-> live_out'[c]]
  BY VisitLiveSets
<1> DEFINE new == live_in'
           out == live_out'
<1>3. \A c \in Blocks(func) : /\ LiveOut(live_in, c) \subseteq LiveOut(new, c)
                              /\ LiveIn(live_in, c) \subseteq LiveIn(new, c)
  BY <1>1, <1>2, LiveOutMonotone
<1> HIDE DEF new, out
<1>4. \A c \in Blocks(func) : new[c] \subseteq LiveIn(new, c)
  <2>1. \A c \in Blocks(func) : live_in[c] \subseteq LiveIn(live_in, c)
    BY <1>1 DEF ActiveInv, SetsInv
  <2>2. QED
    BY <1>2, <1>3, <2>1 DEF new
<1>5. ASSUME NEW live, ClosedUnder(live), NEW c \in Blocks(func)
      PROVE  new[c] \subseteq live[c]
  <2>1. \A s \in Blocks(func) : live_in[s] \subseteq live[s]
    BY <1>1, <1>5 DEF ActiveInv, SetsInv
  <2>2. LiveIn(live_in, b) \subseteq LiveIn(live, b)
    BY <1>1, <1>2, <2>1, LiveOutMonotone
  <2>3. LiveIn(live, b) \subseteq live[b]
    BY <1>2, <1>5 DEF ClosedUnder
  <2>4. QED
    BY <1>2, <2>1, <2>2, <2>3 DEF new
<1>6. SetsInv'
  <2>1. new = [c \in Blocks(func) |-> new[c]] /\ out = [c \in Blocks(func) |-> out[c]]
    BY <1>2 DEF new, out
  <2>2. QED
    BY <1>1, <1>4, <1>5, <2>1 DEF SetsInv, ClosedUnder, LiveIn, LiveOut, new, out
<1>7. ASSUME ~flag', NEW c \in Blocks(func) \ ToSet(bb_left')
      PROVE  SolvedAt(c)'
  <2>1. ~flag /\ new = live_in
    <3>1. ~flag /\ new[b] = live_in[b]
      BY <1>1, <1>7 DEF new
    <3>2. \A d \in Blocks(func) : new[d] = live_in[d]
      BY <1>2, <3>1 DEF new
    <3>3. live_in = [d \in Blocks(func) |-> live_in[d]]
      BY <1>1 DEF ActiveInv, SetsInv
    <3>4. new = [d \in Blocks(func) |-> new[d]]
      BY <1>2 DEF new
    <3>5. QED
      BY <3>1, <3>2, <3>3, <3>4
  <2>2. out[c] = LiveOut(live_in, c) /\ new[c] = LiveIn(live_in, c)
    <3>1. CASE c = b
      BY <1>2, <3>1 DEF new, out
    <3>2. CASE c # b
      <4>1. c \notin ToSet(bb_left)
        BY <1>1, <1>7, <3>2, HeadOrTail
      <4>2. SolvedAt(c)
        BY <1>1, <2>1, <4>1 DEF ActiveInv, RoundInv
      <4>3. QED
        BY <1>2, <3>2, <4>2 DEF SolvedAt, new, out
    <3>3. QED
      BY <3>1, <3>2
  <2>3. QED
    BY <1>1, <2>1, <2>2 DEF SolvedAt, LiveIn, LiveOut, new, out
<1>8. RoundInv'
  <2>1. bb_left' \in Seq(Blocks(func)) /\ flag' \in BOOLEAN
    BY <1>1
  <2>2. QED
    BY <1>1, <1>7, <2>1 DEF RoundInv
<1>9. QED
  BY <1>6, <1>8 DEF ActiveInv

\* A round that has changed nothing leaves every block solved.
LEMMA EndActiveActiveInv ==
    ASSUME ActiveInv, EndActive
    PROVE  ActiveInv'
<1>1. /\ active = "run" /\ active' = "done" /\ bb_left = << >> /\ ~flag
      /\ UNCHANGED <<func, facts, live_in, live_out, bb_left, flag>>
  BY DEF EndActive
<1>2. \A b \in Blocks(func) : SolvedAt(b)
  BY <1>1 DEF ActiveInv, RoundInv, ToSet
<1>3. RoundInv'
  BY <1>1, <1>2 DEF ActiveInv, RoundInv, SolvedAt, LiveIn, LiveOut
<1>4. SetsInv'
  BY <1>1 DEF ActiveInv, SetsInv, ClosedUnder, LiveIn, LiveOut
<1>5. QED
  BY <1>3, <1>4 DEF ActiveInv

\* Every step keeps the invariant, also one of nobody.
LEMMA StepActiveInv == ActiveInv /\ [ActiveStep]_<<func, activevars>> => ActiveInv'
<1> SUFFICES ASSUME ActiveInv, [ActiveStep]_<<func, activevars>>
             PROVE  ActiveInv'
  OBVIOUS
<1>1. CASE StartActive
  BY <1>1, StartActiveActiveInv
<1>2. CASE NextLiveRound
  BY <1>2, NextLiveRoundActiveInv
<1>3. CASE VisitLive
  BY <1>3, VisitLiveActiveInv
<1>4. CASE EndActive
  BY <1>4, EndActiveActiveInv
<1>5. CASE UNCHANGED <<func, activevars>>
  BY <1>5 DEF activevars, ActiveInv, RoundInv, SetsInv, SolvedAt, ClosedUnder, LiveIn, LiveOut
<1>6. QED
  BY <1>1, <1>2, <1>3, <1>4, <1>5 DEF ActiveStep, Iterate

\* The invariant holds while ActiveVars runs, on any function.
THEOREM ActiveInvariant == ActiveSpec => []ActiveInv
<1>1. InitActive /\ IsGraph(func) => ActiveInv
  BY InitActiveInv
<1>2. ActiveInv /\ [ActiveStep]_<<func, activevars>> => ActiveInv'
  BY StepActiveInv
<1>3. QED
  BY <1>1, <1>2, PTL DEF ActiveSpec

-----------------------------------------------------------------------------
\* live_in and live_out solve the equations, and no solution has less.
LeastSolution ==
    active = "done" =>
        /\ \A b \in Blocks(func) : SolvedAt(b)
        /\ \A live : (\A b \in Blocks(func) : live[b] = LiveIn(live, b)) =>
               \A b \in Blocks(func) : /\ live_in[b] \subseteq live[b]
                                       /\ live_out[b] \subseteq LiveOut(live, b)

\* When ActiveVars is done it has the least solution of its equations,
\* whatever the function and the order of its blocks.
THEOREM ActiveLeastSolution == ActiveSpec => []LeastSolution
<1>1. ActiveInv => LeastSolution
  <2>1. SUFFICES ASSUME ActiveInv, active = "done"
                 PROVE  LeastSolution
    BY DEF LeastSolution
  <2>2. \A b \in Blocks(func) : SolvedAt(b)
    BY <2>1 DEF ActiveInv, RoundInv
  <2>3. ASSUME NEW live, \A b \in Blocks(func) : live[b] = LiveIn(live, b),
               NEW b \in Blocks(func)
        PROVE  live_in[b] \subseteq live[b] /\ live_out[b] \subseteq LiveOut(live, b)
    <3>1. \A s \in Blocks(func) : live_in[s] \subseteq live[s]
      BY <2>1, <2>3 DEF ActiveInv, SetsInv, ClosedUnder
    <3>2. LiveOut(live_in, b) \subseteq LiveOut(live, b)
      BY <2>1, <3>1, LiveOutMonotone DEF ActiveInv, RoundInv
    <3>3. QED
      BY <2>2, <3>1, <3>2 DEF SolvedAt
  <2>4. QED
    BY <2>2, <2>3 DEF LeastSolution
<1>2. QED
  BY <1>1, ActiveInvariant, PTL

\* A block's live_in never loses a value while the rounds go on.
OnlyGrows ==
    active = "run" => \A b \in Blocks(func) : live_in[b] \subseteq live_in'[b]

\* The iteration only adds values, though it subtracts those of phis: with
\* finitely many values a round without a change must come.
THEOREM ActiveOnlyGrows == ActiveSpec => [][OnlyGrows]_<<func, activevars>>
<1>1. ActiveInv /\ [ActiveStep]_<<func, activevars>> => [OnlyGrows]_<<func, activevars>>
  <2> SUFFICES ASSUME ActiveInv, ActiveStep, active = "run", NEW b \in Blocks(func)
               PROVE  live_in[b] \subseteq live_in'[b]
    BY DEF OnlyGrows
  <2>1. CASE VisitLive
    BY <2>1, VisitLiveSets
  <2>2. CASE StartActive \/ NextLiveRound \/ EndActive
    BY <2>2 DEF StartActive, NextLiveRound, EndActive
  <2>3. QED
    BY <2>1, <2>2 DEF ActiveStep, Iterate
<1>2. QED
  BY <1>1, ActiveInvariant, PTL DEF ActiveSpec

-----------------------------------------------------------------------------
(* What Facts finds in a block.                                             *)

\* The values a block names, and the blocks it names.
Names(b) == UNION {UsedBy(i) \cup {i.id} : i \in ToSet(func.code[b])}
Targets(b) == UNION {ToSet(i.to) : i \in ToSet(func.code[b])}

\* The records that Gather works on.
Tables(b) == UNION {[D -> Targets(b)] : D \in SUBSET Names(b)}
Readings(b) == [use : SUBSET Names(b), def : SUBSET Names(b), phii : Tables(b)]

\* Case m of the phi i.
IsCase(i, m, v, p) == m \in DOMAIN i.args /\ i.args[m] = v /\ ~IsLiteral(v) /\ i.to[m] = p

\* A code's sequences are sequences.
LEMMA CodeFacts ==
    ASSUME IsCode(func), NEW b \in Blocks(func)
    PROVE  /\ Len(func.code[b]) \in Nat /\ DOMAIN func.code[b] = 1..Len(func.code[b])
           /\ \A k \in DOMAIN func.code[b] : func.code[b][k] \in ToSet(func.code[b])
           /\ \A i \in ToSet(func.code[b]) :
                 /\ i.id \in Names(b)
                 /\ UsedBy(i) \subseteq Names(b)
                 /\ Len(i.args) \in Nat /\ DOMAIN i.args = 1..Len(i.args)
                 /\ \A m \in DOMAIN i.args : IsLiteral(i.args[m]) \/ i.args[m] \in UsedBy(i)
                 /\ i.op = "phi" =>
                       \A m \in DOMAIN i.args : i.to[m] \in Targets(b) /\ i.to[m] \in Pre(func, b)
<1>1. IsSequence(func.code[b])
  BY DEF IsCode
<1>2. Len(func.code[b]) \in Nat /\ DOMAIN func.code[b] = 1..Len(func.code[b])
  BY <1>1, LenProperties DEF IsSequence
<1>3. \A k \in DOMAIN func.code[b] : func.code[b][k] \in ToSet(func.code[b])
  BY DEF ToSet
<1>4. ASSUME NEW i \in ToSet(func.code[b])
      PROVE  /\ i.id \in Names(b)
             /\ UsedBy(i) \subseteq Names(b)
             /\ Len(i.args) \in Nat /\ DOMAIN i.args = 1..Len(i.args)
             /\ \A m \in DOMAIN i.args : IsLiteral(i.args[m]) \/ i.args[m] \in UsedBy(i)
             /\ i.op = "phi" =>
                   \A m \in DOMAIN i.args : i.to[m] \in Targets(b) /\ i.to[m] \in Pre(func, b)
  <2>1. IsSequence(i.args)
    BY DEF IsCode
  <2>2. Len(i.args) \in Nat /\ DOMAIN i.args = 1..Len(i.args)
    BY <2>1, LenProperties DEF IsSequence
  <2>3. i.id \in Names(b) /\ UsedBy(i) \subseteq Names(b)
    BY DEF Names
  <2>4. \A m \in DOMAIN i.args : IsLiteral(i.args[m]) \/ i.args[m] \in UsedBy(i)
    BY DEF UsedBy, ToSet
  <2>5. ASSUME i.op = "phi", NEW m \in DOMAIN i.args
        PROVE  i.to[m] \in Targets(b) /\ i.to[m] \in Pre(func, b)
    <3>1. IsSequence(i.to) /\ Len(i.to) = Len(i.args) /\ ToSet(i.to) \subseteq Pre(func, b)
      BY <2>5 DEF IsCode
    <3>2. m \in DOMAIN i.to
      BY <2>2, <3>1, LenProperties DEF IsSequence
    <3>3. i.to[m] \in ToSet(i.to)
      BY <3>2 DEF ToSet
    <3>4. QED
      BY <3>1, <3>3 DEF Targets
  <2>6. QED
    BY <2>2, <2>3, <2>4, <2>5
<1>5. QED
  BY <1>2, <1>3, <1>4

\* map::insert.
LEMMA InsertedIs ==
    ASSUME NEW b, NEW t \in Tables(b), NEW v \in Names(b), NEW p \in Targets(b)
    PROVE  LET q == Inserted(t, v, p)
           IN  /\ q \in Tables(b)
               /\ DOMAIN q = DOMAIN t \cup {v}
               /\ \A u \in DOMAIN t : q[u] = t[u]
               /\ v \notin DOMAIN t => q[v] = p
<1>1. PICK D \in SUBSET Names(b) : t \in [D -> Targets(b)]
  BY DEF Tables
<1>2. Inserted(t, v, p) \in [D \cup {v} -> Targets(b)]
  BY <1>1 DEF Inserted
<1>3. D \cup {v} \in SUBSET Names(b)
  OBVIOUS
<1>4. Inserted(t, v, p) \in Tables(b)
  BY <1>2, <1>3 DEF Tables
<1>5. QED
  BY <1>4 DEF Inserted

\* One case of a phi: its value is used, and comes from its predecessor unless
\* it is known from another.
LEMMA AddCaseIs ==
    ASSUME IsCode(func), NEW b \in Blocks(func), NEW r \in Readings(b),
           NEW i \in ToSet(func.code[b]), i.op = "phi", NEW m \in DOMAIN i.args
    PROVE  LET q == AddCase(r, i, m)
               v == i.args[m]
           IN  /\ q \in Readings(b) /\ q.def = r.def
               /\ v \in r.def \/ IsLiteral(v) => q = r
               /\ ~(v \in r.def \/ IsLiteral(v)) =>
                     /\ q.use = r.use \cup {v}
                     /\ DOMAIN q.phii = DOMAIN r.phii \cup {v}
                     /\ \A u \in DOMAIN r.phii : q.phii[u] = r.phii[u]
                     /\ v \notin DOMAIN r.phii => q.phii[v] = i.to[m]
<1> DEFINE q == AddCase(r, i, m)
           v == i.args[m]
<1>1. CASE v \in r.def \/ IsLiteral(v)
  BY <1>1 DEF AddCase
<1>2. CASE ~(v \in r.def \/ IsLiteral(v))
  <2>1. v \in Names(b) /\ i.to[m] \in Targets(b)
    BY <1>2, CodeFacts
  <2>2. r.phii \in Tables(b) /\ r.use \in SUBSET Names(b) /\ r.def \in SUBSET Names(b)
    BY DEF Readings
  <2>3. q = [r EXCEPT !.use = @ \cup {v}, !.phii = Inserted(@, v, i.to[m])]
    BY <1>2 DEF AddCase
  <2>4. /\ q.use = r.use \cup {v} /\ q.def = r.def
        /\ q.phii = Inserted(r.phii, v, i.to[m])
    BY <2>3 DEF Readings
  <2>5. /\ q.phii \in Tables(b)
        /\ DOMAIN q.phii = DOMAIN r.phii \cup {v}
        /\ \A u \in DOMAIN r.phii : q.phii[u] = r.phii[u]
        /\ v \notin DOMAIN r.phii => q.phii[v] = i.to[m]
    <3> DEFINE s == r.phii
               p == i.to[m]
               t == Inserted(s, v, p)
    <3>1. s \in Tables(b) /\ v \in Names(b) /\ p \in Targets(b) /\ q.phii = t
      BY <2>1, <2>2, <2>4
    <3> HIDE DEF q, v, s, p
    <3>2. /\ t \in Tables(b)
          /\ DOMAIN t = DOMAIN s \cup {v}
          /\ \A u \in DOMAIN s : t[u] = s[u]
          /\ v \notin DOMAIN s => t[v] = p
      BY <3>1, InsertedIs
    <3> HIDE DEF t
    <3>3. QED
      BY <3>1, <3>2 DEF s, p
  <2>6. q \in Readings(b)
    BY <2>1, <2>2, <2>3, <2>4, <2>5 DEF Readings
  <2>7. QED
    BY <1>2, <2>4, <2>5, <2>6
<1>3. QED
  BY <1>1, <1>2

\* q is r after m cases of the phi i.
AfterCases(q, r, b, i, m) ==
    /\ q \in Readings(b) /\ q.def = r.def
    /\ r.use \subseteq q.use /\ q.use \subseteq r.use \cup DOMAIN q.phii
    /\ DOMAIN r.phii \subseteq DOMAIN q.phii
    /\ \A u \in DOMAIN q.phii : \/ u \in DOMAIN r.phii /\ q.phii[u] = r.phii[u]
                                \/ \E l \in 1..m : IsCase(i, l, u, q.phii[u])
    /\ \A l \in 1..m : IsLiteral(i.args[l]) \/ i.args[l] \in r.def \cup DOMAIN q.phii

\* One more case.
LEMMA CaseStep ==
    ASSUME IsCode(func), NEW b \in Blocks(func), NEW r \in Readings(b), NEW p,
           NEW i \in ToSet(func.code[b]), i.op = "phi", NEW m \in DOMAIN i.args,
           AfterCases(p, r, b, i, m - 1)
    PROVE  AfterCases(AddCase(p, i, m), r, b, i, m)
<1> DEFINE q == AddCase(p, i, m)
           v == i.args[m]
<1>1. p \in Readings(b)
  BY DEF AfterCases
<1>2. m \in 1..Len(i.args) /\ Len(i.args) \in Nat
  BY CodeFacts
<1>3. /\ q \in Readings(b) /\ q.def = p.def
      /\ v \in p.def \/ IsLiteral(v) => q = p
      /\ ~(v \in p.def \/ IsLiteral(v)) =>
            /\ q.use = p.use \cup {v}
            /\ DOMAIN q.phii = DOMAIN p.phii \cup {v}
            /\ \A u \in DOMAIN p.phii : q.phii[u] = p.phii[u]
            /\ v \notin DOMAIN p.phii => q.phii[v] = i.to[m]
  BY <1>1, AddCaseIs
<1> HIDE DEF q
<1>4. \A l \in 1..m : l = m \/ l \in 1..(m - 1)
  BY <1>2
<1>5. \A l \in 1..(m - 1) : l \in 1..m
  BY <1>2
<1>6. m \in 1..m
  BY <1>2
<1>7. CASE v \in p.def \/ IsLiteral(v)
  <2>1. q = p
    BY <1>3, <1>7
  <2>2. \A l \in 1..m : IsLiteral(i.args[l]) \/ i.args[l] \in r.def \cup DOMAIN q.phii
    BY <1>4, <1>7, <2>1 DEF AfterCases
  <2>3. \A u \in DOMAIN q.phii : \/ u \in DOMAIN r.phii /\ q.phii[u] = r.phii[u]
                                 \/ \E l \in 1..m : IsCase(i, l, u, q.phii[u])
    BY <1>5, <2>1 DEF AfterCases
  <2>4. QED
    BY <2>1, <2>2, <2>3 DEF AfterCases, q
<1>8. CASE ~(v \in p.def \/ IsLiteral(v))
  <2>1. \A l \in 1..m : IsLiteral(i.args[l]) \/ i.args[l] \in r.def \cup DOMAIN q.phii
    BY <1>3, <1>4, <1>8 DEF AfterCases
  <2>2. ASSUME NEW u \in DOMAIN q.phii
        PROVE  \/ u \in DOMAIN r.phii /\ q.phii[u] = r.phii[u]
               \/ \E l \in 1..m : IsCase(i, l, u, q.phii[u])
    <3>1. CASE u \in DOMAIN p.phii
      <4>1. q.phii[u] = p.phii[u]
        BY <1>3, <1>8, <3>1
      <4>2. \/ u \in DOMAIN r.phii /\ p.phii[u] = r.phii[u]
            \/ \E l \in 1..(m - 1) : IsCase(i, l, u, p.phii[u])
        BY <3>1 DEF AfterCases
      <4>3. QED
        BY <1>5, <4>1, <4>2
    <3>2. CASE u \notin DOMAIN p.phii
      <4>1. u = v /\ q.phii[u] = i.to[m]
        BY <1>3, <1>8, <3>2
      <4>2. IsCase(i, m, u, q.phii[u])
        BY <1>8, <4>1 DEF IsCase
      <4>3. QED
        BY <1>6, <4>2
    <3>3. QED
      BY <3>1, <3>2
  <2>3. /\ r.use \subseteq q.use /\ q.use \subseteq r.use \cup DOMAIN q.phii
        /\ DOMAIN r.phii \subseteq DOMAIN q.phii
    BY <1>3, <1>8 DEF AfterCases
  <2>4. q \in Readings(b) /\ q.def = r.def
    BY <1>3 DEF AfterCases
  <2>5. QED
    BY <2>1, <2>2, <2>3, <2>4 DEF AfterCases, q
<1>9. QED
  BY <1>7, <1>8

\* All the cases of a phi, one after the other, and then what it defines.
LEMMA GatherPhi ==
    ASSUME IsCode(func), NEW b \in Blocks(func), NEW r \in Readings(b),
           NEW i \in ToSet(func.code[b]), i.op = "phi"
    PROVE  \E q : /\ AfterCases(q, r, b, i, Len(i.args))
                  /\ Gather(r, i) = [q EXCEPT !.def =
                         IF Defines(i) /\ i.id \notin q.use THEN @ \cup {i.id} ELSE @]
<1> DEFINE N == Len(i.args)
           R == Readings(b)
           step == [x \in (1..N) \X R |-> AddCase(x[2], i, x[1])]
           Cases == CHOOSE F : F = [n \in 0..N |-> IF n = 0 THEN r ELSE AddCase(F[n - 1], i, n)]
<1>1. Gather(r, i) = [Cases[N] EXCEPT !.def =
                         IF Defines(i) /\ i.id \notin Cases[N].use THEN @ \cup {i.id} ELSE @]
  <2> DEFINE q == IF i.op = "phi" THEN Cases[N] ELSE [r EXCEPT !.use = @ \cup (UsedBy(i) \ r.def)]
  <2>1. Gather(r, i) = [q EXCEPT !.def = IF Defines(i) /\ i.id \notin q.use THEN @ \cup {i.id} ELSE @]
    BY Zenon DEF Gather
  <2>2. q = Cases[N]
    OBVIOUS
  <2> HIDE DEF q, Cases
  <2>3. QED
    BY <2>1, <2>2, Zenon
<1>2. DOMAIN i.args = 1..N /\ N \in Nat
  BY CodeFacts
<1>3. \A k \in 1..N, s \in R : AddCase(s, i, k) \in R
  BY <1>2, AddCaseIs
<1> HIDE DEF N, R, Cases
<1>4. r \in R /\ step \in [(1..N) \X R -> R]
  BY <1>3 DEF R
<1>5. PICK F : Runs(F, N, r, step) /\ \A k \in 0..N : F[k] \in R
  <2> HIDE DEF step
  <2>1. QED
    BY <1>2, <1>4, RunExists
<1>6. F = [n \in 0..N |-> IF n = 0 THEN r ELSE AddCase(F[n - 1], i, n)]
  <2>1. ASSUME NEW k \in 1..N
        PROVE  step[<<k, F[k - 1]>>] = AddCase(F[k - 1], i, k)
    <3>1. <<k, F[k - 1]>> \in (1..N) \X R
      BY <1>2, <1>5
    <3>2. step[<<k, F[k - 1]>>] = AddCase(<<k, F[k - 1]>>[2], i, <<k, F[k - 1]>>[1])
      BY <3>1, Zenon
    <3>3. <<k, F[k - 1]>>[2] = F[k - 1] /\ <<k, F[k - 1]>>[1] = k
      OBVIOUS
    <3> HIDE DEF step
    <3>4. QED
      BY <3>2, <3>3, Zenon
  <2> HIDE DEF step
  <2>2. F = [n \in 0..N |-> IF n = 0 THEN r ELSE step[<<n, F[n - 1]>>]]
    BY <1>5 DEF Runs
  <2>3. F = [n \in 0..N |-> F[n]]
    BY <2>2, Zenon
  <2>4. \A n \in 0..N : F[n] = IF n = 0 THEN r ELSE AddCase(F[n - 1], i, n)
    <3>1. \A n \in 0..N : n = 0 \/ n \in 1..N
      BY <1>2
    <3>2. \A n \in 0..N : F[n] = IF n = 0 THEN r ELSE step[<<n, F[n - 1]>>]
      BY <2>2, Zenon
    <3>3. QED
      BY <2>1, <3>1, <3>2, Zenon
  <2>5. QED
    BY <2>3, <2>4, Zenon
<1>7. Cases = [n \in 0..N |-> IF n = 0 THEN r ELSE AddCase(Cases[n - 1], i, n)]
  BY <1>6, Zenon DEF Cases
<1>8. \A n \in 0..N : Cases[n] = IF n = 0 THEN r ELSE AddCase(Cases[n - 1], i, n)
  BY <1>7, Zenon
<1>9. 0 \in 0..N /\ \A n \in 1..N : n \in 0..N /\ n # 0 /\ n - 1 \in 0..N
  BY <1>2
<1>10. Cases[0] = r /\ \A n \in 1..N : Cases[n] = AddCase(Cases[n - 1], i, n)
  BY <1>8, <1>9, Zenon
<1> DEFINE Good == {n \in 0..N : AfterCases(Cases[n], r, b, i, n)}
<1>11. 0 \in Good
  BY <1>9, <1>10 DEF AfterCases, R
<1>12. ASSUME NEW n \in 1..N, n - 1 \in Good
       PROVE  n \in Good
  <2>1. AfterCases(Cases[n - 1], r, b, i, n - 1)
    BY <1>12
  <2>2. AfterCases(AddCase(Cases[n - 1], i, n), r, b, i, n)
    BY <1>2, <2>1, CaseStep
  <2>3. QED
    BY <1>9, <1>10, <2>2
<1>13. AfterCases(Cases[N], r, b, i, N)
  <2> HIDE DEF Good
  <2>1. N \in Nat
    BY <1>2
  <2>2. 0..N \subseteq Good
    BY <2>1, <1>11, <1>12, UpTo
  <2>3. N \in Good
    BY <2>1, <2>2
  <2>4. QED
    BY <2>3 DEF Good
<1>14. QED
  BY <1>1, <1>13, Zenon DEF N

\* r is what Gather has read of the first k instructions of b.
HasRead(r, b, k) ==
    /\ r \in Readings(b)
    /\ r.def \subseteq Defined(b)
    /\ \A u \in r.def : \E j \in 1..k : func.code[b][j].id = u
    /\ \A j \in 1..k : Defines(func.code[b][j]) => func.code[b][j].id \in r.use \cup r.def
    /\ r.use \subseteq DOMAIN r.phii \cup Upward(b)
    /\ \A j \in 1..k : \A v \in UsedBy(func.code[b][j]) :
           func.code[b][j].op # "phi" /\ (\A l \in 1..(j - 1) : func.code[b][l].id # v)
               => v \in r.use
    /\ \A v \in DOMAIN r.phii : v \in PhiUses(b, r.phii[v])
    /\ \A i \in {func.code[b][j] : j \in 1..k} : i.op = "phi" =>
           \A m \in DOMAIN i.args :
               IsLiteral(i.args[m]) \/ i.args[m] \in DOMAIN r.phii \cup Defined(b)

\* What the cases of an instruction make of r, and its uses.
Used(q, r, b, i) ==
    /\ q \in Readings(b) /\ q.def = r.def
    /\ r.use \subseteq q.use
    /\ q.use \subseteq r.use \cup DOMAIN q.phii \cup (IF i.op = "phi" THEN {} ELSE UsedBy(i) \ r.def)
    /\ i.op # "phi" => UsedBy(i) \subseteq q.use \cup r.def
    /\ DOMAIN r.phii \subseteq DOMAIN q.phii
    /\ \A u \in DOMAIN q.phii : \/ u \in DOMAIN r.phii /\ q.phii[u] = r.phii[u]
                                \/ i.op = "phi" /\ \E l \in DOMAIN i.args : IsCase(i, l, u, q.phii[u])
    /\ i.op = "phi" =>
           \A l \in DOMAIN i.args : IsLiteral(i.args[l]) \/ i.args[l] \in r.def \cup DOMAIN q.phii

\* One instruction: its uses, then its definition.
LEMMA GatherIs ==
    ASSUME IsCode(func), NEW b \in Blocks(func), NEW r \in Readings(b),
           NEW i \in ToSet(func.code[b])
    PROVE  \E q : /\ Used(q, r, b, i)
                  /\ Gather(r, i) \in Readings(b)
                  /\ Gather(r, i).use = q.use /\ Gather(r, i).phii = q.phii
                  /\ Gather(r, i).def = IF Defines(i) /\ i.id \notin q.use
                                        THEN q.def \cup {i.id} ELSE q.def
<1>1. \E q : /\ Used(q, r, b, i)
             /\ Gather(r, i) = [q EXCEPT !.def =
                    IF Defines(i) /\ i.id \notin q.use THEN @ \cup {i.id} ELSE @]
  <2>1. CASE i.op = "phi"
    <3>1. PICK q : /\ AfterCases(q, r, b, i, Len(i.args))
                   /\ Gather(r, i) = [q EXCEPT !.def =
                         IF Defines(i) /\ i.id \notin q.use THEN @ \cup {i.id} ELSE @]
      BY <2>1, GatherPhi
    <3>2. DOMAIN i.args = 1..Len(i.args)
      BY CodeFacts
    <3>3. Used(q, r, b, i)
      BY <2>1, <3>1, <3>2 DEF Used, AfterCases
    <3>4. QED
      BY <3>1, <3>3
  <2>2. CASE i.op # "phi"
    <3> DEFINE q == [r EXCEPT !.use = @ \cup (UsedBy(i) \ r.def)]
    <3>1. Gather(r, i) = [q EXCEPT !.def =
                IF Defines(i) /\ i.id \notin q.use THEN @ \cup {i.id} ELSE @]
      BY <2>2, Zenon DEF Gather
    <3>2. UsedBy(i) \subseteq Names(b)
      BY CodeFacts
    <3>3. /\ q \in Readings(b) /\ q.def = r.def /\ q.phii = r.phii
          /\ q.use = r.use \cup (UsedBy(i) \ r.def)
      BY <3>2 DEF Readings
    <3> HIDE DEF q
    <3>4. Used(q, r, b, i)
      BY <2>2, <3>3 DEF Used
    <3>5. QED
      BY <3>1, <3>4
  <2>3. QED
    BY <2>1, <2>2
<1>2. PICK q : /\ Used(q, r, b, i)
               /\ Gather(r, i) = [q EXCEPT !.def =
                    IF Defines(i) /\ i.id \notin q.use THEN @ \cup {i.id} ELSE @]
  BY <1>1
<1>3. q \in Readings(b) /\ i.id \in Names(b)
  BY <1>2, CodeFacts DEF Used
<1>4. /\ Gather(r, i) \in Readings(b)
      /\ Gather(r, i).use = q.use /\ Gather(r, i).phii = q.phii
      /\ Gather(r, i).def = IF Defines(i) /\ i.id \notin q.use
                            THEN q.def \cup {i.id} ELSE q.def
  BY <1>2, <1>3 DEF Readings
<1>5. QED
  BY <1>2, <1>4

\* One more instruction.
LEMMA ReadStep ==
    ASSUME IsCode(func), NEW b \in Blocks(func), NEW k \in DOMAIN func.code[b],
           NEW r, HasRead(r, b, k - 1)
    PROVE  HasRead(Gather(r, func.code[b][k]), b, k)
<1> DEFINE c == func.code[b]
           i == c[k]
           g == Gather(r, i)
<1>1. /\ Len(c) \in Nat /\ DOMAIN c = 1..Len(c)
      /\ \A j \in DOMAIN c : c[j] \in ToSet(c)
  BY CodeFacts
<1>2. /\ k \in 1..k /\ \A j \in 1..k : j \in DOMAIN c /\ (j = k \/ j \in 1..(k - 1))
      /\ \A j \in 1..(k - 1) : j \in 1..k /\ j \in DOMAIN c
  BY <1>1
<1>3. r \in Readings(b) /\ i \in ToSet(c)
  BY <1>1 DEF HasRead
<1>4. PICK q : /\ Used(q, r, b, i)
               /\ g \in Readings(b)
               /\ g.use = q.use /\ g.phii = q.phii
               /\ g.def = IF Defines(i) /\ i.id \notin q.use THEN q.def \cup {i.id} ELSE q.def
  BY <1>3, GatherIs
<1> HIDE DEF g
<1>5. /\ g.def \subseteq Defined(b)
      /\ \A u \in g.def : \E j \in 1..k : c[j].id = u
      /\ \A j \in 1..k : Defines(c[j]) => c[j].id \in g.use \cup g.def
  <2>1. /\ r.def \subseteq Defined(b)
        /\ \A u \in r.def : \E j \in 1..(k - 1) : c[j].id = u
        /\ \A j \in 1..(k - 1) : Defines(c[j]) => c[j].id \in r.use \cup r.def
    BY DEF HasRead
  <2>2. q.def = r.def /\ r.use \subseteq q.use
    BY <1>4 DEF Used
  <2>3. Defines(i) => i.id \in Defined(b)
    BY <1>3 DEF Defined
  <2>4. QED
    BY <1>2, <1>4, <2>1, <2>2, <2>3
<1>6. g.use \subseteq DOMAIN g.phii \cup Upward(b)
  <2> SUFFICES ASSUME NEW u \in g.use, u \notin DOMAIN g.phii
               PROVE  u \in Upward(b)
    OBVIOUS
  <2>1. CASE u \in r.use
    BY <1>4, <2>1 DEF HasRead, Used
  <2>2. CASE u \notin r.use
    <3>1. i.op # "phi" /\ u \in UsedBy(i) /\ u \notin r.def
      BY <1>4, <2>2 DEF Used
    <3>2. ASSUME NEW j \in 1..(k - 1), c[j].id = u
          PROVE  FALSE
      <4>1. c[j] \in ToSet(c)
        BY <1>1, <1>2
      <4>2. Defines(c[j])
        BY <1>3, <3>1, <3>2, <4>1 DEF IsCode
      <4>3. u \in r.use \cup r.def
        BY <3>2, <4>2 DEF HasRead
      <4>4. QED
        BY <2>2, <3>1, <4>3
    <3>3. QED
      BY <3>1, <3>2 DEF Upward
  <2>3. QED
    BY <2>1, <2>2
<1>7. ASSUME NEW j \in 1..k, NEW v \in UsedBy(c[j]), c[j].op # "phi",
             \A l \in 1..(j - 1) : c[l].id # v
      PROVE  v \in g.use
  <2>1. r.use \subseteq g.use
    BY <1>4 DEF Used
  <2>2. CASE j = k
    <3>1. v \in q.use \cup r.def
      BY <1>4, <1>7, <2>2 DEF Used
    <3>2. v \notin r.def
      BY <1>7, <2>2 DEF HasRead
    <3>3. QED
      BY <1>4, <3>1, <3>2
  <2>3. CASE j \in 1..(k - 1)
    BY <1>7, <2>1, <2>3 DEF HasRead
  <2>4. QED
    BY <1>2, <2>2, <2>3
<1>8. \A v \in DOMAIN g.phii : v \in PhiUses(b, g.phii[v])
  <2> SUFFICES ASSUME NEW v \in DOMAIN g.phii
               PROVE  v \in PhiUses(b, g.phii[v])
    OBVIOUS
  <2>1. CASE v \in DOMAIN r.phii /\ g.phii[v] = r.phii[v]
    BY <2>1 DEF HasRead
  <2>2. ASSUME i.op = "phi", NEW l \in DOMAIN i.args, IsCase(i, l, v, g.phii[v])
        PROVE  v \in PhiUses(b, g.phii[v])
    <3>1. i \in {j \in ToSet(func.code[b]) : j.op = "phi"}
      BY <1>3, <2>2
    <3> HIDE DEF i
    <3>2. QED
      BY <2>2, <3>1 DEF PhiUses, IsCase
  <2>3. QED
    BY <1>4, <2>1, <2>2 DEF Used
<1>9. ASSUME NEW j \in 1..k, c[j].op = "phi", NEW m \in DOMAIN c[j].args
      PROVE  IsLiteral(c[j].args[m]) \/ c[j].args[m] \in DOMAIN g.phii \cup Defined(b)
  <2>1. DOMAIN r.phii \subseteq DOMAIN g.phii /\ r.def \subseteq Defined(b)
    BY <1>4 DEF Used, HasRead
  <2>2. CASE j = k
    BY <1>4, <1>9, <2>1, <2>2 DEF Used
  <2>3. CASE j \in 1..(k - 1)
    BY <1>9, <2>1, <2>3 DEF HasRead
  <2>4. QED
    BY <1>2, <2>2, <2>3
<1>10. QED
  <2>1. \A j \in {c[l] : l \in 1..k} : j.op = "phi" =>
           \A m \in DOMAIN j.args :
               IsLiteral(j.args[m]) \/ j.args[m] \in DOMAIN g.phii \cup Defined(b)
    BY <1>9
  <2> HIDE DEF c
  <2>2. QED
    BY <1>4, <1>5, <1>6, <1>7, <1>8, <2>1 DEF HasRead, c, g

\* Facts reads the whole block.
LEMMA FactsRead ==
    ASSUME IsCode(func), NEW b \in Blocks(func)
    PROVE  HasRead(Facts(b), b, Len(func.code[b]))
<1> DEFINE N == Len(func.code[b])
           R == Readings(b)
           none == [use |-> {}, def |-> {}, phii |-> << >>]
           step == [x \in (1..N) \X R |-> Gather(x[2], func.code[b][x[1]])]
           Gathered == CHOOSE F : F = [n \in 0..N |->
                           IF n = 0 THEN none ELSE Gather(F[n - 1], func.code[b][n])]
<1>1. Facts(b) = Gathered[N]
  BY Zenon DEF Facts
<1>2. /\ DOMAIN func.code[b] = 1..N /\ N \in Nat
      /\ \A k \in 1..N : func.code[b][k] \in ToSet(func.code[b])
  BY CodeFacts
<1>3. none \in R
  <2>1. << >> \in [{} -> Targets(b)]
    OBVIOUS
  <2>2. << >> \in Tables(b)
    BY <2>1 DEF Tables
  <2>3. QED
    BY <2>2 DEF Readings
<1>4. \A k \in 1..N, s \in R : Gather(s, func.code[b][k]) \in R
  BY <1>2, GatherIs
<1> HIDE DEF N, R, Gathered
<1>5. step \in [(1..N) \X R -> R]
  BY <1>4
<1>6. PICK F : Runs(F, N, none, step) /\ \A k \in 0..N : F[k] \in R
  <2> HIDE DEF step, none
  <2>1. QED
    BY <1>2, <1>3, <1>5, RunExists
<1>7. F = [n \in 0..N |-> IF n = 0 THEN none ELSE Gather(F[n - 1], func.code[b][n])]
  <2>1. ASSUME NEW k \in 1..N
        PROVE  step[<<k, F[k - 1]>>] = Gather(F[k - 1], func.code[b][k])
    <3>1. <<k, F[k - 1]>> \in (1..N) \X R
      BY <1>2, <1>6
    <3>2. step[<<k, F[k - 1]>>] = Gather(<<k, F[k - 1]>>[2], func.code[b][<<k, F[k - 1]>>[1]])
      BY <3>1, Zenon
    <3>3. <<k, F[k - 1]>>[2] = F[k - 1] /\ <<k, F[k - 1]>>[1] = k
      OBVIOUS
    <3> HIDE DEF step
    <3>4. QED
      BY <3>2, <3>3, Zenon
  <2> HIDE DEF step, none
  <2>2. F = [n \in 0..N |-> IF n = 0 THEN none ELSE step[<<n, F[n - 1]>>]]
    BY <1>6 DEF Runs
  <2>3. F = [n \in 0..N |-> F[n]]
    BY <2>2, Zenon
  <2>4. \A n \in 0..N : F[n] = IF n = 0 THEN none ELSE Gather(F[n - 1], func.code[b][n])
    <3>1. \A n \in 0..N : n = 0 \/ n \in 1..N
      BY <1>2
    <3>2. \A n \in 0..N : F[n] = IF n = 0 THEN none ELSE step[<<n, F[n - 1]>>]
      BY <2>2, Zenon
    <3>3. QED
      BY <2>1, <3>1, <3>2, Zenon
  <2>5. QED
    BY <2>3, <2>4, Zenon
<1> HIDE DEF none
<1>8. Gathered = [n \in 0..N |-> IF n = 0 THEN none ELSE Gather(Gathered[n - 1], func.code[b][n])]
  BY <1>7, Zenon DEF Gathered
<1>9. \A n \in 0..N : Gathered[n] = IF n = 0 THEN none ELSE Gather(Gathered[n - 1], func.code[b][n])
  BY <1>8, Zenon
<1>10. 0 \in 0..N /\ \A n \in 1..N : n \in 0..N /\ n # 0 /\ n - 1 \in 0..N
  BY <1>2
<1>11. Gathered[0] = none /\ \A n \in 1..N : Gathered[n] = Gather(Gathered[n - 1], func.code[b][n])
  BY <1>9, <1>10, Zenon
<1> DEFINE Good == {n \in 0..N : HasRead(Gathered[n], b, n)}
<1>12. 0 \in Good
  <2>1. none.use = {} /\ none.def = {} /\ DOMAIN none.phii = {}
    BY DEF none
  <2>2. HasRead(none, b, 0)
    BY <1>3, <2>1 DEF HasRead, R
  <2>3. QED
    BY <1>10, <1>11, <2>2
<1>13. ASSUME NEW n \in 1..N, n - 1 \in Good
       PROVE  n \in Good
  <2>1. HasRead(Gathered[n - 1], b, n - 1)
    BY <1>13
  <2>2. HasRead(Gather(Gathered[n - 1], func.code[b][n]), b, n)
    BY <1>2, <2>1, ReadStep
  <2>3. QED
    BY <1>10, <1>11, <2>2
<1>14. N \in Good
  <2> HIDE DEF Good
  <2>1. N \in Nat
    BY <1>2
  <2>2. 0..N \subseteq Good
    BY <2>1, <1>12, <1>13, UpTo
  <2>3. QED
    BY <2>1, <2>2
<1>15. QED
  BY <1>1, <1>14 DEF N

\* What Facts finds: with it the equations of the code can be compared to those
\* of the manual.
LEMMA FactsAre ==
    ASSUME IsCode(func), NEW b \in Blocks(func)
    PROVE  LET r == Facts(b)
           IN  /\ Upward(b) \subseteq r.use
               /\ r.use \subseteq DOMAIN r.phii \cup Upward(b)
               /\ r.def \subseteq Defined(b)
               /\ Defined(b) \subseteq r.use \cup r.def
               /\ \A v \in DOMAIN r.phii : v \in PhiUses(b, r.phii[v])
               /\ \A p : PhiUses(b, p) \subseteq DOMAIN r.phii \cup Defined(b)
<1> DEFINE r == Facts(b)
           c == func.code[b]
<1>1. HasRead(r, b, Len(c))
  BY FactsRead
<1>2. DOMAIN c = 1..Len(c) /\ Len(c) \in Nat
  BY CodeFacts
<1> HIDE DEF r
<1>3. Upward(b) \subseteq r.use
  BY <1>1, <1>2 DEF HasRead, Upward
<1>4. Defined(b) \subseteq r.use \cup r.def
  <2> SUFFICES ASSUME NEW i \in ToSet(c), Defines(i)
               PROVE  i.id \in r.use \cup r.def
    BY DEF Defined
  <2>1. PICK j \in DOMAIN c : c[j] = i
    BY DEF ToSet
  <2>2. QED
    BY <1>1, <1>2, <2>1 DEF HasRead
<1>5. ASSUME NEW p, NEW v \in PhiUses(b, p)
      PROVE  v \in DOMAIN r.phii \cup Defined(b)
  <2>1. PICK i \in ToSet(c) : i.op = "phi" /\ \E m \in DOMAIN i.args : v = i.args[m] /\ ~IsLiteral(v)
    BY <1>5 DEF PhiUses
  <2>2. i \in {c[j] : j \in 1..Len(c)}
    BY <1>2 DEF ToSet
  <2>3. QED
    BY <1>1, <2>1, <2>2 DEF HasRead
<1>6. QED
  BY <1>1, <1>3, <1>4, <1>5 DEF HasRead, r

-----------------------------------------------------------------------------
(* The least solution of the equations of the manual.                      *)

\* The right-hand side of the manual's equation.
Backward(live, b) == Upward(b) \cup (OutOf(live, b) \ Defined(b))

\* What is used in the function.
ValuesUsed == UNION {UsedBy(i) : i \in UNION {ToSet(func.code[b]) : b \in Blocks(func)}}

LEMMA ElementsFinite ==
    ASSUME NEW s, IsSequence(s)
    PROVE  IsFiniteSet(ToSet(s))
<1>1. DOMAIN s = 1..Len(s) /\ Len(s) \in Nat
  BY LenProperties DEF IsSequence
<1>2. IsFiniteSet(1..Len(s))
  <2>1. 1 \in Int /\ Len(s) \in Int
    BY <1>1
  <2>2. QED
    BY <2>1, FS_Interval, Zenon
<1>3. ToSet(s) = {s[k] : k \in DOMAIN s}
  BY DEF ToSet
<1>4. QED
  BY <1>1, <1>2, <1>3, ValuesFinite

LEMMA ValuesAreFinite ==
    ASSUME IsCode(func), IsGraph(func)
    PROVE  IsFiniteSet(Blocks(func)) /\ IsFiniteSet(ValuesUsed)
<1>1. IsFiniteSet(Blocks(func))
  <2>1. PICK n \in Nat : Blocks(func) = 1..n
    BY BlocksNumbered
  <2>2. 1 \in Int /\ n \in Int
    OBVIOUS
  <2>3. QED
    BY <2>1, <2>2, FS_Interval, Zenon
<1> DEFINE F == [b \in Blocks(func) |-> ToSet(func.code[b])]
           All == UNION {F[b] : b \in Blocks(func)}
           G == [i \in All |-> UsedBy(i)]
<1>2. \A b \in Blocks(func) : IsFiniteSet(ToSet(func.code[b]))
  BY ElementsFinite DEF IsCode
<1>3. \A T \in {F[b] : b \in Blocks(func)} : IsFiniteSet(T)
  BY <1>2
<1>4. IsFiniteSet({F[b] : b \in Blocks(func)})
  <2> DEFINE H == F
  <2>1. DOMAIN H = Blocks(func)
    OBVIOUS
  <2> HIDE DEF H
  <2>2. IsFiniteSet({H[b] : b \in Blocks(func)})
    BY <1>1, <2>1, ValuesFinite
  <2>3. QED
    BY <2>2 DEF H
<1>5. IsFiniteSet(All)
  <2> HIDE DEF F
  <2>1. QED
    BY <1>3, <1>4, FS_UNION
<1>6. All = UNION {ToSet(func.code[b]) : b \in Blocks(func)}
  OBVIOUS
<1>7. ASSUME NEW i \in All
      PROVE  IsFiniteSet(UsedBy(i))
  <2>1. PICK b \in Blocks(func) : i \in ToSet(func.code[b])
    BY <1>6
  <2>2. IsFiniteSet(ToSet(i.args))
    BY <2>1, ElementsFinite DEF IsCode
  <2>3. UsedBy(i) \subseteq ToSet(i.args) \cup {i.var}
    BY DEF UsedBy
  <2>4. IsFiniteSet(ToSet(i.args) \cup {i.var})
    BY <2>2, FS_AddElement
  <2>5. QED
    BY <2>3, <2>4, FS_Subset
<1> HIDE DEF F, All
<1>8. \A T \in {G[i] : i \in All} : IsFiniteSet(T)
  BY <1>7
<1>9. IsFiniteSet({G[i] : i \in All})
  <2> DEFINE H == G
  <2>1. DOMAIN H = All
    OBVIOUS
  <2> HIDE DEF H
  <2>2. IsFiniteSet({H[i] : i \in All})
    BY <1>5, <2>1, ValuesFinite
  <2>3. QED
    BY <2>2 DEF H
<1>10. IsFiniteSet(UNION {G[i] : i \in All})
  <2> HIDE DEF G
  <2>1. QED
    BY <1>8, <1>9, FS_UNION
<1>11. ValuesUsed = UNION {G[i] : i \in All}
  BY <1>6 DEF ValuesUsed
<1>12. QED
  BY <1>1, <1>10, <1>11

\* What is used upwards or in a phi is used.
LEMMA UsesAreValues ==
    ASSUME NEW b \in Blocks(func), IsCode(func)
    PROVE  /\ Upward(b) \subseteq ValuesUsed
           /\ \A p : PhiUses(b, p) \subseteq ValuesUsed
<1>1. Upward(b) \subseteq ValuesUsed
  <2>1. \A k \in DOMAIN func.code[b] : UsedBy(func.code[b][k]) \subseteq ValuesUsed
    BY CodeFacts DEF ValuesUsed
  <2>2. QED
    BY <2>1 DEF Upward
<1>2. ASSUME NEW p, NEW v \in PhiUses(b, p)
      PROVE  v \in ValuesUsed
  <2>1. PICK i \in ToSet(func.code[b]) : \E m \in DOMAIN i.args : v = i.args[m] /\ ~IsLiteral(v)
    BY <1>2 DEF PhiUses
  <2>2. v \in UsedBy(i)
    BY <2>1 DEF UsedBy, ToSet
  <2>3. QED
    BY <2>2 DEF ValuesUsed
<1>3. QED
  BY <1>1, <1>2

\* The search finds a solution of the manual's equations, and the least one.
LEMMA LeastInIs ==
    ASSUME IsCode(func), IsGraph(func)
    PROVE  /\ \A b \in Blocks(func) : Backward(LeastIn, b) \subseteq LeastIn[b]
           /\ \A X : (\A b \in Blocks(func) : Backward(X, b) \subseteq X[b])
                         => \A b \in Blocks(func) : LeastIn[b] \subseteq X[b]
<1> DEFINE P == Blocks(func) \X ValuesUsed
           nowhere == [b \in Blocks(func) |-> {}]
           Before(x) == {<<b, x[2]>> : b \in {c \in Blocks(func) : /\ x[1] \in Succ(func, c)
                                                                  /\ x[2] \notin Defined(c)}}
           next == [x \in P |-> Before(x)]
           Back == CHOOSE R : R = [S \in SUBSET P |->
                       LET T == S \cup UNION {Before(x) : x \in S}
                       IN  IF T = S THEN S ELSE R[T]]
           start == {x \in P : x[2] \in Backward(nowhere, x[1])}
           L == Back[start]
<1>1. LeastIn = [b \in Blocks(func) |-> {v \in ValuesUsed : <<b, v>> \in L}]
  BY Zenon DEF LeastIn, ValuesUsed, Backward
<1>2. IsFiniteSet(P)
  BY ValuesAreFinite, FS_Product
<1>3. next \in [P -> SUBSET P]
  <2>1. \A x \in P : Before(x) \in SUBSET P
    OBVIOUS
  <2> HIDE DEF P
  <2>2. QED
    BY <2>1
<1>4. \A Q : Searches(Q, P, next, {}) <=>
          Q = [S \in SUBSET P |->
                   LET T == S \cup UNION {Before(x) : x \in S}
                   IN  IF T = S THEN S ELSE Q[T]]
  <2>1. \A S \in SUBSET P : Grown(S, next, {}) = S \cup UNION {Before(x) : x \in S}
    <3> SUFFICES ASSUME NEW S \in SUBSET P
                 PROVE  Grown(S, next, {}) = S \cup UNION {Before(x) : x \in S}
      OBVIOUS
    <3>1. \A x \in S : next[x] = Before(x)
      OBVIOUS
    <3> HIDE DEF next, Before, P
    <3>2. {next[x] : x \in S} = {Before(x) : x \in S}
      BY <3>1
    <3>3. QED
      BY <3>2 DEF Grown
  <2> HIDE DEF next, P
  <2>2. QED
    BY <2>1 DEF Searches
<1>5. Searches(Back, P, next, {})
  <2> HIDE DEF P, next
  <2>1. \E Q : Searches(Q, P, next, {})
    BY <1>3, SearchExists
  <2>2. QED
    BY <1>4, <2>1
<1>6. start \in SUBSET (P \ {})
  OBVIOUS
<1> DEFINE Lst == Least(start, P, next, {})
<1> HIDE DEF Back, start
<1>7. L = Lst
  <2> HIDE DEF P, next
  <2>1. QED
    BY <1>2, <1>3, <1>5, <1>6, SearchFindsLeast
<1>8. start \subseteq L /\ Closed(L, next, {})
  <2> HIDE DEF P, next
  <2>1. start \in SUBSET P
    BY <1>6
  <2> HIDE DEF L
  <2>2. start \subseteq Lst /\ Closed(Lst, next, {})
    BY <1>3, <2>1, LeastFacts
  <2> HIDE DEF Lst
  <2>3. QED
    BY <1>7, <2>2
<1>9. ASSUME NEW C \in SUBSET P, start \subseteq C, Closed(C, next, {})
      PROVE  L \subseteq C
  BY <1>7, <1>9 DEF Least
<1> HIDE DEF L, Lst
<1>10. L \subseteq P
  BY <1>7 DEF Least, Lst
<1>11. ASSUME NEW b \in Blocks(func), NEW v \in Backward(LeastIn, b)
       PROVE  v \in LeastIn[b]
  <2>1. CASE v \in Backward(nowhere, b)
    <3>1. v \in ValuesUsed
      BY <2>1, UsesAreValues DEF Backward, OutOf, IsGraph
    <3>2. <<b, v>> \in start
      BY <2>1, <3>1 DEF start
    <3>3. QED
      BY <1>1, <1>8, <3>1, <3>2
  <2>2. CASE v \notin Backward(nowhere, b)
    <3>1. v \notin Defined(b) /\ v \in OutOf(LeastIn, b)
      BY <1>11, <2>2 DEF Backward
    <3>2. PICK s \in Succ(func, b) : v \in LeastIn[s] \cup PhiUses(s, b)
      BY <3>1 DEF OutOf
    <3>3. s \in Blocks(func)
      BY <3>2 DEF IsGraph
    <3>4. v \notin PhiUses(s, b)
      BY <2>2, <3>1, <3>2 DEF Backward, OutOf
    <3>5. v \in ValuesUsed /\ <<s, v>> \in L
      BY <1>1, <3>2, <3>3, <3>4
    <3>6. <<b, v>> \in Before(<<s, v>>)
      BY <3>1, <3>2
    <3>7. next[<<s, v>>] = Before(<<s, v>>)
      BY <3>3, <3>5
    <3> HIDE DEF next, Before
    <3>8. <<b, v>> \in L
      BY <1>8, <3>5, <3>6, <3>7 DEF Closed
    <3>9. QED
      BY <1>1, <3>5, <3>8
  <2>3. QED
    BY <2>1, <2>2
<1>12. ASSUME NEW X, \A b \in Blocks(func) : Backward(X, b) \subseteq X[b],
              NEW b \in Blocks(func), NEW v \in LeastIn[b]
       PROVE  v \in X[b]
  <2> DEFINE C == {x \in P : x[2] \in X[x[1]]}
  <2>1. start \subseteq C
    <3>1. \A c \in Blocks(func) : Backward(nowhere, c) \subseteq Backward(X, c)
      BY DEF Backward, OutOf, IsGraph
    <3>2. \A c \in Blocks(func) : Backward(nowhere, c) \subseteq X[c]
      BY <1>12, <3>1
    <3> HIDE DEF nowhere
    <3>3. QED
      BY <3>2 DEF start
  <2>2. Closed(C, next, {})
    <3> SUFFICES ASSUME NEW x \in C
                 PROVE  Before(x) \subseteq C
      BY DEF Closed
    <3> SUFFICES ASSUME NEW c \in Blocks(func), x[1] \in Succ(func, c), x[2] \notin Defined(c)
                 PROVE  <<c, x[2]>> \in C
      OBVIOUS
    <3>1. x[2] \in OutOf(X, c)
      BY DEF OutOf
    <3>2. x[2] \in X[c]
      BY <1>12, <3>1 DEF Backward
    <3>3. QED
      BY <3>2
  <2>3. <<b, v>> \in L
    BY <1>1, <1>12
  <2> HIDE DEF next
  <2>4. L \subseteq C
    BY <1>9, <2>1, <2>2
  <2>5. QED
    BY <2>3, <2>4
<1>13. QED
  BY <1>11, <1>12

-----------------------------------------------------------------------------
(* The two compared.                                                        *)

\* What the pass has read is what Facts finds.
FactsRight == facts = [b \in Blocks(func) |-> Facts(b)]

\* What is live at an end for the code is live there for the manual: adding the
\* values of the phis to its solution gives one that contains the code's.
LEMMA NoneTooMany ==
    ASSUME IsCode(func), IsGraph(func), FactsRight,
           \A b \in Blocks(func) : SolvedAt(b),
           \A live : ClosedUnder(live) => \A b \in Blocks(func) : live_in[b] \subseteq live[b]
    PROVE  \A b \in Blocks(func) : live_out[b] \subseteq OutOf(LeastIn, b)
<1> DEFINE live == LeastIn
           more == [b \in Blocks(func) |-> live[b] \cup DOMAIN facts[b].phii]
<1>1. \A b \in Blocks(func) :
         /\ facts[b].use \subseteq DOMAIN facts[b].phii \cup Upward(b)
         /\ Defined(b) \subseteq facts[b].use \cup facts[b].def
         /\ \A v \in DOMAIN facts[b].phii : v \in PhiUses(b, facts[b].phii[v])
  BY FactsAre DEF FactsRight
<1>2. \A b \in Blocks(func) : Upward(b) \cup (OutOf(live, b) \ Defined(b)) \subseteq live[b]
  BY LeastInIs DEF Backward
<1>3. \A b \in Blocks(func) : Succ(func, b) \subseteq Blocks(func)
  BY DEF IsGraph
<1> HIDE DEF live
<1>4. ASSUME NEW b \in Blocks(func), NEW v \in LiveOut(more, b)
      PROVE  v \in OutOf(live, b)
  <2>1. PICK s \in Succ(func, b) :
           v \in (more[s] \ DOMAIN facts[s].phii) \cup {u \in DOMAIN facts[s].phii : facts[s].phii[u] = b}
    BY <1>4 DEF LiveOut
  <2>2. s \in Blocks(func)
    BY <1>3
  <2>3. v \in live[s] \cup PhiUses(s, b)
    BY <1>1, <2>1, <2>2
  <2>4. QED
    BY <2>3 DEF OutOf
<1>5. ClosedUnder(more)
  <2> SUFFICES ASSUME NEW b \in Blocks(func), NEW v \in LiveIn(more, b)
               PROVE  v \in more[b]
    BY DEF ClosedUnder
  <2>1. v \in facts[b].use \/ (v \in LiveOut(more, b) /\ v \notin facts[b].def)
    BY DEF LiveIn
  <2>2. v \in facts[b].use \/ v \in OutOf(live, b) \ Defined(b)
    BY <1>1, <1>4, <2>1
  <2>3. QED
    BY <1>1, <1>2, <2>2
<1>6. \A b \in Blocks(func) : live_in[b] \subseteq more[b]
  BY <1>5
<1> HIDE DEF more
<1>7. ASSUME NEW b \in Blocks(func)
      PROVE  live_out[b] \subseteq OutOf(live, b)
  <2>1. LiveOut(live_in, b) \subseteq LiveOut(more, b)
    BY <1>6, LiveOutMonotone
  <2>2. QED
    BY <1>4, <2>1 DEF SolvedAt
<1>8. QED
  BY <1>7 DEF live

\* Where no values of phis collide, none is missing: what is live for the code
\* and no value of a phi solves the equations of the manual.
LEMMA NoneMissing ==
    ASSUME IsCode(func), IsGraph(func), FactsRight,
           \A b \in Blocks(func) : SolvedAt(b),
           \A s \in Blocks(func) : ~PhiClash(LeastIn, s)
    PROVE  \A b \in Blocks(func) : OutOf(LeastIn, b) \subseteq live_out[b]
<1> DEFINE live == LeastIn
           less == [b \in Blocks(func) |-> {v \in live[b] : v \in live_in[b] /\ v \notin DOMAIN facts[b].phii}]
<1>1. \A b \in Blocks(func) :
         /\ Upward(b) \subseteq facts[b].use
         /\ facts[b].def \subseteq Defined(b)
         /\ \A v \in DOMAIN facts[b].phii : v \in PhiUses(b, facts[b].phii[v])
         /\ \A p : PhiUses(b, p) \subseteq DOMAIN facts[b].phii \cup Defined(b)
  BY FactsAre DEF FactsRight
<1>2. \A b \in Blocks(func) : Upward(b) \cup (OutOf(live, b) \ Defined(b)) \subseteq live[b]
  BY LeastInIs DEF Backward
<1>3. \A b \in Blocks(func) : Succ(func, b) \subseteq Blocks(func)
  BY DEF IsGraph
<1>4. ASSUME NEW s \in Blocks(func), NEW p, NEW v \in PhiUses(s, p)
      PROVE  p \in Pre(func, s)
  <2>1. PICK i \in ToSet(func.code[s]) : i.op = "phi" /\ \E m \in DOMAIN i.args : i.to[m] = p
    BY <1>4 DEF PhiUses
  <2>2. QED
    BY <2>1, CodeFacts
<1>5. \A s \in Blocks(func) :
         /\ \A p, q \in Pre(func, s) : p # q => PhiUses(s, p) \cap PhiUses(s, q) = {}
         /\ \A p \in Pre(func, s) : PhiUses(s, p) \cap (live[s] \cup Defined(s)) = {}
  BY DEF PhiClash
<1> HIDE DEF live
<1>6. ASSUME NEW s \in Blocks(func)
      PROVE  DOMAIN facts[s].phii \cap live[s] = {}
  BY <1>1, <1>4, <1>5
<1>7. ASSUME NEW s \in Blocks(func), NEW b, NEW v \in PhiUses(s, b)
      PROVE  v \in DOMAIN facts[s].phii /\ facts[s].phii[v] = b
  <2>1. b \in Pre(func, s)
    BY <1>4, <1>7
  <2>2. v \notin Defined(s)
    BY <1>5, <1>7, <2>1
  <2>3. v \in DOMAIN facts[s].phii
    BY <1>1, <1>7, <2>2
  <2>4. v \in PhiUses(s, facts[s].phii[v])
    BY <1>1, <2>3
  <2>5. facts[s].phii[v] \in Pre(func, s)
    BY <1>4, <2>4
  <2>6. QED
    BY <1>5, <1>7, <2>1, <2>3, <2>4, <2>5
<1>8. ASSUME NEW b \in Blocks(func)
      PROVE  OutOf(less, b) \subseteq live_out[b]
  <2> SUFFICES ASSUME NEW s \in Succ(func, b), NEW v \in less[s] \cup PhiUses(s, b)
               PROVE  v \in LiveOut(live_in, b)
    BY DEF OutOf, SolvedAt
  <2>1. s \in Blocks(func)
    BY <1>3
  <2>2. v \in (live_in[s] \ DOMAIN facts[s].phii) \cup {u \in DOMAIN facts[s].phii : facts[s].phii[u] = b}
    BY <1>7, <2>1
  <2>3. QED
    BY <2>2 DEF LiveOut
<1>9. ASSUME NEW b \in Blocks(func)
      PROVE  Backward(less, b) \subseteq less[b]
  <2> SUFFICES ASSUME NEW v \in Backward(less, b)
               PROVE  v \in less[b]
    OBVIOUS
  <2>1. OutOf(less, b) \subseteq OutOf(live, b)
    BY <1>3 DEF OutOf
  <2>2. v \in live[b]
    BY <1>2, <2>1 DEF Backward
  <2>3. v \in live_in[b]
    <3>1. live_in[b] = facts[b].use \cup (live_out[b] \ facts[b].def)
      BY DEF SolvedAt, LiveIn
    <3>2. v \in Upward(b) \/ (v \in OutOf(less, b) /\ v \notin Defined(b))
      BY DEF Backward
    <3> HIDE DEF less
    <3>3. QED
      BY <1>1, <1>8, <3>1, <3>2
  <2>4. v \notin DOMAIN facts[b].phii
    BY <1>6, <2>2
  <2>5. QED
    BY <2>2, <2>3, <2>4
<1>10. \A b \in Blocks(func) : live[b] \subseteq less[b]
  <2> HIDE DEF less
  <2>1. QED
    BY <1>9, LeastInIs DEF live
<1> HIDE DEF less
<1>11. ASSUME NEW b \in Blocks(func)
       PROVE  OutOf(live, b) \subseteq live_out[b]
  <2>1. OutOf(live, b) \subseteq OutOf(less, b)
    BY <1>3, <1>10 DEF OutOf
  <2>2. QED
    BY <1>8, <2>1
<1>12. QED
  BY <1>11 DEF live

\* What the pass relies on, and what it has read.
CodeInv == IsCode(func) /\ (active # "idle" => FactsRight)

\* The facts are read once, and the function stays.
LEMMA StepCodeInv ==
    CodeInv /\ [ActiveStep]_<<func, activevars>> => CodeInv'
<1> SUFFICES ASSUME CodeInv, [ActiveStep]_<<func, activevars>>
             PROVE  CodeInv'
  OBVIOUS
<1>1. func' = func
  BY DEF activevars, ActiveStep, Iterate, StartActive, NextLiveRound, VisitLive, EndActive
<1>2. IsCode(func')
  BY <1>1 DEF CodeInv
<1>3. \A b : Facts(b)' = Facts(b)
  BY <1>1, Zenon DEF Facts
<1>4. CASE StartActive
  <2>1. facts' = [b \in Blocks(func) |-> Facts(b)]
    BY <1>4 DEF StartActive
  <2>2. FactsRight'
    BY <1>1, <1>3, <2>1, Zenon DEF FactsRight
  <2>3. QED
    BY <1>2, <2>2 DEF CodeInv
<1>5. CASE Iterate \/ UNCHANGED <<func, activevars>>
  <2>1. facts' = facts /\ (active' # "idle" => active # "idle")
    BY <1>5 DEF activevars, Iterate, NextLiveRound, VisitLive, EndActive
  <2>2. FactsRight => FactsRight'
    BY <1>1, <1>3, <2>1, Zenon DEF FactsRight
  <2>3. QED
    BY <1>2, <2>1, <2>2 DEF CodeInv
<1>6. QED
  BY <1>4, <1>5 DEF ActiveStep

\* What the pass ends with.
LEMMA SolvedIsExact ==
    ASSUME ActiveInv, CodeInv
    PROVE  LiveOutExact
<1> SUFFICES ASSUME active = "done"
             PROVE  LiveOutExact
  BY DEF LiveOutExact
<1>1. /\ IsCode(func) /\ IsGraph(func) /\ FactsRight
      /\ \A b \in Blocks(func) : SolvedAt(b)
      /\ \A live : ClosedUnder(live) => \A b \in Blocks(func) : live_in[b] \subseteq live[b]
  BY DEF CodeInv, ActiveInv, RoundInv, SetsInv
<1>2. \A b \in Blocks(func) : live_out[b] \subseteq OutOf(LeastIn, b)
  BY <1>1, NoneTooMany
<1>3. ASSUME \A s \in Blocks(func) : ~PhiClash(LeastIn, s), NEW b \in Blocks(func)
      PROVE  live_out[b] = OutOf(LeastIn, b)
  <2>1. OutOf(LeastIn, b) \subseteq live_out[b]
    BY <1>1, <1>3, NoneMissing
  <2>2. QED
    BY <1>2, <2>1
<1>4. QED
  BY <1>2, <1>3 DEF LiveOutExact

\* On any code, live_out has no value too many, and where no values of phis
\* collide it is exactly the least solution of the equations of the manual.
THEOREM LiveOutIsExact == ActiveSpec /\ IsCode(func) => []LiveOutExact
<1>1. ActiveInv /\ CodeInv => LiveOutExact
  BY SolvedIsExact
<1>2. InitActive /\ IsGraph(func) => ActiveInv
  BY InitActiveInv
<1>3. ActiveInv /\ [ActiveStep]_<<func, activevars>> => ActiveInv'
  BY StepActiveInv
<1>4. InitActive /\ IsCode(func) => CodeInv
  BY DEF InitActive, CodeInv
<1>5. QED
  BY <1>1, <1>2, <1>3, <1>4, StepCodeInv, PTL DEF ActiveSpec

-----------------------------------------------------------------------------
(* What the pass is given is code: the visitor's functions.                *)

\* A sequence over some set is one over its own elements.
LEMMA SequenceIs ==
    ASSUME NEW T, NEW s \in Seq(T)
    PROVE  IsSequence(s) /\ ToSet(s) \subseteq T
<1>1. PICK n \in Nat : s \in [1..n -> T]
  BY SeqDef
<1>2. \A k \in 1..n : s[k] \in ToSet(s) /\ s[k] \in T
  BY <1>1 DEF ToSet
<1>3. s \in [1..n -> ToSet(s)]
  BY <1>1, <1>2
<1>4. IsSequence(s)
  BY <1>3, SeqDef DEF IsSequence
<1>5. QED
  BY <1>1, <1>4 DEF ToSet

\* A consistent function of the visitor's is a graph.
LEMMA WellFormedIsGraph ==
    ASSUME NEW f, WellFormed(f)
    PROVE  IsGraph(f)
<1>1. f.code \in Seq(Seq(Instructions))
  BY BlocksFacts
<1>2. \A b \in Blocks(f) : Succ(f, b) \subseteq Blocks(f)
  BY DEF WellFormed, Succ
<1>3. QED
  BY <1>1, <1>2, SequenceIs DEF IsGraph

\* A store, a branch or a return is no value.
LEMMA NoSuchValue ==
    ASSUME NEW f, WellFormed(f), NEW b \in Blocks(f), NEW k \in DOMAIN f.code[b],
           ~Defines(f.code[b][k]), NEW v, HasValue(f, v)
    PROVE  f.code[b][k].id # v
<1>1. f.code[b][k].id = <<b, k>> /\ b \in 1..Len(f.code) /\ Len(f.code) \in Nat
  BY BlocksFacts DEF WellFormed
<1>2. SUFFICES ASSUME v = <<b, k>>
              PROVE  FALSE
  BY <1>1
<1>3. IsInstruction(v)
  BY <1>1, <1>2 DEF IsInstruction
<1>4. QED
  BY <1>2, <1>3 DEF HasValue, Defines

\* The address of a load or a store is the place of an alloca or of a gep.
LEMMA AddressHasValue ==
    ASSUME NEW f, NEW b \in Blocks(f), NEW k \in DOMAIN f.code[b],
           AccessRight(f, b, k, f.code[b][k]), f.code[b][k].op \in {"load", "store"}
    PROVE  HasValue(f, f.code[b][k].var)
<1>1. CASE f.code[b][k].var = Global
  BY <1>1, LiteralHasValue
<1>2. CASE f.code[b][k].var # Global
  <2>1. IsAddress(f, f.code[b][k].var)
    BY <1>2 DEF AccessRight
  <2>2. QED
    BY <2>1 DEF IsAddress, HasValue
<1>3. QED
  BY <1>1, <1>2

\* What the visitor makes is code.
LEMMA BuiltIsCode ==
    ASSUME NEW f, Consistent(f), Accesses(f)
    PROVE  IsCode(f)
<1>1. WellFormed(f) /\ IsGraph(f)
  BY WellFormedIsGraph DEF Consistent
<1>2. ASSUME NEW b \in Blocks(f), NEW s \in Succ(f, b)
      PROVE  b \in Pre(f, s)
  <2>1. s \in Blocks(f)
    BY <1>1 DEF IsGraph
  <2>2. QED
    BY <2>1, PredecessorsAre
<1>3. ASSUME NEW b \in Blocks(f), NEW j \in ToSet(f.code[b])
      PROVE  /\ j.op # "phi" /\ IsSequence(j.args)
             /\ \A v \in UsedBy(j) : HasValue(f, v)
  <2>1. PICK k \in DOMAIN f.code[b] : j = f.code[b][k]
    BY DEF ToSet
  <2>2. AccessRight(f, b, k, j)
    BY <2>1 DEF Accesses
  <2>3. j \in Instructions
    <3>1. f.code[b] \in Seq(Instructions)
      BY <1>1, BlocksFacts, ElementOfSeq
    <3>2. QED
      BY <2>1, <3>1, ElementOfSeq
  <2>4. IsSequence(j.args)
    BY <2>3, SequenceIs DEF Instructions
  <2>5. \A v \in UsedBy(j) : HasValue(f, v)
    BY <2>1, <2>2, AddressHasValue DEF UsedBy, AccessRight
  <2>6. QED
    BY <2>2, <2>4, <2>5 DEF AccessRight
<1>4. ASSUME NEW b \in Blocks(f), NEW i \in ToSet(f.code[b]), ~Defines(i),
             NEW j \in ToSet(f.code[b])
      PROVE  i.id \notin UsedBy(j)
  <2>1. PICK k \in DOMAIN f.code[b] : i = f.code[b][k]
    BY DEF ToSet
  <2>2. QED
    BY <1>1, <1>3, <1>4, <2>1, NoSuchValue
<1>5. ASSUME NEW b \in Blocks(f)
      PROVE  IsSequence(f.code[b])
  <2>1. f.code[b] \in Seq(Instructions)
    BY <1>1, BlocksFacts, ElementOfSeq
  <2>2. QED
    BY <2>1, SequenceIs
<1>6. QED
  BY <1>1, <1>2, <1>3, <1>4, <1>5 DEF IsCode

-----------------------------------------------------------------------------
(* What Mem2Reg leaves.                                                    *)

\* An operand of its code: a phi, or what was one before the pass.
IsOperand(v) == v \in PhiPlaces \/ HasValue(func, v)

\* A value on a stack stands for an operand.
LEMMA StoredIsOperand ==
    ASSUME Sound(func), NEW v \in Values
    PROVE  IsOperand(Stored(v))
<1>1. CASE v \in PhiPlaces
  <2>1. v \notin PlacesOf(func)
    BY <1>1, PlaceIs, TripleNoPair DEF PhiPlaces, PhiOf
  <2>2. QED
    BY <1>1, <2>1 DEF Stored, IsOperand
<1>2. CASE v \in PlacesOf(func) /\ InstrAt(v).op \notin {"br", "ret"}
  <2>1. PICK b \in Blocks(func) : \E k \in DOMAIN func.code[b] : v = <<b, k>>
    BY <1>2, PlaceIs
  <2>2. PICK k \in DOMAIN func.code[b] : v = <<b, k>>
    BY <2>1
  <2>3. InstrAt(v) = func.code[b][k] /\ AccessRight(func, b, k, func.code[b][k])
    BY <2>2 DEF InstrAt, Sound, Accesses
  <2>4. CASE InstrAt(v).op = "store"
    <3>1. Len(func.code[b][k].args) = 1 /\ \A w \in ToSet(func.code[b][k].args) : HasValue(func, w)
      BY <2>3, <2>4 DEF AccessRight
    <3>2. func.code[b][k].args \in Seq(Operands)
      <4>1. func.code[b] \in Seq(Instructions)
        BY SoundFacts
      <4>2. func.code[b][k] \in Instructions
        BY <4>1, ElementOfSeq
      <4>3. QED
        BY <4>2 DEF Instructions
    <3>3. 1 \in DOMAIN func.code[b][k].args
      BY <3>1, <3>2, LenProperties
    <3>4. func.code[b][k].args[1] \in ToSet(func.code[b][k].args)
      BY <3>3 DEF ToSet
    <3>5. QED
      BY <1>2, <2>3, <2>4, <3>1, <3>4 DEF Stored, IsOperand
  <2>5. CASE InstrAt(v).op # "store"
    <3>1. Stored(v) = v
      BY <2>5 DEF Stored
    <3>2. v[1] = b /\ v[2] = k
      BY <2>2
    <3>3. HasValue(func, v)
      BY <1>2, <2>3, <2>5, <3>2 DEF HasValue
    <3>4. QED
      BY <3>1, <3>3 DEF IsOperand
  <2>6. QED
    BY <2>4, <2>5
<1>3. QED
  BY <1>1, <1>2 DEF Values

\* An operand, renewed, is one.
LEMMA NowIsOperand ==
    ASSUME Sound(func), Typed, NEW v, IsOperand(v)
    PROVE  IsOperand(Now(v))
<1>1. CASE v \in DOMAIN replacement
  <2>1. replacement[v] \in Values
    BY <1>1 DEF Typed, Replacements
  <2>2. QED
    BY <1>1, <2>1, StoredIsOperand DEF Now
<1>2. CASE v \notin DOMAIN replacement
  BY <1>2 DEF Now
<1>3. QED
  BY <1>1, <1>2

\* No operand is a store, a branch or a return.
LEMMA NoSuchOperand ==
    ASSUME WellFormed(func), NEW b \in Blocks(func), NEW k \in DOMAIN func.code[b],
           ~Defines(func.code[b][k]), NEW v, IsOperand(v)
    PROVE  func.code[b][k].id # v
<1>1. CASE v \in PhiPlaces
  <2>1. func.code[b][k].id = <<b, k>>
    BY DEF WellFormed
  <2>2. QED
    BY <1>1, <2>1, TripleNoPair DEF PhiPlaces, PhiOf
<1>2. CASE HasValue(func, v)
  BY <1>2, NoSuchValue
<1>3. QED
  BY <1>1, <1>2 DEF IsOperand

\* What is left of a block is some of its instructions.
LEMMA RemainingIs ==
    ASSUME WellFormed(func), NEW b \in Blocks(func)
    PROVE  Remaining(b) \in Seq(ToSet(func.code[b]))
<1> DEFINE c == func.code[b]
           N == Len(c)
           S == Seq(ToSet(c))
           Keep(s, n) == IF c[n].id \in deleted THEN s ELSE Append(s, c[n])
           step == [x \in (1..N) \X S |-> Keep(x[2], x[1])]
           R == CHOOSE F : F = [n \in 0..N |-> IF n = 0 THEN << >> ELSE Keep(F[n - 1], n)]
<1>1. Remaining(b) = R[N]
  BY Zenon DEF Remaining
<1>2. c \in Seq(Instructions) /\ N \in Nat /\ DOMAIN c = 1..N
  <2>1. c \in Seq(Instructions)
    BY BlocksFacts, ElementOfSeq
  <2>2. QED
    BY <2>1, LenProperties
<1>3. \A n \in 1..N, s \in S : Keep(s, n) \in S
  <2> SUFFICES ASSUME NEW n \in 1..N, NEW s \in S
               PROVE  Keep(s, n) \in S
    OBVIOUS
  <2>1. c[n] \in ToSet(c)
    BY <1>2 DEF ToSet
  <2>2. Append(s, c[n]) \in S
    BY <2>1, AppendProperties
  <2>3. QED
    BY <2>2
<1>4. << >> \in S
  OBVIOUS
<1> HIDE DEF N, c, S, Keep
<1>5. step \in [(1..N) \X S -> S]
  BY <1>3
<1>6. PICK F : Runs(F, N, << >>, step) /\ \A k \in 0..N : F[k] \in S
  <2> HIDE DEF step
  <2>1. QED
    BY <1>2, <1>4, <1>5, RunExists
<1>7. F = [n \in 0..N |-> IF n = 0 THEN << >> ELSE Keep(F[n - 1], n)]
  <2>1. \A n \in 1..N : step[<<n, F[n - 1]>>] = Keep(F[n - 1], n)
    <3> SUFFICES ASSUME NEW n \in 1..N
                 PROVE  step[<<n, F[n - 1]>>] = Keep(F[n - 1], n)
      OBVIOUS
    <3>1. F[n - 1] \in S
      BY <1>2, <1>6
    <3>2. <<n, F[n - 1]>> \in (1..N) \X S
      BY <3>1
    <3>3. QED
      BY <3>2
  <2> HIDE DEF step
  <2>2. \A n \in 0..N : n = 0 \/ n \in 1..N
    BY <1>2
  <2>3. QED
    BY <1>6, <2>1, <2>2 DEF Runs
<1>8. R = [n \in 0..N |-> IF n = 0 THEN << >> ELSE Keep(R[n - 1], n)]
  BY <1>7, Zenon
<1> HIDE DEF R
<1>9. R[0] = << >> /\ \A n \in 1..N : R[n] = Keep(R[n - 1], n)
  <2>1. 0 \in 0..N /\ \A n \in 1..N : n \in 0..N /\ n # 0
    BY <1>2
  <2>2. \A n \in 0..N : R[n] = IF n = 0 THEN << >> ELSE Keep(R[n - 1], n)
    BY <1>8, Zenon
  <2>3. QED
    BY <2>1, <2>2, Zenon
<1> DEFINE Good == {n \in 0..N : R[n] \in S}
<1>10. 0..N \subseteq Good
  <2>1. 0 \in Good
    BY <1>2, <1>4, <1>9
  <2>2. ASSUME NEW n \in 1..N, n - 1 \in Good
        PROVE  n \in Good
    <3>1. R[n - 1] \in S /\ n \in 0..N
      BY <2>2
    <3>2. QED
      BY <1>3, <1>9, <3>1
  <2> HIDE DEF Good
  <2>3. QED
    BY <1>2, <2>1, <2>2, UpTo
<1>11. R[N] \in S
  BY <1>2, <1>10
<1>12. QED
  BY <1>1, <1>11 DEF S, c

\* A phi of b, as the pass leaves it.
IsPhiOf(b, i) ==
    /\ i.op = "phi" /\ IsSequence(i.args) /\ IsSequence(i.to)
    /\ Len(i.to) = Len(i.args) /\ ToSet(i.to) \subseteq Pre(func, b)
    /\ \A v \in UsedBy(i) : IsOperand(v)

\* Another instruction of b, as the pass leaves it.
IsLeftIn(b, i) ==
    /\ i.op # "phi" /\ IsSequence(i.args)
    /\ \A v \in UsedBy(i) : IsOperand(v)
    /\ \E k \in DOMAIN func.code[b] : /\ i.id = func.code[b][k].id
                                       /\ i.op = func.code[b][k].op

\* The phis.
LEMMA PhiAtIs ==
    ASSUME Sound(func), Typed, OperandsFit(Live, pairs),
           NEW b \in Blocks(func), NEW v \in ToSet(phis[b])
    PROVE  IsPhiOf(b, PhiAt(b, v))
<1> DEFINE q == PhiOf(b, v)
           ops == pairs[q]
           i == PhiAt(b, v)
<1>1. q \in PhiPlaces /\ q[1] = b
  BY DEF PhiPlaces, PhiOf
<1> HIDE DEF q
<1>2. ops \in Seq(Values \X Blocks(func))
  BY <1>1 DEF Typed, Operandss
<1>3. Len(ops) \in Nat /\ DOMAIN ops = 1..Len(ops)
  BY <1>2, LenProperties
<1>4. i = [id |-> q, op |-> "phi", var |-> Global,
           to |-> [k \in DOMAIN ops |-> ops[k][2]],
           args |-> [k \in DOMAIN ops |-> Now(Stored(ops[k][1]))]]
  BY DEF PhiAt, q
<1> HIDE DEF ops
<1>5. ASSUME NEW k \in DOMAIN ops
      PROVE  /\ ops[k][2] \in Pre(func, b)
             /\ IsOperand(Now(Stored(ops[k][1])))
  <2>1. ops[k] \in Values \X Blocks(func)
    BY <1>2, ElementOfSeq
  <2>2. b \in Succ(func, ops[k][2])
    BY <1>1, <1>5 DEF OperandsFit, ops
  <2>3. ops[k][2] \in Pre(func, b)
    BY <2>1, <2>2, SoundFacts, PredecessorsAre
  <2>4. IsOperand(Stored(ops[k][1]))
    BY <2>1, StoredIsOperand
  <2>5. QED
    BY <2>3, <2>4, NowIsOperand
<1>6. i.op = "phi" /\ i.to = [k \in 1..Len(ops) |-> ops[k][2]]
      /\ i.args = [k \in 1..Len(ops) |-> Now(Stored(ops[k][1]))]
  BY <1>3, <1>4
<1> DEFINE N == Len(ops)
<1> HIDE DEF i, N
<1>7. i.to \in Seq(Pre(func, b)) /\ Len(i.to) = N
  <2>1. i.to \in [1..N -> Pre(func, b)]
    BY <1>3, <1>5, <1>6 DEF N
  <2>2. QED
    BY <1>3, <2>1, SeqDef DEF N
<1>8. i.args \in Seq({v2 \in {i.args[k] : k \in DOMAIN i.args} : IsOperand(v2)}) /\ Len(i.args) = N
  <2> DEFINE A == {v2 \in {i.args[k] : k \in DOMAIN i.args} : IsOperand(v2)}
  <2>1. i.args \in [1..N -> A]
    BY <1>3, <1>5, <1>6 DEF N
  <2> HIDE DEF A
  <2>2. i.args \in Seq(A) /\ Len(i.args) = N
    BY <1>3, <2>1, SeqDef DEF N
  <2>3. QED
    BY <2>2 DEF A
<1>9. IsSequence(i.to) /\ IsSequence(i.args) /\ ToSet(i.to) \subseteq Pre(func, b)
      /\ \A w \in ToSet(i.args) : IsOperand(w)
  BY <1>7, <1>8, SequenceIs
<1>10. \A w \in UsedBy(i) : IsOperand(w)
  BY <1>6, <1>9 DEF UsedBy
<1>11. QED
  BY <1>6, <1>7, <1>8, <1>9, <1>10 DEF IsPhiOf, i

\* The other instructions.
LEMMA RenewedIs ==
    ASSUME Sound(func), Typed, NEW b \in Blocks(func), NEW i \in ToSet(func.code[b])
    PROVE  IsLeftIn(b, Renewed(i))
<1> DEFINE j == Renewed(i)
<1>1. PICK k \in DOMAIN func.code[b] : i = func.code[b][k]
  BY DEF ToSet
<1>2. i \in Instructions
  <2>1. func.code[b] \in Seq(Instructions)
    BY SoundFacts
  <2>2. QED
    BY <1>1, <2>1, ElementOfSeq
<1>3. AccessRight(func, b, k, i)
  BY <1>1 DEF Sound, Accesses
<1>4. i.args \in Seq(Operands) /\ Len(i.args) \in Nat /\ DOMAIN i.args = 1..Len(i.args)
  BY <1>2, LenProperties DEF Instructions
<1>5. /\ j.id = i.id /\ j.op = i.op /\ j.var = i.var
      /\ j.args = [a \in DOMAIN i.args |-> Now(i.args[a])]
  BY <1>2 DEF Renewed, Instructions
<1> HIDE DEF j
<1>6. ASSUME NEW a \in DOMAIN i.args
      PROVE  IsOperand(Now(i.args[a]))
  <2>1. HasValue(func, i.args[a])
    BY <1>3, <1>6 DEF AccessRight, ToSet
  <2>2. QED
    BY <2>1, NowIsOperand DEF IsOperand
<1> DEFINE A == {j.args[a] : a \in DOMAIN i.args}
<1>7. j.args \in Seq(A)
  <2>1. j.args \in [1..Len(i.args) -> A]
    BY <1>4, <1>5
  <2>2. QED
    BY <1>4, <2>1, SeqDef
<1>8. IsSequence(j.args) /\ \A w \in ToSet(j.args) : IsOperand(w)
  <2>1. \A w \in A : IsOperand(w)
    BY <1>5, <1>6
  <2> HIDE DEF A
  <2>2. QED
    BY <1>7, <2>1, SequenceIs
<1>9. j.op \in {"load", "store"} => IsOperand(j.var)
  BY <1>1, <1>3, <1>5, AddressHasValue DEF IsOperand
<1>10. \A w \in UsedBy(j) : IsOperand(w)
  BY <1>8, <1>9 DEF UsedBy
<1>11. QED
  BY <1>1, <1>3, <1>5, <1>8, <1>10 DEF IsLeftIn, AccessRight, j

\* Two sequences, one behind the other.
LEMMA JoinedIs ==
    ASSUME NEW S, NEW T, NEW s \in Seq(S), NEW t \in Seq(T)
    PROVE  IsSequence(s \o t) /\ ToSet(s \o t) \subseteq S \cup T
<1>1. s \in Seq(S \cup T) /\ t \in Seq(S \cup T)
  <2>1. PICK m \in Nat : s \in [1..m -> S]
    BY SeqDef
  <2>2. PICK n \in Nat : t \in [1..n -> T]
    BY SeqDef
  <2>3. s \in [1..m -> S \cup T] /\ t \in [1..n -> S \cup T]
    BY <2>1, <2>2
  <2>4. QED
    BY <2>3, SeqDef
<1>2. s \o t \in Seq(S \cup T)
  BY <1>1, ConcatProperties
<1>3. QED
  BY <1>2, SequenceIs

\* The code of a block of the result: phis, then what remains of the block.
LEMMA ResultBlockIs ==
    ASSUME Sound(func), PhisFit, Typed, OperandsFit(Live, pairs), NEW b \in Blocks(func)
    PROVE  /\ IsSequence(Result.code[b])
           /\ \A i \in ToSet(Result.code[b]) : IsPhiOf(b, i) \/ IsLeftIn(b, i)
<1> DEFINE front == [k \in DOMAIN phis[b] |-> PhiAt(b, phis[b][k])]
           back == [k \in DOMAIN Remaining(b) |-> Renewed(Remaining(b)[k])]
           P == {front[k] : k \in DOMAIN phis[b]}
           Q == {Renewed(i) : i \in ToSet(func.code[b])}
<1>1. WellFormed(func) /\ func \in FunctionRecords
  BY SoundFacts DEF WellFormed
<1>2. Result.code[b] = front \o back
  BY <1>1, Zenon DEF Result, FunctionRecords
<1>3. front \in Seq(P)
  <2>1. Len(phis[b]) \in Nat /\ DOMAIN phis[b] = 1..Len(phis[b])
    BY LenProperties DEF PhisFit
  <2>2. front \in [1..Len(phis[b]) -> P]
    BY <2>1
  <2>3. QED
    BY <2>1, <2>2, SeqDef
<1>4. back \in Seq(Q)
  <2>1. Remaining(b) \in Seq(ToSet(func.code[b]))
    BY <1>1, RemainingIs
  <2> DEFINE N == Len(Remaining(b))
  <2>2. N \in Nat /\ DOMAIN Remaining(b) = 1..N
    BY <2>1, LenProperties
  <2>3. \A k \in 1..N : Remaining(b)[k] \in ToSet(func.code[b])
    BY <2>1, <2>2, ElementOfSeq
  <2> HIDE DEF N
  <2>4. back \in [1..N -> Q]
    BY <2>2, <2>3
  <2>5. QED
    BY <2>2, <2>4, SeqDef
<1>5. \A i \in P : IsPhiOf(b, i)
  BY PhiAtIs DEF ToSet
<1>6. \A i \in Q : IsLeftIn(b, i)
  BY RenewedIs
<1> HIDE DEF front, back, P, Q
<1>7. IsSequence(front \o back) /\ ToSet(front \o back) \subseteq P \cup Q
  BY <1>3, <1>4, JoinedIs
<1>8. QED
  BY <1>2, <1>5, <1>6, <1>7

\* The edges stay, and the blocks.
LEMMA ResultGraphIs ==
    ASSUME Sound(func), PhisFit, Typed, OperandsFit(Live, pairs)
    PROVE  /\ Blocks(Result) = Blocks(func) /\ IsGraph(Result)
           /\ \A b : Succ(Result, b) = Succ(func, b) /\ Pre(Result, b) = Pre(func, b)
<1>1. WellFormed(func) /\ func \in FunctionRecords
  BY SoundFacts DEF WellFormed
<1>2. /\ Result.pre = func.pre /\ Result.succ = func.succ
      /\ Result.code = [b \in Blocks(func) |-> Result.code[b]]
  BY <1>1, Zenon DEF Result, FunctionRecords
<1>3. Blocks(Result) = Blocks(func)
  BY <1>2, Zenon DEF Blocks
<1>4. \A b : Succ(Result, b) = Succ(func, b) /\ Pre(Result, b) = Pre(func, b)
  BY <1>2 DEF Succ, Pre
<1>5. IsSequence(Result.code)
  <2>1. PICK n \in Nat : Blocks(func) = 1..n
    BY <1>1, BlocksFacts
  <2> DEFINE T == {Result.code[b] : b \in Blocks(func)}
  <2>2. Result.code \in [1..n -> T]
    BY <1>2, <2>1
  <2> HIDE DEF T
  <2>3. Result.code \in Seq(T)
    BY <2>1, <2>2, SeqDef
  <2>4. QED
    BY <2>3, SequenceIs
<1>6. \A b \in Blocks(func) : Succ(func, b) \subseteq Blocks(func)
  BY <1>1 DEF WellFormed, Succ
<1>7. QED
  BY <1>3, <1>4, <1>5, <1>6 DEF IsGraph

\* What Mem2Reg leaves of a function of the visitor's is code.
LEMMA ResultIsCode ==
    ASSUME MInv, phase = "done"
    PROVE  IsCode(Result)
<1>1. Sound(func) /\ PhisFit /\ Typed /\ OperandsFit(Live, pairs)
  BY AllEntered DEF MInv, InitPass, Prepared, Walked
<1>2. /\ Blocks(Result) = Blocks(func) /\ IsGraph(Result)
      /\ \A b : Succ(Result, b) = Succ(func, b) /\ Pre(Result, b) = Pre(func, b)
  BY <1>1, ResultGraphIs
<1>3. ASSUME NEW b \in Blocks(func), NEW s \in Succ(func, b)
      PROVE  b \in Pre(func, s)
  <2>1. Consistent(func) /\ WellFormed(func)
    BY <1>1, SoundFacts
  <2>2. s \in Blocks(func)
    BY <2>1 DEF WellFormed, Succ
  <2>3. QED
    BY <2>1, <2>2, PredecessorsAre
<1>4. ASSUME NEW b \in Blocks(func)
      PROVE  /\ IsSequence(Result.code[b])
             /\ \A i \in ToSet(Result.code[b]) : IsPhiOf(b, i) \/ IsLeftIn(b, i)
  BY <1>1, ResultBlockIs
<1>5. ASSUME NEW b \in Blocks(func), NEW i \in ToSet(Result.code[b])
      PROVE  /\ IsSequence(i.args)
             /\ i.op = "phi" => /\ IsSequence(i.to) /\ Len(i.to) = Len(i.args)
                                /\ ToSet(i.to) \subseteq Pre(func, b)
             /\ \A v \in UsedBy(i) : IsOperand(v)
  BY <1>4 DEF IsPhiOf, IsLeftIn
<1>6. ASSUME NEW b \in Blocks(func), NEW i \in ToSet(Result.code[b]), ~Defines(i),
             NEW j \in ToSet(Result.code[b])
      PROVE  i.id \notin UsedBy(j)
  <2>1. IsLeftIn(b, i)
    BY <1>4, <1>6 DEF IsPhiOf, Defines
  <2>2. PICK k \in DOMAIN func.code[b] : i.id = func.code[b][k].id /\ i.op = func.code[b][k].op
    BY <2>1 DEF IsLeftIn
  <2>3. ~Defines(func.code[b][k])
    BY <1>6, <2>2 DEF Defines
  <2>4. \A v \in UsedBy(j) : func.code[b][k].id # v
    BY <1>1, <1>5, <2>3, SoundFacts, NoSuchOperand
  <2>5. QED
    BY <2>2, <2>4
<1>7. QED
  BY <1>2, <1>3, <1>4, <1>5, <1>6 DEF IsCode

-----------------------------------------------------------------------------
(* The visitor, Mem2Reg and ActiveVars together.                           *)

\* The function is code throughout, and the visitor and Mem2Reg keep their
\* invariants until they are done with it.
AnalysisInv ==
    /\ ActiveInv /\ CodeInv
    /\ stage # "ready" => BuiltInv /\ active = "idle"
    /\ stage = "build" => InitPass

\* What the visitor has made so far is code.
LEMMA InvIsCode ==
    ASSUME IInv, Accesses(func)
    PROVE  IsCode(func)
<1>1. Consistent(func)
  BY DEF IInv, FunctionInv, Consistent
<1>2. QED
  BY <1>1, BuiltIsCode

\* Before the pass starts nothing is asked but that it is given code.
LEMMA IdleKeeps ==
    ASSUME ActiveInv, active = "idle", UNCHANGED activevars, IsCode(func')
    PROVE  ActiveInv' /\ CodeInv' /\ active' = "idle"
<1>1. active' = "idle" /\ bb_left' = << >>
  BY DEF activevars, ActiveInv, RoundInv
<1>2. IsGraph(func')
  BY DEF IsCode
<1>3. QED
  BY <1>1, <1>2 DEF ActiveInv, RoundInv, SetsInv, CodeInv

\* At the start the function is empty.
LEMMA InitAnalysisInv == AnalysisInit => AnalysisInv
<1> SUFFICES ASSUME AnalysisInit
             PROVE  AnalysisInv
  OBVIOUS
<1>1. BuiltInv /\ InitPass /\ stage = "build" /\ active = "idle"
  BY InitBuiltInv DEF AnalysisInit, ReadyInit, BuiltInit, InitActive
<1>2. IsCode(func)
  BY <1>1, InvIsCode DEF BuiltInv
<1>3. ActiveInv /\ CodeInv
  BY <1>1, <1>2, InitActiveInv DEF AnalysisInit, IsCode, CodeInv
<1>4. QED
  BY <1>1, <1>3 DEF AnalysisInv

\* The steps of the visitor and of Mem2Reg.
LEMMA ReadyKeeps ==
    ASSUME AnalysisInv, ReadyStep, UNCHANGED activevars
    PROVE  AnalysisInv'
<1>1. stage # "ready"
  BY Zenon DEF ReadyStep, Visit, Promote, PromoteStep, Promoted, Unpromoted
<1>2. BuiltInv /\ ActiveInv /\ active = "idle" /\ IsCode(func)
  BY <1>1 DEF AnalysisInv, CodeInv
<1>3. CASE Visit
  <2>1. BuiltInv'
    BY <1>2, <1>3, BuildKeeps DEF Visit
  <2>2. InitPass'
    BY <1>3 DEF Visit, Build, AnalysisInv, InitPass, passvars
  <2>3. Consistent(func') /\ Accesses(func')
    BY <2>1 DEF BuiltInv, IInv, FunctionInv, Consistent
  <2>4. IsCode(func')
    BY <2>3, BuiltIsCode
  <2>5. QED
    BY <1>2, <2>1, <2>2, <2>4, IdleKeeps DEF AnalysisInv
<1>4. CASE Promote \/ PromoteStep
  <2>1. BuiltNext /\ func' = func /\ stage' # "build"
    BY <1>4, Zenon DEF Promote, PromoteStep, BuiltNext, Transform, Run, TransformStep, Step,
                       TakeVariable, PlacePhis, StartRename, EnterChild, Leave
  <2>2. BuiltInv'
    BY <1>2, <2>1, NextBuiltInv
  <2>3. IsCode(func')
    BY <1>2, <2>1
  <2>4. QED
    BY <1>2, <2>1, <2>2, <2>3, IdleKeeps DEF AnalysisInv
<1>5. CASE Promoted
  <2>1. IsCode(func') /\ stage' = "ready"
    BY <1>2, <1>5, ResultIsCode DEF Promoted, BuiltInv
  <2>2. QED
    BY <1>2, <2>1, IdleKeeps DEF AnalysisInv
<1>6. CASE Unpromoted
  <2>1. IsCode(func') /\ stage' = "ready"
    BY <1>2, <1>6, GivenIsCode DEF Unpromoted
  <2>2. QED
    BY <1>2, <2>1, IdleKeeps DEF AnalysisInv
<1>7. QED
  BY <1>3, <1>4, <1>5, <1>6 DEF ReadyStep

\* The steps of the pass.
LEMMA ActiveKeeps ==
    ASSUME AnalysisInv, stage = "ready", stage' = stage, [ActiveStep]_<<func, activevars>>
    PROVE  AnalysisInv'
<1>1. ActiveInv' /\ CodeInv'
  BY StepActiveInv, StepCodeInv DEF AnalysisInv
<1>2. QED
  BY <1>1 DEF AnalysisInv

\* Every step keeps it.
LEMMA NextAnalysisInv == AnalysisInv /\ [AnalysisNext]_analysisvars => AnalysisInv'
<1> SUFFICES ASSUME AnalysisInv, [AnalysisNext]_analysisvars
             PROVE  AnalysisInv'
  OBVIOUS
<1>1. CASE ReadyStep /\ UNCHANGED activevars
  BY <1>1, ReadyKeeps
<1>2. CASE stage = "ready" /\ ActiveStep /\ UNCHANGED <<stage, buildvars, ssavars>>
  BY <1>2, ActiveKeeps
<1>3. CASE UNCHANGED analysisvars
  <2>1. /\ func' = func /\ stage' = stage /\ UNCHANGED activevars
        /\ UNCHANGED buildvars /\ UNCHANGED passvars
    BY <1>3 DEF analysisvars, readyvars, ssavars
  <2>2. CASE stage = "ready"
    BY <2>1, <2>2, ActiveKeeps
  <2>3. CASE stage # "ready"
    <3>1. UNCHANGED builtvars /\ IsCode(func')
      BY <2>1 DEF builtvars, AnalysisInv, CodeInv
    <3>2. BuiltInv'
      BY <2>3, <3>1, NextBuiltInv DEF AnalysisInv
    <3>3. InitPass => InitPass'
      BY <2>1 DEF InitPass, passvars
    <3>4. QED
      BY <2>1, <2>3, <3>1, <3>2, <3>3, IdleKeeps DEF AnalysisInv
  <2>4. QED
    BY <2>2, <2>3
<1>4. QED
  BY <1>1, <1>2, <1>3 DEF AnalysisNext

\* For every program ActiveVars' live_out has no value too many, on what the
\* visitor makes and on what Mem2Reg leaves of it, and where no values of phis
\* collide it is exactly the least solution of the equations of the manual.
THEOREM BuiltLiveOut == AnalysisSpec => []LiveOutExact
<1>1. AnalysisInv => LiveOutExact
  BY SolvedIsExact DEF AnalysisInv
<1>2. QED
  BY <1>1, InitAnalysisInv, NextAnalysisInv, PTL DEF AnalysisSpec
=============================================================================
