----------------------------- MODULE ActiveVars -----------------------------
(***************************************************************************)
(* ActiveVars.cpp on one function: which values are live at the beginning  *)
(* and at the end of each block.  Each block is first read for itself:     *)
(* what it uses, what it defines and what its phis take from which         *)
(* predecessor.  Then the equations of the data flow are iterated, block   *)
(* by block, until live_in stays as it is.                                 *)
(***************************************************************************)
EXTENDS LightIR, FiniteSets

VARIABLES active,   \* "idle", "run" or "done"
          facts,    \* usem, defm, phib and phiu, per block: see Facts
          live_in, live_out,
          bb_left,  \* the blocks still to be visited in this round
          flag      \* live_in has changed in this round

activevars == <<active, facts, live_in, live_out, bb_left, flag>>

InitActive ==
    /\ active = "idle"
    /\ facts = << >>
    /\ live_in = << >> /\ live_out = << >>
    /\ bb_left = << >> /\ flag = FALSE

-----------------------------------------------------------------------------
\* What the cases of the switch look at: notconst leaves the literals out.
UsedBy(i) ==
    {v \in ToSet(i.args) : ~IsLiteral(v)}
    \cup (IF i.op \in {"load", "store"} THEN {i.var} ELSE {})

Defines(i) == i.op \notin {"store", "br", "ret"}

\* map::insert: a key that is there keeps its value.
Inserted(phii, v, p) ==
    [u \in DOMAIN phii \cup {v} |-> IF u \in DOMAIN phii THEN phii[u] ELSE p]

\* Fault: a literal counts as a value.
AddCase_Literals(r, i, n) ==
    LET v == i.args[n]
    IN  IF v \in r.def THEN r
        ELSE [r EXCEPT !.use = @ \cup {v}, !.phii = Inserted(@, v, i.to[n])]

\* A phi: phii keeps a value with the first predecessor it comes from.
AddCase(r, i, n) ==
    LET v == i.args[n]
    IN  IF v \in r.def \/ IsLiteral(v) THEN r
        ELSE [r EXCEPT !.use = @ \cup {v}, !.phii = Inserted(@, v, i.to[n])]

\* One instruction: what it uses before the block defines it, then what it
\* defines unless the block has used it.
Gather(r, i) ==
    LET Cases[n \in 0..Len(i.args)] ==
            IF n = 0 THEN r ELSE AddCase(Cases[n - 1], i, n)
        q == IF i.op = "phi" THEN Cases[Len(i.args)]
             ELSE [r EXCEPT !.use = @ \cup (UsedBy(i) \ r.def)]
    IN  [q EXCEPT !.def = IF Defines(i) /\ i.id \notin q.use THEN @ \cup {i.id} ELSE @]

\* usem, defm and phii of block b; phib and phiu come from phii.
Facts(b) ==
    LET Gathered[n \in 0..Len(func.code[b])] ==
            IF n = 0 THEN [use |-> {}, def |-> {}, phii |-> << >>]
            ELSE Gather(Gathered[n - 1], func.code[b][n])
    IN  Gathered[Len(func.code[b])]

\* Fault: the values of the phis count for every predecessor.
LiveOut_AllEdges(live, b) == UNION {live[s] : s \in Succ(func, b)}

\* What is live at the end of b: of each successor what is live there and no
\* value of a phi, and the values that its phis take from b.
LiveOut(live, b) ==
    UNION {LET phii == facts[s].phii
           IN  (live[s] \ DOMAIN phii) \cup {v \in DOMAIN phii : phii[v] = b} :
               s \in Succ(func, b)}

-----------------------------------------------------------------------------
StartActive ==
    /\ active = "idle"
    /\ Blocks(func) # {}
    /\ active' = "run"
    /\ facts' = [b \in Blocks(func) |-> Facts(b)]
    /\ live_in' = [b \in Blocks(func) |-> {}]
    /\ live_out' = live_in'
    /\ flag' = TRUE
    /\ UNCHANGED <<func, bb_left>>

NextLiveRound ==
    /\ active = "run"
    /\ bb_left = << >> /\ flag
    /\ bb_left' = [b \in Blocks(func) |-> b]
    /\ flag' = FALSE
    /\ UNCHANGED <<func, active, facts, live_in, live_out>>

\* Fault: any live value keeps the iteration going.
VisitLive_AlwaysFlags ==
    /\ active = "run"
    /\ bb_left # << >>
    /\ LET b == Head(bb_left)
       IN  /\ live_out' = [live_out EXCEPT ![b] = LiveOut(live_in, b)]
           /\ live_in' = [live_in EXCEPT ![b] = facts[b].use \cup (live_out'[b] \ facts[b].def)]
           /\ flag' = (flag \/ live_in'[b] # {})
    /\ bb_left' = Tail(bb_left)
    /\ UNCHANGED <<func, active, facts>>

VisitLive ==
    /\ active = "run"
    /\ bb_left # << >>
    /\ LET b == Head(bb_left)
       IN  /\ live_out' = [live_out EXCEPT ![b] = LiveOut(live_in, b)]
           /\ live_in' = [live_in EXCEPT ![b] = facts[b].use \cup (live_out'[b] \ facts[b].def)]
           /\ flag' = (flag \/ live_in'[b] # live_in[b])
    /\ bb_left' = Tail(bb_left)
    /\ UNCHANGED <<func, active, facts>>

EndActive ==
    /\ active = "run"
    /\ bb_left = << >> /\ ~flag
    /\ active' = "done"
    /\ UNCHANGED <<func, facts, live_in, live_out, bb_left, flag>>

\* The loop over the rounds.
Iterate == NextLiveRound \/ VisitLive \/ EndActive

ActiveStep == StartActive \/ Iterate

-----------------------------------------------------------------------------
(* Reference: the equations of the manual, with phi_uses per edge, and      *)
(* their least solution.                                                   *)

Upward(b) ==
    UNION {{v \in UsedBy(func.code[b][k]) :
              func.code[b][k].op # "phi" /\ \A j \in 1..k - 1 : func.code[b][j].id # v} :
           k \in DOMAIN func.code[b]}

Defined(b) == {i.id : i \in {j \in ToSet(func.code[b]) : Defines(j)}}

PhiUses(s, b) ==
    UNION {{i.args[n] : n \in {m \in DOMAIN i.args : i.to[m] = b /\ ~IsLiteral(i.args[m])}} :
           i \in {j \in ToSet(func.code[s]) : j.op = "phi"}}

OutOf(live, b) == UNION {live[s] \cup PhiUses(s, b) : s \in Succ(func, b)}

\* The least solution of live[b] = Upward(b) \cup (OutOf(live, b) \ Defined(b)),
\* at the beginnings of the blocks: from where a block uses a value, or hands
\* it to a phi behind it, back to where the value is defined.
LeastIn ==
    LET Values == UNION {UsedBy(i) : i \in UNION {ToSet(func.code[b]) : b \in Blocks(func)}}
        Points == Blocks(func) \X Values
        nowhere == [b \in Blocks(func) |-> {}]
        Before(x) == {<<b, x[2]>> : b \in {c \in Blocks(func) : /\ x[1] \in Succ(func, c)
                                                              /\ x[2] \notin Defined(c)}}
        Back[S \in SUBSET Points] ==
            LET T == S \cup UNION {Before(x) : x \in S}
            IN  IF T = S THEN S ELSE Back[T]
        live == Back[{x \in Points : x[2] \in Upward(x[1]) \cup (OutOf(nowhere, x[1]) \ Defined(x[1]))}]
    IN  [b \in Blocks(func) |-> {v \in Values : <<b, v>> \in live}]

\* The phis of s take a value from two predecessors, or one that is live in s
\* otherwise, or the value of a phi of s: kept per value, it is lost.
PhiClash(live, s) ==
    LET taken(p) == PhiUses(s, p)
    IN  \/ \E p, q \in Pre(func, s) : p # q /\ taken(p) \cap taken(q) # {}
        \/ \E p \in Pre(func, s) : taken(p) \cap (live[s] \cup Defined(s)) # {}

\* The blocks are numbered, and no branch leaves the function.
IsSequence(s) == s \in Seq(ToSet(s))

IsGraph(f) ==
    /\ IsSequence(f.code)
    /\ \A b \in Blocks(f) : Succ(f, b) \subseteq Blocks(f)

\* What the pass is given, phis included: each edge is known at both ends, a
\* phi has one value per case, each case a predecessor, and what has no value
\* is no operand.
IsCode(f) ==
    /\ IsGraph(f)
    /\ \A b \in Blocks(f) :
        /\ \A s \in Succ(f, b) : b \in Pre(f, s)
        /\ IsSequence(f.code[b])
        /\ \A i \in ToSet(f.code[b]) :
              /\ IsSequence(i.args)
              /\ i.op = "phi" => /\ IsSequence(i.to) /\ Len(i.to) = Len(i.args)
                                 /\ ToSet(i.to) \subseteq Pre(f, b)
              /\ ~Defines(i) => \A j \in ToSet(f.code[b]) : i.id \notin UsedBy(j)

ActiveTypeOK ==
    active # "idle" =>
    /\ active \in {"run", "done"}
    /\ IsCode(func)
    /\ DOMAIN live_in = Blocks(func) /\ DOMAIN live_out = Blocks(func)
    /\ \A b \in Blocks(func) : \A v \in live_in[b] \cup live_out[b] : ~IsLiteral(v)
    /\ ToSet(bb_left) \subseteq Blocks(func) /\ flag \in BOOLEAN

\* live_out is the least solution of the equations of the manual, though the
\* values of phis are kept apart in another way; where that way loses some,
\* live_out still has none too many.
LiveOutExact ==
    active = "done" =>
    LET live == LeastIn
    IN  /\ \A b \in Blocks(func) : live_out[b] \subseteq OutOf(live, b)
        /\ (\A s \in Blocks(func) : ~PhiClash(live, s)) =>
               \A b \in Blocks(func) : live_out[b] = OutOf(live, b)

\* The iteration comes to an end.
AnalysisEnds == active = "run" ~> active = "done"
=============================================================================
