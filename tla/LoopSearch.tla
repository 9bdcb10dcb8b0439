----------------------------- MODULE LoopSearch -----------------------------
(***************************************************************************)
(* LoopSearch.cpp on one function.  In rounds, the strongly connected      *)
(* components of the control-flow graph are found with Tarjan's algorithm, *)
(* each is a loop, and the base of each is taken out of the graph, so that *)
(* the next round finds the loops inside.  The nodes are in sets of        *)
(* pointers: the order in which the code meets them is that of addresses.  *)
(***************************************************************************)
EXTENDS LightIR, Integers, FiniteSets

VARIABLES searched,     \* "idle", "search", "bases", "done", or "crashed": a
                        \* null base was dereferenced
          nodes,        \* the blocks that are still in the graph
          succs, prevs, \* CFGNode::succs and prevs, per block
          reserved,     \* the bases taken out
          sccs,         \* components of this round whose base is to be found
          loops,        \* func2loop, loop2base and base2loop: records base, blocks
          bb2base       \* block -> base of the last loop found to contain it

searchvars == <<searched, nodes, succs, prevs, reserved, sccs, loops, bb2base>>

NoLoop == [base |-> 0, blocks |-> {}]

InitSearch ==
    /\ searched = "idle"
    /\ nodes = {} /\ succs = << >> /\ prevs = << >>
    /\ reserved = {} /\ sccs = {}
    /\ loops = {} /\ bb2base = << >>

\* The orders of a set of pointers, as far as they are told apart here.
Orders ==
    LET n == NewestBlock(func)
    IN  UNION {{[i \in 1..n |-> ((i + k) % n) + 1], [i \in 1..n |-> n - ((i + k) % n)]}
                 : k \in 1..n}
InOrder(S, order) == SelectSeq(order, LAMBDA b : b \in S)

-----------------------------------------------------------------------------
(* traverse: r holds index_count, index, lowlink, stack (onStack is to be  *)
(* in it) and result.                                                      *)

Lesser(a, b) == IF a < b THEN a ELSE b

\* Fault: lowlink is not lowered to what a visited successor reaches.
ReturnTo_Forgets(r, n, su) == r

ReturnTo(r, n, su) == [r EXCEPT !.lowlink[n] = Lesser(r.lowlink[su], @)]

\* The nodes above n, and n, leave the stack; a single node is no component.
PopComponent(r, n) ==
    LET k == SelectInSeq(r.stack, LAMBDA m : m = n)
        component == ToSet(SubSeq(r.stack, k, Len(r.stack)))
    IN  [r EXCEPT !.stack = SubSeq(@, 1, k - 1),
                  !.result = IF component = {n} THEN @ ELSE @ \cup {component}]

RECURSIVE Traverse(_, _, _)
Traverse(r, n, order) ==
    LET Visit(q, su) ==
            IF q.index[su] = -1 THEN ReturnTo(Traverse(q, su, order), n, su)
            ELSE IF Contains(q.stack, su)
            THEN [q EXCEPT !.lowlink[n] = Lesser(q.index[su], @)]
            ELSE q
        entered == [r EXCEPT !.index[n] = r.count, !.lowlink[n] = r.count,
                             !.count = @ + 1, !.stack = Append(@, n)]
        left == FoldLeft(Visit, entered, InOrder(succs[n], order))
    IN  IF left.index[n] = left.lowlink[n] THEN PopComponent(left, n) ELSE left

StronglyConnectedComponents(order) ==
    LET unseen == [n \in nodes |-> -1]
        r == [count |-> 0, index |-> unseen, lowlink |-> unseen,
              stack |-> << >>, result |-> {}]
    IN  FoldLeft(LAMBDA q, n : IF q.index[n] = -1 THEN Traverse(q, n, order) ELSE q,
                 r, InOrder(nodes, order)).result

-----------------------------------------------------------------------------
\* run() on a function with blocks, step 1: build_cfg.
StartSearch ==
    /\ searched = "idle"
    /\ Blocks(func) # {}
    /\ searched' = "search"
    /\ nodes' = Blocks(func)
    /\ succs' = [b \in Blocks(func) |-> Succ(func, b)]
    /\ prevs' = [b \in Blocks(func) |-> Pre(func, b)]
    /\ UNCHANGED <<func, reserved, sccs, loops, bb2base>>

\* Step 2, the condition of the loop over the rounds.
FindComponents ==
    /\ searched = "search"
    /\ \E order \in Orders : sccs' = StronglyConnectedComponents(order)
    /\ searched' = IF sccs' = {} THEN "done" ELSE "bases"
    /\ UNCHANGED <<func, nodes, succs, prevs, reserved, loops, bb2base>>

\* Fault: of nested loops only the blocks reserved before tell the base.
BasesOf_Reserved(scc) == scc \cap UNION {succs[r] : r \in reserved}

\* find_loop_base: the last node met that has a predecessor outside, so any
\* of them; without one, a successor of a base that was taken out.
BasesOf(scc) ==
    LET entries == {n \in scc : ~(prevs[n] \subseteq scc)}
    IN  IF entries # {} THEN entries
        ELSE scc \cap UNION {succs[r] : r \in reserved}

\* Step 6: the base leaves the graph, its own edges stay with it.
TakeBase(base) ==
    /\ nodes' = nodes \ {base}
    /\ succs' = [b \in DOMAIN succs |->
                   IF b \in prevs[base] THEN succs[b] \ {base} ELSE succs[b]]
    /\ prevs' = [b \in DOMAIN prevs |->
                   IF b \in succs[base] THEN prevs[b] \ {base} ELSE prevs[b]]

\* Fault: a block keeps the first base found for it, that of the outermost loop.
MapToBase_Keeps(scc, base) ==
    bb2base' = [b \in DOMAIN bb2base \cup scc |->
                  IF b \in DOMAIN bb2base THEN bb2base[b] ELSE base]

\* Step 5.
MapToBase(scc, base) ==
    bb2base' = [b \in DOMAIN bb2base \cup scc |-> IF b \in scc THEN base ELSE bb2base[b]]

\* Steps 3 to 6 for one component; the components are met in any order.
RecordLoop ==
    /\ searched = "bases"
    /\ \E scc \in sccs : \E base \in BasesOf(scc) :
        /\ loops' = loops \cup {[base |-> base, blocks |-> scc]}
        /\ MapToBase(scc, base)
        /\ reserved' = reserved \cup {base}
        /\ TakeBase(base)
        /\ sccs' = sccs \ {scc}
    /\ searched' = IF sccs' = {} THEN "search" ELSE "bases"
    /\ UNCHANGED func

\* Step 4 dereferences the null pointer that find_loop_base returns.
NoBase ==
    /\ searched = "bases"
    /\ \E scc \in sccs : BasesOf(scc) = {}
    /\ searched' = "crashed"
    /\ UNCHANGED <<func, nodes, succs, prevs, reserved, sccs, loops, bb2base>>

SearchStep == StartSearch \/ FindComponents \/ RecordLoop \/ NoBase

-----------------------------------------------------------------------------
(* What other passes ask.                                                  *)

InnerLoop(b) ==
    IF b \in DOMAIN bb2base
    THEN CHOOSE L \in loops : L.base = bb2base[b]
    ELSE NoLoop

\* The predecessors of the base outside the loop, in the order of the list.
OutsidePre(L) == SelectSeq(func.pre[L.base], LAMBDA p : p \notin L.blocks)

\* get_parent_loop: the first predecessor outside the loop decides.
ParentLoop(L) ==
    IF OutsidePre(L) = << >> THEN NoLoop
    ELSE LET outer == InnerLoop(OutsidePre(L)[1])
         IN  IF L.base \in outer.blocks THEN outer ELSE NoLoop

-----------------------------------------------------------------------------
(* Reference: the natural loops of the reachable part of the function.     *)

BackEdges(doms) ==
    UNION {{<<b, h>> : h \in Succ(func, b) \cap doms[b]} : b \in DOMAIN doms}

\* The header and what reaches a back edge to it without passing it.
NaturalLoop(h, back) ==
    LET sources == {e[1] : e \in {x \in back : x[2] = h}}
        Up[S \in SUBSET Blocks(func)] ==
            LET T == S \cup (UNION {Pre(func, b) : b \in S \ {h}} \cap Reachable(func))
            IN  IF T = S THEN S ELSE Up[T]
    IN  [base |-> h, blocks |-> Up[sources \cup {h}]]

NaturalLoops ==
    LET back == BackEdges(DominatorSets(func))
    IN  {NaturalLoop(e[2], back) : e \in back}

LiveLoops == {L \in loops : L.base \in Reachable(func)}

\* The smallest of some nested loops that contain b.
InnermostWith(b, among) ==
    LET around == {L \in among : b \in L.blocks}
    IN  IF around = {} THEN NoLoop
        ELSE CHOOSE L \in around : \A M \in around : L.blocks \subseteq M.blocks

TypeOK ==
    /\ searched \in {"idle", "search", "bases", "done", "crashed"}
    /\ nodes \subseteq Blocks(func) /\ reserved \subseteq Blocks(func)
    /\ DOMAIN succs = DOMAIN prevs
    /\ searched # "idle" =>
        /\ \A b \in Blocks(func) : succs[b] \cup prevs[b] \subseteq Blocks(func)
        /\ \A L \in loops : L.base \in L.blocks /\ L.blocks \subseteq Blocks(func)
        /\ DOMAIN bb2base \subseteq Blocks(func)

\* LoopSearch finds the natural loops with their headers, one by one, however
\* the pointers are ordered; except that a dead predecessor may make another
\* block than the header the base.
LoopsAreNatural ==
    searched = "done" /\ ~HasDeadPredecessor(func) => LiveLoops = NaturalLoops

\* bb2base and get_parent_loop tell the innermost loop of each block, and
\* the innermost of the loops around each loop.
NestingRight ==
    searched = "done" /\ ~HasDeadPredecessor(func) =>
    /\ \A b \in Reachable(func) : InnerLoop(b) = InnermostWith(b, NaturalLoops)
    /\ \A L \in LiveLoops :
          ParentLoop(L) = InnermostWith(L.base, {M \in NaturalLoops : M # L})

\* A component always has a base: the search never dereferences null.
BaseFound == searched # "crashed"
=============================================================================
