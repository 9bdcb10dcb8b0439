----------------------------- MODULE Dominators -----------------------------
(***************************************************************************)
(* Dominators.cpp on one function: a depth-first walk that numbers the     *)
(* blocks in post-order, the iteration for the immediate dominators, the   *)
(* runners of the dominance frontiers, and the dominator tree.  Null is    *)
(* the null pointer, which is also what a lookup of idom_ in a block       *)
(* without an entry returns, Null included.                                *)
(***************************************************************************)
EXTENDS LightIR, FiniteSets

Null == 0

\* func is the function, which the pass only reads.
VARIABLES pc,        \* "idle", "dfs", "idom", "frontier", "tree", "done"
          visit,     \* the calls of post_order_visit: <<block, successors seen>>
          visited,
          order,     \* reverse_post_order_ before it is reversed: the post-order
          idom,      \* idom_
          changed, at, \* of create_idom: the flag, the position in the order
          todo,      \* <<predecessor, block>> pairs whose runner is to start
          runner, join, \* of create_dominance_frontier: runner and bb
          frontier,  \* dom_frontier_
          tree,      \* dom_tree_succ_blocks_
          aborted    \* an assertion failed

passvars == <<pc, visit, visited, order, idom, changed, at, todo, runner, join,
              frontier, tree, aborted>>

Node == Blocks(func) \cup {Null}

InitPass ==
    /\ pc = "idle"
    /\ visit = << >> /\ visited = {} /\ order = << >>
    /\ idom = << >> /\ changed = FALSE /\ at = 0
    /\ todo = << >> /\ runner = Null /\ join = Null
    /\ frontier = << >> /\ tree = << >>
    /\ aborted = FALSE

-----------------------------------------------------------------------------
\* run(): empty entries for every block, then post_order_visit(entry).
Run ==
    /\ pc = "idle"
    /\ Blocks(func) # {}
    /\ pc' = "dfs"
    /\ visit' = <<<<Entry, 0>>>>
    /\ visited' = {Entry}
    /\ idom' = [b \in Node |-> Null]
    /\ frontier' = [b \in Node |-> {}]
    /\ tree' = [b \in Node |-> {}]
    /\ UNCHANGED <<func, order, changed, at, todo, runner, join, aborted>>

\* The innermost post_order_visit looks at its next successor.
VisitSucc ==
    /\ pc = "dfs"
    /\ visit # << >>
    /\ LET bb == Last(visit)[1]
           k == Last(visit)[2] + 1
       IN  /\ k <= Len(func.succ[bb])
           /\ LET b == func.succ[bb][k]
                  stepped == Append(Front(visit), <<bb, k>>)
              IN  IF b \in visited
                  THEN visit' = stepped /\ UNCHANGED visited
                  ELSE visit' = Append(stepped, <<b, 0>>) /\ visited' = visited \cup {b}
    /\ UNCHANGED <<func, pc, order, idom, changed, at, todo, runner, join,
                   frontier, tree, aborted>>

\* Fault: the iteration starts one block beyond the order.
NumberBlock_OffByOne ==
    /\ pc = "dfs"
    /\ visit # << >>
    /\ Last(visit)[2] = Len(func.succ[Last(visit)[1]])
    /\ order' = Append(order, Last(visit)[1])
    /\ visit' = Front(visit)
    /\ IF Len(visit) > 1 THEN UNCHANGED <<pc, idom, changed, at>>
       ELSE pc' = "idom" /\ idom' = [idom EXCEPT ![Entry] = Entry]
            /\ changed' = FALSE /\ at' = Len(order') + 1
    /\ UNCHANGED <<func, visited, todo, runner, join, frontier, tree, aborted>>

\* The end of a post_order_visit: the block gets the next number.  After the
\* outermost one create_idom makes the entry its own immediate dominator.
NumberBlock ==
    /\ pc = "dfs"
    /\ visit # << >>
    /\ Last(visit)[2] = Len(func.succ[Last(visit)[1]])
    /\ order' = Append(order, Last(visit)[1])
    /\ visit' = Front(visit)
    /\ IF Len(visit) > 1 THEN UNCHANGED <<pc, idom, changed, at>>
       ELSE pc' = "idom" /\ idom' = [idom EXCEPT ![Entry] = Entry]
            /\ changed' = FALSE /\ at' = Len(order')
    /\ UNCHANGED <<func, visited, todo, runner, join, frontier, tree, aborted>>

PostOrderId(b) == CHOOSE k \in DOMAIN order : order[k] = b

\* intersect(b1, b2): up from the one with the smaller number until the two
\* meet.  Null: an assertion get_idom(b) on the way failed.
Intersect(b1, b2) ==
    LET Meet[p \in Node \X Node] ==
            IF p[1] = p[2] THEN p[1]
            ELSE IF Null \in {p[1], p[2]} THEN Null
            ELSE IF PostOrderId(p[1]) < PostOrderId(p[2])
            THEN Meet[<<idom[p[1]], p[2]>>]
            ELSE Meet[<<p[1], idom[p[2]]>>]
    IN  Meet[<<b1, b2>>]

\* Fault: the last predecessor is left out of the intersection.
NewIdom_MissesLast(bb) ==
    LET preds == func.pre[bb]
        known == {k \in DOMAIN preds : idom[preds[k]] # Null}
        first == CHOOSE k \in known : \A j \in known : k <= j
        New[k \in first..Len(preds)] ==
            IF k = first THEN preds[k]
            ELSE IF k \notin known \ {Len(preds)} \/ New[k - 1] = Null THEN New[k - 1]
            ELSE Intersect(preds[k], New[k - 1])
    IN  IF known = {} THEN Null ELSE New[Len(preds)]

\* The immediate dominator as the predecessors that have one now suggest it:
\* pred, the first of them, intersected with the others in order.
NewIdom(bb) ==
    LET preds == func.pre[bb]
        known == {k \in DOMAIN preds : idom[preds[k]] # Null}
        first == CHOOSE k \in known : \A j \in known : k <= j
        New[k \in first..Len(preds)] ==
            IF k = first THEN preds[k]
            ELSE IF k \notin known \/ preds[k] = preds[first] \/ New[k - 1] = Null
            THEN New[k - 1]
            ELSE Intersect(preds[k], New[k - 1])
    IN  IF known = {} THEN Null ELSE New[Len(preds)]

\* Fault: reverse_post_order_ is never reversed.
IterateIdom_PostOrder ==
    /\ pc = "idom"
    /\ ~aborted
    /\ at > 0
    /\ LET bb == order[Len(order) + 1 - at]
           new == IF bb = Entry THEN Entry ELSE NewIdom(bb)
       IN  /\ aborted' = (new = Null)
           /\ idom' = [idom EXCEPT ![bb] = new]
           /\ changed' = (changed \/ new # idom[bb])
    /\ at' = at - 1
    /\ UNCHANGED <<func, pc, visit, visited, order, todo, runner, join,
                   frontier, tree>>

\* One block of create_idom's inner loop.
IterateIdom ==
    /\ pc = "idom"
    /\ ~aborted
    /\ at > 0
    /\ LET bb == order[at]
           new == IF bb = Entry THEN Entry ELSE NewIdom(bb)
       IN  /\ aborted' = (new = Null)
           /\ idom' = [idom EXCEPT ![bb] = new]
           /\ changed' = (changed \/ new # idom[bb])
    /\ at' = at - 1
    /\ UNCHANGED <<func, pc, visit, visited, order, todo, runner, join,
                   frontier, tree>>

\* create_dominance_frontier's loops: every predecessor of every join, by the
\* order of the blocks.
Runners ==
    FlattenSeq([b \in Blocks(func) |->
        IF Len(func.pre[b]) >= 2
        THEN [k \in DOMAIN func.pre[b] |-> <<func.pre[b][k], b>>]
        ELSE << >>])

\* Fault: a new round keeps the flag of the round before.
NextRound_KeepsChanged ==
    /\ pc = "idom"
    /\ ~aborted
    /\ at = 0
    /\ IF changed
       THEN at' = Len(order) /\ UNCHANGED <<pc, todo>>
       ELSE pc' = "frontier" /\ todo' = Runners /\ UNCHANGED at
    /\ UNCHANGED <<func, visit, visited, order, idom, changed, runner, join,
                   frontier, tree, aborted>>

\* The end of a round of create_idom: another one if something changed.
NextRound ==
    /\ pc = "idom"
    /\ ~aborted
    /\ at = 0
    /\ changed' = FALSE
    /\ IF changed
       THEN at' = Len(order) /\ UNCHANGED <<pc, todo>>
       ELSE pc' = "frontier" /\ todo' = Runners /\ UNCHANGED at
    /\ UNCHANGED <<func, visit, visited, order, idom, runner, join,
                   frontier, tree, aborted>>

\* The pending runner has met the immediate dominator of its join.
RunnerMet == join = Null \/ runner = idom[join]

StartRunner ==
    /\ pc = "frontier"
    /\ RunnerMet
    /\ todo # << >>
    /\ runner' = Head(todo)[1]
    /\ join' = Head(todo)[2]
    /\ todo' = Tail(todo)
    /\ UNCHANGED <<func, pc, visit, visited, order, idom, changed, at,
                   frontier, tree, aborted>>

\* Fault: the runner steps up before the frontier is extended.
MoveRunner_Early ==
    /\ pc = "frontier"
    /\ ~RunnerMet
    /\ frontier' = [frontier EXCEPT ![idom[runner]] = @ \cup {join}]
    /\ runner' = idom[runner]
    /\ UNCHANGED <<func, pc, visit, visited, order, idom, changed, at, todo, join,
                   tree, aborted>>

\* The body of "while (runner != get_idom(bb))".  From Null the runner goes to
\* Null.
MoveRunner ==
    /\ pc = "frontier"
    /\ ~RunnerMet
    /\ frontier' = [frontier EXCEPT ![runner] = @ \cup {join}]
    /\ runner' = idom[runner]
    /\ UNCHANGED <<func, pc, visit, visited, order, idom, changed, at, todo, join,
                   tree, aborted>>

EndFrontier ==
    /\ pc = "frontier"
    /\ RunnerMet
    /\ todo = << >>
    /\ pc' = "tree"
    /\ UNCHANGED <<func, visit, visited, order, idom, changed, at, todo, runner, join,
                   frontier, tree, aborted>>

\* Fault: the edge of the tree is turned round.
CreateDomTree_Reversed ==
    /\ pc = "tree"
    /\ tree' = [b \in Node |-> {c \in Blocks(func) : idom[b] = c /\ b # c}]
    /\ pc' = "done"
    /\ UNCHANGED <<func, visit, visited, order, idom, changed, at, todo, runner, join,
                   frontier, aborted>>

\* create_dom_tree_succ: each block hangs below its immediate dominator.
CreateDomTree ==
    /\ pc = "tree"
    /\ tree' = [b \in Node |-> {c \in Blocks(func) : idom[c] = b /\ b # c}]
    /\ pc' = "done"
    /\ UNCHANGED <<func, visit, visited, order, idom, changed, at, todo, runner, join,
                   frontier, aborted>>

\* The steps of run() once it has started.
Step ==
    \/ VisitSucc \/ NumberBlock
    \/ IterateIdom \/ NextRound
    \/ StartRunner \/ MoveRunner \/ EndFrontier
    \/ CreateDomTree

-----------------------------------------------------------------------------
DominatorsTypeOK ==
    /\ pc \in {"idle", "dfs", "idom", "frontier", "tree", "done"}
    /\ \A k \in DOMAIN visit :
        visit[k][1] \in Blocks(func) /\ visit[k][2] \in 0..Len(func.succ[visit[k][1]])
    /\ visited \subseteq Blocks(func)
    /\ ToSet(order) \subseteq visited
    /\ pc # "idle" =>
        /\ idom \in [Node -> Node]
        /\ \A b \in Node : frontier[b] \subseteq Blocks(func)
        /\ \A b \in Node : tree[b] \subseteq Blocks(func)
    /\ at \in 0..Len(order)
    /\ runner \in Node /\ join \in Node
    /\ changed \in BOOLEAN /\ aborted \in BOOLEAN

\* The assertions of create_idom and intersect never fail: in reverse
\* post-order some predecessor of a block is always done before the block.
NeverAborts == ~aborted

\* The iteration ends with what it is named for: the immediate dominator of a
\* reachable block is the strict dominator that all others dominate, and a
\* block that is not reachable has none.
IdomCorrect ==
    pc \in {"frontier", "tree", "done"} =>
        LET doms == DominatorSets(func)
        IN  /\ \A b \in DOMAIN doms \ {Entry} :
                 idom[b] \in DOMAIN doms /\ b \in ChildrenOf(doms, idom[b])
            /\ \A b \in Blocks(func) \ DOMAIN doms : idom[b] = Null

\* The frontier of a reachable block, among reachable blocks, holds the joins
\* where its dominance ends, and that of an unreachable block, among the
\* others, the joins it goes to: Mem2Reg puts the phis of a variable there.
FrontierCorrect ==
    pc \in {"tree", "done"} =>
        LET doms == DominatorSets(func)
            live == DOMAIN doms
        IN  /\ \A b \in live : frontier[b] \cap live = FrontierOf(func, doms, b)
            /\ \A b \in Blocks(func) \ live :
                  frontier[b] \ live = DeadJoins(func, live, b)

\* Mem2Reg's walk over the tree meets each reachable block once and no other:
\* the tree below the entry has every reachable block, each below its
\* immediate dominator alone.
TreeSpansReachable ==
    pc = "done" =>
        LET doms == DominatorSets(func)
        IN  /\ UNION {tree[b] : b \in DOMAIN doms} = DOMAIN doms \ {Entry}
            /\ \A b \in DOMAIN doms : tree[b] = ChildrenOf(doms, b)

\* The pass comes to its end on every function in which no reachable join
\* has an unreachable predecessor...
TerminatesOnLive == (pc = "dfs" /\ ~HasDeadPredecessor(func)) ~> (pc = "done")

\* ... CodeReading.md says more: Dominators generates the dominator tree, for
\* every function that Mem2Reg runs it on.
Generates == (pc = "dfs") ~> (pc = "done")
=============================================================================
