--------------------------- MODULE CminusfBuilder ---------------------------
(***************************************************************************)
(* cminusf_builder.cpp: the AST visitor that turns a program into LightIR. *)
(* The syntax tree is not a value of the model.  A step is the visit of    *)
(* one declaration or statement, chosen freely among those the grammar     *)
(* allows next, so the behaviours are the visits of all programs up to the *)
(* bounds.  The pending visits are a stack of frames, the C++ call stack:  *)
(*   "fun"       the visit of a function declaration                       *)
(*   "compound"  flag: isToExit, the compound leaves a scope at its end    *)
(*   "then"      at: falseBB, next: nextBB, flag: there is an else part    *)
(*   "else"      next: nextBB                                              *)
(*   "body"      at: judgeBB, next: OutloopBB                              *)
(* ctl says what is visited next: a "global" declaration, the "compound"   *)
(* of a function, the "decls" or the statement "list" of a compound, the   *)
(* one "stmt" of an if or while; or the visit of a statement is "done" and *)
(* the visitor above it goes on.                                           *)
(***************************************************************************)
EXTENDS LightIR, FiniteSets

CONSTANTS Name,       \* names of scalar variables
          Expr,       \* expressions, one term or the sum of two: see Term
          ToElement,  \* bound: those of them that are assigned to an element
          Undeclared, \* what Scope::find returns for an unknown name
          MaxItems,   \* bound: declarations and statements of a program
          MaxFuns     \* bound: functions of a program

ASSUME CminusfBuilderAssumption ==
    /\ \A e \in Expr : /\ e \in Seq({"0", "1", "call", "index"} \cup Name)
                       /\ Len(e) \in {1, 2}
    /\ Name \cap {"0", "1", "call", "index"} = {}
    /\ Undeclared \notin Operands
    /\ MaxItems \in Nat /\ MaxFuns \in Nat

\* func is nowfunc: the function under construction, or the last one.
VARIABLES insert,   \* builder->get_insert_block()
          scope,    \* Scope::inner, a name table per scope
          inFunc,
          stack, ctl, items, funs

vars == <<func, insert, scope, inFunc, stack, ctl, items, funs>>

Frame(kind, at, next, flag) ==
    [kind |-> kind, at |-> at, next |-> next, flag |-> flag]

NoNames == [n \in Name |-> Undeclared]

-----------------------------------------------------------------------------
\* Scope::push into the last scope; its caller ignores that the name exists.
Push(sc, n, s) ==
    IF Last(sc)[n] = Undeclared THEN [sc EXCEPT ![Len(sc)][n] = s] ELSE sc

\* Scope::find, from the innermost scope outwards.
Find(sc, n) ==
    LET declaring == {k \in DOMAIN sc : sc[k][n] # Undeclared}
    IN  IF declaring = {} THEN Undeclared
        ELSE sc[CHOOSE k \in declaring : \A j \in declaring : j <= k][n]

\* ASTVar with a subscript: a negative index leaves the function.  The true
\* and the false block follow f's blocks; code goes on in the false block.
CheckIndex(f, b, i) ==
    LET t == NewestBlock(f) + 1
        c == AddInstruction(f, b, Pure("lt", <<i, Literal(0)>>))
        g == CreateCondBr(NewBlock(NewBlock(c)), b, NextPlace(f, b), t, t + 1)
    IN  AddInstruction(AddInstruction(g, t, Call), t, Ret(Literal(0)))

\* The address of element 1 of a global array, at the end of block c.
AddressOf(f, c) ==
    [f |-> AddInstruction(f, c, Pure("gep", <<Global, Literal(1)>>)), at |-> c,
     val |-> NextPlace(f, c)]

\* The element, in r: the function, the insert block and val, which becomes
\* the element's address.
Element(r) ==
    LET g == CheckIndex(r.f, r.at, Literal(1)) IN AddressOf(g, NewestBlock(g))

\* The value at the address that r holds.
LoadedFrom(r) ==
    [f |-> AddInstruction(r.f, r.at, Load(r.val)), at |-> r.at, val |-> NextPlace(r.f, r.at)]

\* The visit of a term.  A literal emits nothing; "index" reads the element.
Term(r, e) ==
    CASE e = "0" -> [r EXCEPT !.val = Literal(0)]
      [] e = "1" -> [r EXCEPT !.val = Literal(1)]
      [] e = "call" ->
            [r EXCEPT !.f = AddInstruction(@, r.at, Call), !.val = NextPlace(r.f, r.at)]
      [] e = "index" -> LoadedFrom(Element(r))
      [] OTHER ->
            [r EXCEPT !.f = AddInstruction(@, r.at, Load(Find(scope, e))),
                      !.val = NextPlace(r.f, r.at)]

\* visit(ASTAdditiveExpression): the left operand's value, then the right
\* operand, then the addition where the code has come to.
AddTerm(r, e) ==
    LET q == Term(r, e)
    IN  [q EXCEPT !.f = AddInstruction(@, q.at, Pure("add", <<r.val, q.val>>)),
                  !.val = NextPlace(q.f, q.at)]

\* The visit of an expression at block b.
Eval(f, b, e) ==
    LET r == Term([f |-> f, at |-> b, val |-> Literal(0)], e[1])
    IN  IF Len(e) = 1 THEN r ELSE AddTerm(r, e[2])

\* The comparison of the value with zero and the branch on it.
Branch(v, t, e) ==
    LET c == AddInstruction(v.f, v.at, Pure("ne", <<v.val, Literal(0)>>))
    IN  CreateCondBr(c, v.at, NextPlace(v.f, v.at), t, e)

Declared(e) == \A n \in ToSet(e) \cap Name : Find(scope, n) # Undeclared

\* A statement whose visit ended: on with the list, or back to its visitor.
After(stk) == IF Last(stk).kind = "compound" THEN "list" ELSE "done"

\* A statement may be visited now; one more fits in the bound.
AtStatement ==
    /\ ctl \in {"decls", "list", "stmt"}
    /\ items < MaxItems
    /\ items' = items + 1

-----------------------------------------------------------------------------
Init ==
    /\ func = EmptyFunction
    /\ insert = Entry
    /\ scope = <<NoNames>>
    /\ inFunc = FALSE
    /\ stack = << >>
    /\ ctl = "global"
    /\ items = 0
    /\ funs = 0

\* visit(ASTVarDeclaration): a global at depth one, else an alloca here.
VarDeclaration(n) ==
    /\ ctl \in {"global", "decls"}
    /\ items < MaxItems
    /\ items' = items + 1
    /\ IF Len(scope) = 1
       THEN /\ scope' = Push(scope, n, Global)
            /\ UNCHANGED func
       ELSE LET s == NextPlace(func, insert)
            IN  /\ func' = AddInstruction(func, insert, Alloca(s))
                /\ scope' = Push(scope, n, s)
    /\ UNCHANGED <<insert, inFunc, stack, ctl, funs>>

\* visit(ASTFunDeclaration) up to the visit of the body, without or with a
\* parameter.
FunDeclaration(params) ==
    /\ ctl = "global"
    /\ funs < MaxFuns
    /\ funs' = funs + 1
    /\ insert' = Entry
    /\ inFunc' = TRUE
    /\ stack' = Append(stack, Frame("fun", 0, 0, FALSE))
    /\ ctl' = "compound"
    /\ LET f == NewBlock(EmptyFunction)
           s == NextPlace(f, Entry)
           sc == Append(scope, NoNames)
       IN  IF params = << >>
           THEN func' = f /\ scope' = sc
           ELSE /\ func' = AddInstruction(AddInstruction(f, Entry, Alloca(s)),
                                          Entry, Store(s, Argument))
                /\ scope' = Push(sc, params[1], s)
    /\ UNCHANGED items

\* The end of visit(ASTFunDeclaration): a default return, if the last block
\* has no terminator.
EndFunction ==
    /\ ctl = "done"
    /\ Last(stack).kind = "fun"
    /\ func' = IF HasTerminator(func, insert) THEN func
               ELSE AddInstruction(func, insert, Ret(Literal(0)))
    /\ scope' = Front(scope)
    /\ inFunc' = FALSE
    /\ stack' = << >>
    /\ ctl' = "global"
    /\ UNCHANGED <<insert, items, funs>>

\* Fault: inFunc stays set, so inner compounds open no scope.
OpenCompound_KeepsInFunc ==
    /\ \/ ctl = "compound" /\ UNCHANGED items
       \/ AtStatement
    /\ scope' = IF inFunc THEN scope ELSE Append(scope, NoNames)
    /\ stack' = Append(stack, Frame("compound", 0, 0, ~inFunc))
    /\ ctl' = "decls"
    /\ UNCHANGED <<func, insert, inFunc, funs>>

\* visit(ASTCompoundStmt) up to its declarations.  The function's own
\* compound shares the scope of the parameters.
OpenCompound ==
    /\ \/ ctl = "compound" /\ UNCHANGED items
       \/ AtStatement
    /\ scope' = IF inFunc THEN scope ELSE Append(scope, NoNames)
    /\ stack' = Append(stack, Frame("compound", 0, 0, ~inFunc))
    /\ inFunc' = FALSE
    /\ ctl' = "decls"
    /\ UNCHANGED <<func, insert, funs>>

\* Fault: every compound leaves a scope, the function's too.
CloseCompound_AlwaysExits ==
    /\ ctl \in {"decls", "list"}
    /\ scope' = Front(scope)
    /\ stack' = Front(stack)
    /\ ctl' = After(Front(stack))
    /\ UNCHANGED <<func, insert, inFunc, items, funs>>

\* Fault: isToExit is read from inFunc, which the declarations have reset.
CloseCompound_NeverExits ==
    /\ ctl \in {"decls", "list"}
    /\ stack' = Front(stack)
    /\ ctl' = After(Front(stack))
    /\ UNCHANGED <<func, insert, scope, inFunc, items, funs>>

CloseCompound ==
    /\ ctl \in {"decls", "list"}
    /\ scope' = IF Last(stack).flag THEN Front(scope) ELSE scope
    /\ stack' = Front(stack)
    /\ ctl' = After(Front(stack))
    /\ UNCHANGED <<func, insert, inFunc, items, funs>>

\* visit(ASTExpressionStmt), with an expression that is not an assignment.
ExpressionStmt(e) ==
    /\ AtStatement
    /\ Declared(e)
    /\ LET v == Eval(func, insert, e) IN func' = v.f /\ insert' = v.at
    /\ ctl' = After(stack)
    /\ UNCHANGED <<scope, inFunc, stack, funs>>

\* visit(ASTAssignExpression) to the scalar n: the value's code, the store.
AssignStmt(n, e) ==
    /\ AtStatement
    /\ Declared(<<n>>) /\ Declared(e)
    /\ LET v == Eval(func, insert, e)
       IN  /\ func' = AddInstruction(v.f, v.at, Store(Find(scope, n), v.val))
           /\ insert' = v.at
    /\ ctl' = After(stack)
    /\ UNCHANGED <<scope, inFunc, stack, funs>>

\* The same to the element: its address comes first, and with it the blocks of
\* the check.
AssignElement(e) ==
    /\ AtStatement
    /\ e \in ToElement
    /\ Declared(e)
    /\ LET a == Element([f |-> func, at |-> insert, val |-> Literal(0)])
           v == Eval(a.f, a.at, e)
       IN  /\ func' = AddInstruction(v.f, v.at, Store(a.val, v.val))
           /\ insert' = v.at
    /\ ctl' = After(stack)
    /\ UNCHANGED <<scope, inFunc, stack, funs>>

ReturnStmt(e) ==
    /\ AtStatement
    /\ Declared(e)
    /\ LET v == Eval(func, insert, e)
       IN func' = AddInstruction(v.f, v.at, Ret(v.val)) /\ insert' = v.at
    /\ ctl' = After(stack)
    /\ UNCHANGED <<scope, inFunc, stack, funs>>

\* visit(ASTSelectionStmt) up to its first statement: trueBB, falseBB and
\* nextBB are made after the blocks of the condition.
SelectionStmt(e, hasElse) ==
    /\ AtStatement
    /\ Declared(e)
    /\ LET v == Eval(func, insert, e)
           t == NewestBlock(v.f) + 1
           f == NewBlock(NewBlock(NewBlock(v.f)))
       IN  /\ func' = Branch([v EXCEPT !.f = f], t, t + 1)
           /\ insert' = t
           /\ stack' = Append(stack, Frame("then", t + 1, t + 2, hasElse))
    /\ ctl' = "stmt"
    /\ UNCHANGED <<scope, inFunc, funs>>

\* builder->create_br(target) where the insert block has no terminator yet.
CloseBranch(target) ==
    IF HasTerminator(func, insert) THEN func ELSE CreateBr(func, insert, target)

\* Fault: the true branch never jumps to nextBB.
EndThen_NoBr ==
    LET top == Last(stack)
    IN  /\ ctl = "done"
        /\ top.kind = "then"
        /\ IF top.flag
           THEN /\ func' = func
                /\ insert' = top.at
                /\ stack' = Append(Front(stack), Frame("else", 0, top.next, FALSE))
                /\ ctl' = "stmt"
           ELSE /\ func' = CreateBr(func, top.at, top.next)
                /\ insert' = top.next
                /\ stack' = Front(stack)
                /\ ctl' = After(Front(stack))
        /\ UNCHANGED <<scope, inFunc, items, funs>>

\* After the true branch: on to the else part, or falseBB jumps to nextBB.
EndThen ==
    LET top == Last(stack)
    IN  /\ ctl = "done"
        /\ top.kind = "then"
        /\ IF top.flag
           THEN /\ func' = CloseBranch(top.next)
                /\ insert' = top.at
                /\ stack' = Append(Front(stack), Frame("else", 0, top.next, FALSE))
                /\ ctl' = "stmt"
           ELSE /\ func' = CreateBr(CloseBranch(top.next), top.at, top.next)
                /\ insert' = top.next
                /\ stack' = Front(stack)
                /\ ctl' = After(Front(stack))
        /\ UNCHANGED <<scope, inFunc, items, funs>>

EndElse ==
    LET top == Last(stack)
    IN  /\ ctl = "done"
        /\ top.kind = "else"
        /\ func' = CloseBranch(top.next)
        /\ insert' = top.next
        /\ stack' = Front(stack)
        /\ ctl' = After(Front(stack))
        /\ UNCHANGED <<scope, inFunc, items, funs>>

\* Fault: an empty insert block is taken for judgeBB.
IterationStmt_ReusesBlock(e) ==
    /\ AtStatement
    /\ Declared(e)
    /\ LET j == NewestBlock(func) + 1
           h == IF func.code[insert] = << >> THEN insert ELSE j
           f == NewBlock(NewBlock(NewBlock(func)))
           v == Eval(IF h = j THEN CreateBr(f, insert, j) ELSE f, h, e)
       IN  /\ func' = Branch(v, j + 1, j + 2)
           /\ insert' = j + 1
           /\ stack' = Append(stack, Frame("body", h, j + 2, FALSE))
    /\ ctl' = "stmt"
    /\ UNCHANGED <<scope, inFunc, funs>>

\* visit(ASTIterationStmt) up to its statement: judgeBB, loopBB and OutloopBB
\* are made before the condition, which is evaluated in judgeBB.
IterationStmt(e) ==
    /\ AtStatement
    /\ Declared(e)
    /\ LET j == NewestBlock(func) + 1
           f == CreateBr(NewBlock(NewBlock(NewBlock(func))), insert, j)
           v == Eval(f, j, e)
       IN  /\ func' = Branch(v, j + 1, j + 2)
           /\ insert' = j + 1
           /\ stack' = Append(stack, Frame("body", j, j + 2, FALSE))
    /\ ctl' = "stmt"
    /\ UNCHANGED <<scope, inFunc, funs>>

EndBody ==
    LET top == Last(stack)
    IN  /\ ctl = "done"
        /\ top.kind = "body"
        /\ func' = CloseBranch(top.at)
        /\ insert' = top.next
        /\ stack' = Front(stack)
        /\ ctl' = After(Front(stack))
        /\ UNCHANGED <<scope, inFunc, items, funs>>

Next ==
    \/ \E n \in Name : VarDeclaration(n)
    \/ FunDeclaration(<< >>)
    \/ \E n \in Name : FunDeclaration(<<n>>)
    \/ EndFunction
    \/ OpenCompound
    \/ CloseCompound
    \/ \E e \in Expr : ExpressionStmt(e) \/ ReturnStmt(e) \/ IterationStmt(e)
                     \/ AssignElement(e)
    \/ \E n \in Name, e \in Expr : AssignStmt(n, e)
    \/ \E e \in Expr, hasElse \in BOOLEAN : SelectionStmt(e, hasElse)
    \/ EndThen
    \/ EndElse
    \/ EndBody

Spec == Init /\ [][Next]_vars

-----------------------------------------------------------------------------
Frames == [kind : {"fun", "compound", "then", "else", "body"},
           at : Nat, next : Nat, flag : BOOLEAN]

TypeOK ==
    /\ WellFormed(func)
    /\ insert \in Blocks(func) \cup {Entry}
    /\ scope \in Seq([Name -> Operands \cup {Undeclared}]) \ {<< >>}
    /\ \A k \in DOMAIN scope : \A n \in Name :
        scope[k][n] = Undeclared \/ IsPlace(func, scope[k][n])
    /\ inFunc \in BOOLEAN
    /\ stack \in Seq(Frames)
    /\ \A k \in DOMAIN stack :
        {stack[k].at, stack[k].next} \subseteq Blocks(func) \cup {0}
    /\ ctl \in {"global", "compound", "decls", "list", "stmt", "done"}
    /\ items \in 0..MaxItems
    /\ funs \in 0..MaxFuns

Finished == ctl = "global" /\ func # EmptyFunction

\* BranchInst keeps the graph three times: in the branches, in succ_bbs_ of
\* the source and in pre_bbs_ of the target.  The three agree, edge by edge.
EdgesAgree ==
    \A b \in Blocks(func) :
        /\ \A p \in Pre(func, b) : b \in Succ(func, p)
        /\ \A t \in Succ(func, b) \cup UNION {ToSet(i.to) : i \in ToSet(func.code[b])} :
            LET edges == Cardinality(BranchesTo(func, b, t))
            IN  /\ Cardinality(Occurrences(func.succ[b], t)) = edges
                /\ Cardinality(Occurrences(func.pre[t], b)) = edges

\* The blocks that a pending visit is still to enter or to close.
Awaits(frame) ==
    CASE frame.kind = "then" -> {frame.at, frame.next}
      [] frame.kind \in {"else", "body"} -> {frame.next}
      [] OTHER -> {}

Pending == {insert} \cup UNION {Awaits(stack[k]) : k \in DOMAIN stack}

\* A block without a terminator at its end is one that a pending visit will
\* still fill, so that in a finished function, where only the default return
\* can close the last block, every block ends in ret or br.
OpenBlocksPending ==
    \A b \in OpenBlocks(func) : b \in Pending /\ ~Finished

\* What the passes take a loop for: every cycle of reachable blocks passes
\* through an edge back to a block that dominates the source, and such a
\* header is entered from one block only besides its back edges
\* (LoopSearch and LoopInvHoist use the first outside predecessor).  The entry
\* block is no header, not even for unreachable code: Dominators makes it its
\* own immediate dominator and Mem2Reg never places a phi there.
LoopsHaveOneEntry ==
    Finished =>
    LET doms == DominatorSets(func)
        live == DOMAIN doms
        Forward(b) == {t \in Succ(func, b) : t \notin doms[b]}
        Onward == [b \in live |->
            LET R[S \in SUBSET live] ==
                    LET T == S \cup UNION {Forward(c) : c \in S}
                    IN  IF T = S THEN S ELSE R[T]
            IN R[Forward(b)]]
    IN  /\ func.pre[Entry] = << >>
        /\ \A h \in live :
            /\ h \notin Onward[h]
            /\ (\E b \in Pre(func, h) \cap live : h \in doms[b]) =>
                 Cardinality({p \in Pre(func, h) \cap live : h \notin doms[p]}) = 1

\* The compound of a function shares the scope of the parameters; each other
\* compound has a scope of its own, left at its end, so in_global is right.
ScopePerCompound ==
    LET compounds == Cardinality({k \in DOMAIN stack : stack[k].kind = "compound"})
    IN  Len(scope) = IF ctl = "global" THEN 1
                     ELSE IF compounds = 0 THEN 2 ELSE compounds + 1

\* The storages in scope are allocas of this function.
StoragesAreAllocas ==
    \A k \in DOMAIN scope, n \in Name :
        LET s == scope[k][n]
        IN  \/ s = Undeclared
            \/ s = Global /\ k = 1
            \/ k > 1 /\ s \in Blocks(func) \X Nat /\ func.code[s[1]][s[2]].op = "alloca"

\* A name never resolves to a storage of another function or of a compound
\* that was left; at the global level no storage is in scope.  That rests on
\* inFunc, by which the compound of a function is told from all others.
LocalsAreLocal == ScopePerCompound /\ StoragesAreAllocas

\* Each load and store of a local is dominated by the alloca that makes it.
StorageDominatesUses ==
    Finished =>
    LET doms == DominatorSets(func)
    IN  \A b \in DOMAIN doms : \A k \in DOMAIN func.code[b] :
            LET i == func.code[b][k]
            IN  i.op \in {"load", "store"} /\ i.var # Global =>
                    /\ i.var[1] \in doms[b]
                    /\ i.var[1] = b => i.var[2] < k

\* lightir.md: a basic block can have one terminating instruction only.
OneTerminator ==
    \A b \in Blocks(func) :
        Cardinality({k \in DOMAIN func.code[b] : IsTerminator(func.code[b][k])}) <= 1
=============================================================================
