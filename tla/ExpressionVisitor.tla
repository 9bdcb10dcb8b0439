------------------------- MODULE ExpressionVisitor --------------------------
(***************************************************************************)
(* cminusf_builder.cpp once more: the visits of the expressions, with the  *)
(* types that module CminusfBuilder leaves out, and of the declarations    *)
(* and statements around them, without if and while, which it has.  A      *)
(* visit changes a record of what the visitor keeps:                       *)
(*   scope  Scope::inner, a function from names for each scope             *)
(*   code   the instructions, in the order of creation                     *)
(*   val    the value of the expression just visited                       *)
(*   flag   the target of an assignment is visited: its address is wanted  *)
(*   fun    nowfunc: the result type of the function                       *)
(* A value is the number of its instruction or a constant, with its type:  *)
(* <<"int">>, <<"float">>, <<"i1">>, or <<"ptr">> or <<"array">> before    *)
(* the type of what is pointed to.                                         *)
(***************************************************************************)
EXTENDS Ast, TypeNames, TLC

Ptr(t) == <<"ptr">> \o t
Array(t) == <<"array">> \o t

IsInt(t) == t \in {IntType, <<"i1">>}
IsFloat(t) == t = FloatType
IsPtr(t) == t[1] = "ptr"
ElementType(t) == Tail(t)

\* reg: an instruction; text: a literal, or the name of what has one.
Const(text, type) == [reg |-> 0, text |-> text, type |-> type]
Zero == Const("0", IntType)

\* A new instruction.  "on" tells the two instructions of an operator apart,
\* and names the function of a call and the variable of an alloca.
Emit(r, op, on, args, type) ==
    [r EXCEPT !.code = Append(@, [op |-> op, on |-> on, args |-> args, type |-> type]),
              !.val = [reg |-> Len(r.code) + 1, text |-> "", type |-> type]]

Find(r, n) ==
    LET declaring == {k \in DOMAIN r.scope : n \in DOMAIN r.scope[k]}
    IN  r.scope[CHOOSE k \in declaring : \A j \in declaring : j <= k][n]

Push(r, n, v) ==
    IF n \in DOMAIN Last(r.scope) THEN r
    ELSE [r EXCEPT !.scope[Len(r.scope)] = (n :> v) @@ @]

-----------------------------------------------------------------------------
(* The constructors of the instructions, which give them their types.      *)

CreateAlloca(r, n, type) == Emit(r, "alloca", n, << >>, Ptr(type))

CreateStore(r, v, addr) == Emit(r, "store", "", <<v, addr>>, VoidType)

CreateLoad(r, addr) == Emit(r, "load", "", <<addr>>, ElementType(addr.type))

\* get_element_type: the first index stays at what the pointer points to, a
\* second one goes into the array there.
Indexed(addr, indices) ==
    LET t == ElementType(addr.type)
    IN  IF t[1] = "array" /\ Len(indices) > 1 THEN ElementType(t) ELSE t

CreateGep(r, addr, indices) ==
    Emit(r, "gep", "", <<addr>> \o indices, Ptr(Indexed(addr, indices)))

CreateCmp(r, op, on, both) == Emit(r, op, on, both, <<"i1">>)

CreateRet(r, values) == Emit(r, "ret", "", values, VoidType)

\* The numbers of arguments and parameters are the same, or it aborts.
CreateCall(r, n, f, args) == Emit(r, "call", n, args, f.type)

ToFloat(r) == Emit(r, "sitofp", "", <<r.val>>, FloatType)
ToInt(r) == Emit(r, "fptosi", "", <<r.val>>, IntType)

\* Two operands, the visited r.val and l before it, to one type: sitofp for
\* the one that is an integer beside a float.  What is done is in "both".
Promoted(r, l) ==
    IF IsInt(l.type) /\ IsInt(r.val.type)
    THEN [r |-> r, on |-> "int", both |-> <<l, r.val>>]
    ELSE LET q == IF IsInt(l.type) THEN ToFloat([r EXCEPT !.val = l])
                  ELSE [r EXCEPT !.val = l]
             p == IF IsInt(r.val.type) THEN ToFloat([q EXCEPT !.val = r.val])
                  ELSE [q EXCEPT !.val = r.val]
         IN  [r |-> p, on |-> "float", both |-> <<q.val, p.val>>]

\* Fault: the two conversions are swapped.
ConvertedTo_Swapped(r, t) ==
    IF r.val.type = t THEN r ELSE IF IsInt(t) THEN ToFloat(r) ELSE ToInt(r)

\* r.val as a value of type t, by the conversion that leads away from its type.
ConvertedTo(r, t) ==
    IF r.val.type = t THEN r ELSE IF IsInt(t) THEN ToInt(r) ELSE ToFloat(r)

\* An argument for a parameter of type t; pointers are passed as they are.
Passed(r, t) ==
    IF IsPtr(r.val.type) \/ r.val.type = t THEN r
    ELSE IF IsInt(r.val.type) THEN ToFloat(r) ELSE ToInt(r)

\* What a variable's address is used for, when it has no subscript.
Whole(r, addr) ==
    IF r.flag THEN [r EXCEPT !.val = addr, !.flag = FALSE]
    ELSE IF ElementType(addr.type)[1] # "array" THEN CreateLoad(r, addr)
    ELSE CreateGep(r, addr, <<Zero, Zero>>)

\* The address of element i of the variable at addr.
ElementAt(r, addr, i) ==
    CASE IsPtr(ElementType(addr.type)) ->
            LET l == CreateLoad(r, addr) IN CreateGep(l, l.val, <<i>>)
      [] ElementType(addr.type)[1] = "array" -> CreateGep(r, addr, <<Zero, i>>)
      [] OTHER -> CreateGep(r, addr, <<i>>)

\* The subscript r.val is made an integer and checked, the code goes on where
\* it is not negative ("check" stands for the branch and for the block that
\* leaves the function).
CheckedIndex(r) ==
    LET i == IF IsFloat(r.val.type) THEN ToInt(r) ELSE r
        c == CreateCmp(i, "<", "int", <<i.val, Zero>>)
    IN  [Emit(c, "check", "", <<c.val>>, VoidType) EXCEPT !.val = i.val]

\* The element at r.val of the variable at addr, or its address.
Element(r, addr, wanted) ==
    LET i == CheckedIndex(r)
        p == ElementAt(i, addr, i.val)
    IN  [(IF wanted THEN p ELSE CreateLoad(p, p.val)) EXCEPT !.flag = FALSE]

RECURSIVE Visit(_, _)

\* Fault: the flag is still up when the subscript is visited.
VisitVar_LateReset(r, n) ==
    IF n.expression = Null THEN Whole(r, Find(r, n.id))
    ELSE Element(Visit(r, n.expression), Find(r, n.id), r.flag)

VisitVar(r, n) ==
    IF n.expression = Null THEN Whole(r, Find(r, n.id))
    ELSE Element(Visit([r EXCEPT !.flag = FALSE], n.expression), Find(r, n.id), r.flag)

\* The address first, then the expression, whose value is converted, stored,
\* and the value of the assignment.
VisitAssign(r, n) ==
    LET a == Visit([r EXCEPT !.flag = TRUE], n.var)
        e == ConvertedTo(Visit(a, n.expression), ElementType(a.val.type))
    IN  [CreateStore(e, e.val, a.val) EXCEPT !.val = e.val]

VisitOperands(r, n) ==
    LET l == Visit(r, n.l) IN Promoted(Visit(l, n.r), l.val)

VisitSimple(r, n) ==
    IF n.r = Null THEN Visit(r, n.l)
    ELSE LET p == VisitOperands(r, n)
             c == CreateCmp(p.r, n.op, p.on, p.both)
         IN  Emit(c, "zext", "", <<c.val>>, IntType)

\* Sums and products are alike.
VisitArithmetic(r, n) ==
    IF n.l = Null THEN Visit(r, n.r)
    ELSE LET p == VisitOperands(r, n)
         IN  Emit(p.r, n.op, p.on, p.both, <<p.on>>)

\* The arguments from left to right, each converted before the next.
VisitCall(r, n) ==
    LET f == Find(r, n.id)
        Next(q, k) ==
            LET a == Passed(Visit(q.r, n.args[k]), f.params[k])
            IN  [r |-> a, args |-> Append(q.args, a.val)]
        q == FoldLeft(Next, [r |-> r, args |-> << >>], [k \in DOMAIN n.args |-> k])
    IN  CreateCall(q.r, n.id, f, q.args)

Visit(r, n) ==
    CASE n.node = "Num" -> [r EXCEPT !.val = Const(n.text, <<n.type>>)]
      [] n.node = "Var" -> VisitVar(r, n)
      [] n.node = "AssignExpression" -> VisitAssign(r, n)
      [] n.node = "SimpleExpression" -> VisitSimple(r, n)
      [] n.node \in {"AdditiveExpression", "Term"} -> VisitArithmetic(r, n)
      [] n.node = "Call" -> VisitCall(r, n)

-----------------------------------------------------------------------------
\* The type of a variable: of one value, or an array of them.
DeclaredType(d) == IF d.num = Null THEN <<d.type>> ELSE Array(<<d.type>>)

VisitVarDeclaration(r, d) ==
    IF Len(r.scope) = 1 THEN Push(r, d.id, Const(d.id, Ptr(DeclaredType(d))))
    ELSE LET a == CreateAlloca(r, d.id, DeclaredType(d)) IN Push(a, d.id, a.val)

ParamType(p) == IF p.isarray THEN Ptr(<<p.type>>) ELSE <<p.type>>

VisitParam(r, p) ==
    LET a == CreateAlloca(r, p.id, ParamType(p))
    IN  Push(CreateStore(a, Const(p.id, ParamType(p)), a.val), p.id, a.val)

VisitReturn(r, n) ==
    IF n.expression = Null THEN CreateRet(r, << >>)
    ELSE LET e == ConvertedTo(Visit(r, n.expression), r.fun) IN CreateRet(e, <<e.val>>)

RECURSIVE VisitStatement(_, _)

VisitCompound(r, n) ==
    FoldLeft(VisitStatement, FoldLeft(VisitVarDeclaration, r, n.local_declarations),
             n.statement_list)

\* A compound that is no function's has a scope of its own.
VisitInScope(r, n) ==
    [VisitCompound([r EXCEPT !.scope = Append(@, << >>)], n) EXCEPT !.scope = Front(@)]

VisitStatement(r, n) ==
    CASE n.node = "CompoundStmt" -> VisitInScope(r, n)
      [] n.node = "ReturnStmt" -> VisitReturn(r, n)
      [] n.node = "ExpressionStmt" ->
            IF n.expression = Null THEN r ELSE Visit(r, n.expression)

\* "define" begins a function.
Begun(r, n, f) ==
    [Emit(Push(r, n.id, f), "define", n.id, << >>, f.type)
        EXCEPT !.scope = Append(@, << >>), !.fun = f.type]

\* A function without a return at its end gets one.
Ended(r) ==
    IF Last(r.code).op = "ret" THEN r
    ELSE CreateRet(r, IF r.fun = VoidType THEN << >> ELSE <<Const("0", r.fun)>>)

VisitFunDeclaration(r, n) ==
    LET f == [params |-> [k \in DOMAIN n.params |-> ParamType(n.params[k])],
              type |-> <<n.type>>]
        p == FoldLeft(VisitParam, Begun(r, n, f), n.params)
    IN  [Ended(VisitCompound(p, n.compound_stmt)) EXCEPT !.scope = Front(@)]

\* The constructor's four functions.
Predeclared ==
    "input" :> [params |-> << >>, type |-> IntType]
    @@ "output" :> [params |-> <<IntType>>, type |-> VoidType]
    @@ "outputFloat" :> [params |-> <<FloatType>>, type |-> VoidType]
    @@ "neg_idx_except" :> [params |-> << >>, type |-> VoidType]

VisitProgram(n) ==
    LET Next(r, d) == IF d.node = "VarDeclaration" THEN VisitVarDeclaration(r, d)
                      ELSE VisitFunDeclaration(r, d)
    IN  FoldLeft(Next, [scope |-> <<Predeclared>>, code |-> << >>, val |-> Zero,
                        flag |-> FALSE, fun |-> VoidType], n.declarations)
=============================================================================
