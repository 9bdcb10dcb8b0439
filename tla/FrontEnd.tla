------------------------------ MODULE FrontEnd ------------------------------
(***************************************************************************)
(* From the text to typed code, as main in cminusfc.cpp goes: the parser,  *)
(* the AST from its tree, and the visits of the expressions.  The texts    *)
(* whose code is examined are those of a sketch with a context: a program  *)
(* with one function at its end, whose body from the place c.from on is a  *)
(* sequence of expression statements and returns.                          *)
(***************************************************************************)
EXTENDS Parser, ExpressionVisitor

VARIABLES ast,   \* AST's root, when it is made
          built  \* what the visitor keeps, at the end

vars == <<parservars, ast, built>>

R == INSTANCE Meaning WITH IntTexts <- Integers, FloatTexts <- Floats

NotVisited == [code |-> << >>]

Init == InitParser /\ ast = Null /\ built = NotVisited

Parse == ParseStep /\ UNCHANGED <<ast, built>>

\* The constructor of AST, after a syntax error as well.  The std::stof of a
\* word ends the program; so does a root that was never set, which is what
\* malloc left there.
MakeAst ==
    /\ verdict \in {"accepted", "error"} /\ ast = Null
    /\ RootSet
    /\ ~Throws(symbols[1])
    /\ ast' = Transform(symbols[1])
    /\ UNCHANGED <<parservars, built>>

Body == SubSeq(text, sketch.context.from, Len(text) - Len(sketch.end))
Meant == R!Effects(Body, sketch.context)

\* The visitor takes for granted that the program is a legal one.
VisitAst ==
    /\ ast # Null /\ built = NotVisited
    /\ "from" \in DOMAIN sketch.context
    /\ R!Legal(Meant)
    /\ built' = VisitProgram(ast)
    /\ UNCHANGED <<parservars, ast>>

Next == Parse \/ MakeAst \/ VisitAst

Spec == Init /\ [][Next]_vars

-----------------------------------------------------------------------------
(* What the code does, in the terms of module Meaning.                     *)

\* The term of a value, by the terms of the instructions so far.
TermAt(terms, v) == IF v.reg = 0 THEN R!Named(v.text) ELSE terms[v.reg]

\* The effects of the code of the last function.
Performed ==
    LET Run(s, i) ==
            LET args == [k \in DOMAIN i.args |-> TermAt(s.terms, i.args[k])]
                term == CASE i.op \in {"load", "call"} ->
                                R!TermOf(i.op, i.on, args, Len(s.done))
                          [] i.op = "gep" ->
                                R!TermOf("gep", "", <<args[1], Last(args)>>, 0)
                          [] OTHER -> R!TermOf(i.op, i.on, args, 0)
                acts == /\ i.op \in {"store", "call", "check", "ret"}
                        /\ s.done = << >> \/ Last(s.done).op # "ret"
            IN  [terms |-> Append(s.terms, term),
                 done |-> IF i.op = "define" THEN << >>
                          ELSE IF acts THEN Append(s.done, R!TermOf(i.op, i.on, args, 0))
                          ELSE s.done]
    IN  FoldLeft(Run, [terms |-> << >>, done |-> << >>], built.code).done

\* The code does what cminusf.md says the text means: the same stores, calls
\* and checks of subscripts, in this order, of values that come about by the
\* same operations and conversions from what was loaded at the same time.
MeaningKept == built # NotVisited => Performed = Meant

TypesOf(s) == [k \in DOMAIN s |-> s[k].type]

\* What LLVM asks of an instruction.  (The constructors' assertValid, which
\* ask part of it, are commented out.)
Valid(i, result) ==
    LET t == TypesOf(i.args)
    IN  CASE i.op \in {"+", "-", "*", "/", "<", "<=", ">", ">=", "==", "!="} ->
                t = <<<<i.on>>, <<i.on>>>>
          [] i.op = "sitofp" -> t = <<IntType>>
          [] i.op = "fptosi" -> t = <<FloatType>>
          [] i.op \in {"zext", "check"} -> t = <<<<"i1">>>>
          [] i.op = "load" -> t = <<Ptr(i.type)>> /\ i.type[1] # "array"
          [] i.op = "store" -> t[2] = Ptr(t[1]) /\ t[1][1] # "array"
          [] i.op = "gep" ->
                /\ \A k \in 2..Len(t) : t[k] = IntType
                /\ IF Len(t) = 3 THEN t[1] = Ptr(Array(ElementType(i.type)))
                   ELSE t[1] = i.type
          [] i.op = "call" -> t = Find(built, i.on).params
          [] i.op = "ret" -> t = IF result = VoidType THEN << >> ELSE <<result>>
          [] OTHER -> i.op \in {"alloca", "define"}

\* Every instruction has operands of the types it is for, so that the
\* assembler that reads the printed code accepts it.
WellTyped ==
    built # NotVisited =>
        LET results == [k \in DOMAIN built.code |->
                LET d == {j \in 1..k : built.code[j].op = "define"}
                IN  built.code[CHOOSE j \in d : \A m \in d : m <= j].type]
        IN  \A k \in DOMAIN built.code :
                Valid(built.code[k], results[k])

-----------------------------------------------------------------------------
(* The AST as a text again, and the text as far as the AST keeps it.       *)

RECURSIVE Yield(_)

YieldAll(s) == FlattenSeq([k \in DOMAIN s |-> Yield(s[k])])

Listed(s) ==
    FlattenSeq([k \in DOMAIN s |-> (IF k = 1 THEN << >> ELSE <<",">>) \o Yield(s[k])])

Enclosed(left, s, right) == <<left>> \o s \o <<right>>

Yield(n) ==
    CASE n.node = "null" -> << >>
      [] n.node = "Program" -> YieldAll(n.declarations)
      [] n.node = "VarDeclaration" ->
            <<n.type, n.id>> \o (IF n.num = Null THEN << >> ELSE Enclosed("[", Yield(n.num), "]"))
            \o <<";">>
      [] n.node = "FunDeclaration" ->
            <<n.type, n.id>>
            \o Enclosed("(", IF n.params = << >> THEN <<"void">> ELSE Listed(n.params), ")")
            \o Yield(n.compound_stmt)
      [] n.node = "Param" -> <<n.type, n.id>> \o (IF n.isarray THEN <<"[", "]">> ELSE << >>)
      [] n.node = "CompoundStmt" ->
            Enclosed("{", YieldAll(n.local_declarations \o n.statement_list), "}")
      [] n.node = "ExpressionStmt" -> Yield(n.expression) \o <<";">>
      [] n.node = "SelectionStmt" ->
            <<"if">> \o Enclosed("(", Yield(n.expression), ")") \o Yield(n.if_statement)
            \o (IF n.else_statement = Null THEN << >>
                ELSE <<"else">> \o Yield(n.else_statement))
      [] n.node = "IterationStmt" ->
            <<"while">> \o Enclosed("(", Yield(n.expression), ")") \o Yield(n.statement)
      [] n.node = "ReturnStmt" -> Enclosed("return", Yield(n.expression), ";")
      [] n.node = "Var" ->
            <<n.id>> \o (IF n.expression = Null THEN << >>
                         ELSE Enclosed("[", Yield(n.expression), "]"))
      [] n.node = "AssignExpression" -> Yield(n.var) \o <<"=">> \o Yield(n.expression)
      [] n.node = "Num" -> <<n.text>>
      [] n.node = "Call" -> <<n.id>> \o Enclosed("(", Listed(n.args), ")")
      [] OTHER -> Yield(n.l) \o (IF n.op = "" THEN << >> ELSE <<n.op>>) \o Yield(n.r)

\* What the parser has read: all of an accepted text.
ReadText == SubSeq(text, 1, Len(text) - Len(SelectSeq(ahead, LAMBDA t : t # "$end")))

\* Without the parentheses that only group: those behind no name, if or while.
Ungrouped(s) ==
    LET Take(q, t) ==
            LET stays == IF t = "(" THEN q.behind \in Ids \cup {"if", "while"}
                         ELSE t = ")" => Last(q.open)
            IN  [out |-> IF stays THEN Append(q.out, t) ELSE q.out,
                 open |-> CASE t = "(" -> Append(q.open, stays)
                            [] t = ")" -> Front(q.open)
                            [] OTHER -> q.open,
                 behind |-> t]
    IN  FoldLeft(Take, [out |-> << >>, open |-> << >>, behind |-> ""], s).out

\* With the types as the AST has them: a variable that is not int is float,
\* and a function that is neither is void.  (The grammar takes void for the
\* type of a variable, and the lexer a number with a point for float.)
AsTyped(s) ==
    LET Declares(k) == k < Len(s) /\ Token(s[k]) \in {"INT", "FLOAT", "VOID"} /\ s[k + 1] \in Ids
        Function(k) == k + 2 <= Len(s) /\ s[k + 2] = "("
    IN  [k \in DOMAIN s |->
            IF ~Declares(k) \/ s[k] = "int" THEN s[k]
            ELSE IF Function(k) /\ s[k] # "float" THEN "void" ELSE "float"]

\* The statement ends with an if that an else could follow.
RECURSIVE OpenEnded(_)
OpenEnded(n) ==
    \/ n.node = "SelectionStmt" /\ (n.else_statement = Null \/ OpenEnded(n.else_statement))
    \/ n.node = "IterationStmt" /\ OpenEnded(n.statement)

RECURSIVE ElseInner(_)
ElseInner(n) ==
    CASE n.node = "Program" -> \A k \in DOMAIN n.declarations : ElseInner(n.declarations[k])
      [] n.node = "FunDeclaration" -> ElseInner(n.compound_stmt)
      [] n.node = "CompoundStmt" ->
            \A k \in DOMAIN n.statement_list : ElseInner(n.statement_list[k])
      [] n.node = "IterationStmt" -> ElseInner(n.statement)
      [] n.node = "SelectionStmt" ->
            /\ n.else_statement # Null => ~OpenEnded(n.if_statement)
            /\ ElseInner(n.if_statement) /\ ElseInner(n.else_statement)
      [] OTHER -> TRUE

\* The AST is what was read: written out again it is the text, nothing lost,
\* doubled or out of order in the lists that are flattened, no bracket or list
\* taken for another, and an else belongs to the nearest if (cminusf.md).  If
\* the text has a syntax error behind a complete declaration, the program is
\* compiled nevertheless, and it is all that precedes the error.  (Which
\* operands an operator has is what MeaningKept is about.)
TextKept ==
    ast # Null =>
        /\ Yield(ast) = AsTyped(Ungrouped(ReadText))
        /\ ElseInner(ast)
=============================================================================
