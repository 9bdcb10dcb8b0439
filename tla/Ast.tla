-------------------------------- MODULE Ast ---------------------------------
(***************************************************************************)
(* ast.cpp: from the syntax tree to the AST, a tree of records with the    *)
(* fields of the structs in ast.hpp.  A null pointer is Null.              *)
(***************************************************************************)
EXTENDS Naturals, Sequences, SequencesExt

Null == [node |-> "null"]

\* The flattening of a list whose nodes have k children, the last of them the
\* element: along the first children, with a stack, so that the order of the
\* text comes back.  The innermost node has its element for a first child.
RECURSIVE Elements(_, _)
Elements(list, k) ==
    IF Len(list.children) = k
    THEN Append(Elements(list.children[1], k), list.children[k])
    ELSE <<list.children[1]>>

\* The same, where the innermost node stands for nothing.
ElementsOfAny(list, k) == Tail(Elements(list, k))

\* The type of a variable or parameter, and that of a function's result.
VarType(n) == IF n.children[1].name = "int" THEN "int" ELSE "float"
ResultType(n) ==
    IF n.children[1].name \in {"int", "float"} THEN n.children[1].name ELSE "void"

\* A number is read with std::stoi or std::stof, which throws at a word.
Num(type, n) == [node |-> "Num", type |-> type, text |-> n.name]

RECURSIVE Transform(_)

TransformAll(s) == [k \in DOMAIN s |-> Transform(s[k])]

\* A node with an operator: a chain of one operand is the operand's node.
Binary(n, node) ==
    IF Len(n.children) = 3
    THEN [node |-> node, l |-> Transform(n.children[1]),
          op |-> n.children[2].children[1].name, r |-> Transform(n.children[3])]
    ELSE [node |-> node, l |-> Null, op |-> "", r |-> Transform(n.children[1])]

Declaration(c) ==
    [node |-> "VarDeclaration", type |-> VarType(c[1]), id |-> c[2].name,
     num |-> IF Len(c) = 3 THEN Null ELSE Num("int", c[4])]

FunDeclaration(c) ==
    [node |-> "FunDeclaration", type |-> ResultType(c[1]), id |-> c[2].name,
     params |-> LET list == c[4].children[1]
                IN  IF list.children = << >> THEN << >>
                    ELSE TransformAll(Elements(list, 3)),
     compound_stmt |-> Transform(c[6])]

CompoundStmt(c) ==
    [node |-> "CompoundStmt",
     local_declarations |-> TransformAll(ElementsOfAny(c[2], 2)),
     statement_list |-> TransformAll(ElementsOfAny(c[3], 2))]

SelectionStmt(c) ==
    [node |-> "SelectionStmt", expression |-> Transform(c[3]),
     if_statement |-> Transform(c[5]),
     else_statement |-> IF Len(c) = 7 THEN Transform(c[7]) ELSE Null]

CallOf(c) ==
    [node |-> "Call", id |-> c[1].name,
     args |-> LET list == c[3].children[1]
              IN  IF list.name = "arg-list" THEN TransformAll(Elements(list, 3)) ELSE << >>]

\* AST::transform_node_iter, a case for each kind of node.
Transform(n) ==
    LET c == n.children
    IN  CASE n.name = "program" ->
                [node |-> "Program", declarations |-> TransformAll(Elements(c[1], 2))]
          [] n.name \in {"declaration", "statement"} -> Transform(c[1])
          [] n.name = "var-declaration" -> Declaration(c)
          [] n.name = "fun-declaration" -> FunDeclaration(c)
          [] n.name = "param" ->
                [node |-> "Param", type |-> VarType(c[1]), id |-> c[2].name,
                 isarray |-> Len(c) > 2]
          [] n.name = "compound-stmt" -> CompoundStmt(c)
          [] n.name = "expression-stmt" ->
                [node |-> "ExpressionStmt",
                 expression |-> IF Len(c) = 2 THEN Transform(c[1]) ELSE Null]
          [] n.name = "selection-stmt" -> SelectionStmt(c)
          [] n.name = "iteration-stmt" ->
                [node |-> "IterationStmt", expression |-> Transform(c[3]),
                 statement |-> Transform(c[5])]
          [] n.name = "return-stmt" ->
                [node |-> "ReturnStmt",
                 expression |-> IF Len(c) = 3 THEN Transform(c[2]) ELSE Null]
          [] n.name = "expression" ->
                IF Len(c) = 1 THEN Transform(c[1])
                ELSE [node |-> "AssignExpression", var |-> Transform(c[1]),
                      expression |-> Transform(c[3])]
          [] n.name = "var" ->
                [node |-> "Var", id |-> c[1].name,
                 expression |-> IF Len(c) = 4 THEN Transform(c[3]) ELSE Null]
          [] n.name = "simple-expression" ->
                IF Len(c) = 3 THEN Binary(n, "SimpleExpression")
                ELSE [node |-> "SimpleExpression", l |-> Transform(c[1]), op |-> "",
                      r |-> Null]
          [] n.name = "additive-expression" -> Binary(n, "AdditiveExpression")
          [] n.name = "term" -> Binary(n, "Term")
          [] n.name = "factor" ->
                LET f == c[IF Len(c) = 3 THEN 2 ELSE 1]
                IN  IF f.name \in {"integer", "float"}
                    THEN Num(IF f.name = "integer" THEN "int" ELSE "float", f.children[1])
                    ELSE Transform(f)
          [] n.name = "call" -> CallOf(c)

\* A factor of the tree is a number that std::stof throws at: the keyword.
RECURSIVE Throws(_)
Throws(n) ==
    \/ n.name = "float" /\ n.children # << >> /\ n.children[1].name = "float"
    \/ \E k \in DOMAIN n.children : Throws(n.children[k])
=============================================================================
