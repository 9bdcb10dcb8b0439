------------------------------- MODULE Parser -------------------------------
(***************************************************************************)
(* lexical_analyzer.l and syntax_analyzer.y: from a text to its syntax     *)
(* tree.  The texts are written while they are read: a text follows a      *)
(* sketch, which gives its beginning, the words that may follow, how many  *)
(* of them at most, and its end.  Bison's automaton is external; it is     *)
(* computed here from the rules, by the SLR construction.  A conflict is   *)
(* settled the way bison does it, and %prec asks for: shift.  In a state   *)
(* that ends a rule bison reduces by default, whatever comes next, so that *)
(* an error is found only by a state that must shift.                      *)
(***************************************************************************)
EXTENDS Naturals, Sequences, SequencesExt

CONSTANTS Sketch,   \* records with begin, words, max, end
          Ids, Integers, Floats  \* the names and the numbers of the texts

VARIABLES sketch,
          written,  \* number of words so far
          text,     \* what is written, as texts of tokens
          ahead,    \* what is written and not yet read
          symbols,  \* the parser's stack, of grammar symbols with their nodes
          states,   \* and of sets of items
          verdict   \* "writing", "parsing", "accepted", "error"

parservars == <<sketch, written, text, ahead, symbols, states, verdict>>

-----------------------------------------------------------------------------
\* The rules of a nonterminal.
Of(lhs, alternatives) ==
    [k \in DOMAIN alternatives |-> [lhs |-> lhs, rhs |-> alternatives[k]]]

\* The rules of syntax_analyzer.y, with bison's own in front.
Rules ==
    Of("$accept", <<<<"program", "$end">>>>)
    \o Of("program", <<<<"declaration-list">>>>)
    \o Of("declaration-list", <<<<"declaration-list", "declaration">>, <<"declaration">>>>)
    \o Of("declaration", <<<<"var-declaration">>, <<"fun-declaration">>>>)
    \o Of("var-declaration", <<<<"type-specifier", "ID", ";">>,
                               <<"type-specifier", "ID", "[", "INTEGER", "]", ";">>>>)
    \o Of("type-specifier", <<<<"INT">>, <<"FLOAT">>, <<"VOID">>>>)
    \o Of("fun-declaration",
          <<<<"type-specifier", "ID", "(", "params", ")", "compound-stmt">>>>)
    \o Of("params", <<<<"param-list">>, <<"VOID">>>>)
    \o Of("param-list", <<<<"param-list", ",", "param">>, <<"param">>>>)
    \o Of("param", <<<<"type-specifier", "ID">>, <<"type-specifier", "ID", "[", "]">>>>)
    \o Of("compound-stmt", <<<<"{", "local-declarations", "statement-list", "}">>>>)
    \o Of("local-declarations", <<<<"local-declarations", "var-declaration">>, << >>>>)
    \o Of("statement-list", <<<<"statement-list", "statement">>, << >>>>)
    \o Of("statement", <<<<"expression-stmt">>, <<"compound-stmt">>, <<"selection-stmt">>,
                         <<"iteration-stmt">>, <<"return-stmt">>>>)
    \o Of("expression-stmt", <<<<"expression", ";">>, <<";">>>>)
    \o Of("selection-stmt", <<<<"IF", "(", "expression", ")", "statement">>,
            <<"IF", "(", "expression", ")", "statement", "ELSE", "statement">>>>)
    \o Of("iteration-stmt", <<<<"WHILE", "(", "expression", ")", "statement">>>>)
    \o Of("return-stmt", <<<<"RETURN", ";">>, <<"RETURN", "expression", ";">>>>)
    \o Of("expression", <<<<"var", "=", "expression">>, <<"simple-expression">>>>)
    \o Of("var", <<<<"ID">>, <<"ID", "[", "expression", "]">>>>)
    \o Of("simple-expression", <<<<"additive-expression", "relop", "additive-expression">>,
                                 <<"additive-expression">>>>)
    \o Of("relop", <<<<"<=">>, <<"<">>, <<">">>, <<">=">>, <<"==">>, <<"!=">>>>)
    \o Of("additive-expression", <<<<"additive-expression", "addop", "term">>, <<"term">>>>)
    \o Of("addop", <<<<"+">>, <<"-">>>>)
    \o Of("term", <<<<"term", "mulop", "factor">>, <<"factor">>>>)
    \o Of("mulop", <<<<"*">>, <<"/">>>>)
    \o Of("factor", <<<<"(", "expression", ")">>, <<"var">>, <<"call">>, <<"integer">>,
                      <<"float">>>>)
    \o Of("integer", <<<<"INTEGER">>>>) \o Of("float", <<<<"FLOAT">>>>)
    \o Of("call", <<<<"ID", "(", "args", ")">>>>)
    \o Of("args", <<<<"arg-list">>, << >>>>)
    \o Of("arg-list", <<<<"arg-list", ",", "expression">>, <<"expression">>>>)

Lhs(r) == Rules[r].lhs
Rhs(r) == Rules[r].rhs

Nonterminal == {Lhs(r) : r \in DOMAIN Rules}
Symbol == Nonterminal \cup UNION {ToSet(Rhs(r)) : r \in DOMAIN Rules}
Nullable == {Lhs(r) : r \in {q \in DOMAIN Rules : Rhs(q) = << >>}}

\* The token of a text.  The keyword float and a number with a point are one.
Token(t) ==
    CASE t = "int" -> "INT" [] t = "float" -> "FLOAT" [] t = "void" -> "VOID"
      [] t = "if" -> "IF" [] t = "else" -> "ELSE"
      [] t = "while" -> "WHILE" [] t = "return" -> "RETURN"
      [] t \in Ids -> "ID" [] t \in Integers -> "INTEGER" [] t \in Floats -> "FLOAT"
      [] OTHER -> t

-----------------------------------------------------------------------------
(* Bison.                                                                  *)

\* Nothing but symbols that may be derived to nothing is between i and j.
NoneBetween(r, i, j) == \A k \in (i + 1)..(j - 1) : Rhs(r)[k] \in Nullable

\* What derivations of x can begin with; with "skip", behind such symbols too.
Beginning(x, skip) ==
    LET B[S \in SUBSET Symbol] ==
            LET T == S \cup UNION {
                    {Rhs(r)[k] : k \in {i \in DOMAIN Rhs(r) :
                                    i = 1 \/ (skip /\ NoneBetween(r, 0, i))}} :
                    r \in {q \in DOMAIN Rules : Lhs(q) \in S}}
            IN  IF T = S THEN S ELSE B[T]
    IN  B[{x}]

BeginningOf == [x \in Symbol |-> Beginning(x, FALSE)]
FirstOf == [x \in Symbol |-> Beginning(x, TRUE)]

\* What may follow each nonterminal.
Follow ==
    LET Places(x) == {<<r, k>> \in (DOMAIN Rules) \X (1..7) :
                        k \in DOMAIN Rhs(r) /\ Rhs(r)[k] = x}
        Behind(r, k) == UNION {FirstOf[Rhs(r)[i]] :
                                i \in {j \in (k + 1)..Len(Rhs(r)) : NoneBetween(r, k, j)}}
        F[G \in [Nonterminal -> SUBSET Symbol]] ==
            LET H == [x \in Nonterminal |-> G[x] \cup UNION {
                        Behind(p[1], p[2])
                        \cup (IF NoneBetween(p[1], p[2], Len(Rhs(p[1])) + 1)
                              THEN G[Lhs(p[1])] ELSE {}) : p \in Places(x)}]
            IN  IF H = G THEN G ELSE F[H]
    IN  F[[x \in Nonterminal |-> {}]]

\* An item <<r, k>>: the first k symbols of rule r are read.  A state is a set
\* of items with k > 0; those of rules that begin there are not kept.
Unread(i) == i[2] < Len(Rhs(i[1]))
AfterDot(items) == {Rhs(i[1])[i[2] + 1] : i \in {j \in items : Unread(j)}}

\* What may come in a state.
Expected(items) == UNION {BeginningOf[x] : x \in AfterDot(items)}

RulesWith == [x \in Symbol |-> {r \in DOMAIN Rules : Rhs(r) # << >> /\ Rhs(r)[1] = x}]
EmptyRules == {r \in DOMAIN Rules : Rhs(r) = << >>}

\* The state after the symbol x.
Goto(items, x) ==
    LET expected == Expected(items)
    IN  {<<i[1], i[2] + 1>> : i \in {j \in items : Unread(j) /\ Rhs(j[1])[j[2] + 1] = x}}
        \cup {<<r, 1>> : r \in {q \in RulesWith[x] : Lhs(q) \in expected}}

-----------------------------------------------------------------------------
\* node(): a node of a rule without symbols has a child nonetheless.
Node(name, children) ==
    [name |-> name,
     children |-> IF children = << >> THEN <<[name |-> "epsilon", children |-> << >>]>>
                  ELSE children]

\* The lexer's pass_node.
Leaf(t) == [name |-> t, children |-> << >>]

Look == Token(Head(ahead))

Parsing == verdict \in {"writing", "parsing"} /\ ahead # << >>

CanShift == Look \in Expected(Last(states))

\* The rules that are read to their ends.
ReadToTheEnd ==
    LET expected == Expected(Last(states))
    IN  {i[1] : i \in {j \in Last(states) : ~Unread(j)}}
        \cup {q \in EmptyRules : Lhs(q) \in expected}

\* Of these the ones that may be followed by what is next, or else the default.
Complete ==
    LET fitting == {r \in ReadToTheEnd : Look \in Follow[Lhs(r)]}
    IN  IF fitting # {} THEN fitting
        ELSE {r \in ReadToTheEnd : \A q \in ReadToTheEnd : r <= q}

InitParser ==
    /\ sketch \in Sketch
    /\ written = 0
    /\ text = sketch.begin /\ ahead = sketch.begin
    /\ symbols = << >>
    /\ states = <<{<<1, 0>>}>>
    /\ verdict = "writing"

\* The text goes on, when the parser wants to see more of it.
Word(w) ==
    /\ verdict = "writing" /\ ahead = << >>
    /\ written < sketch.max
    /\ written' = written + 1
    /\ text' = text \o w
    /\ ahead' = w
    /\ UNCHANGED <<sketch, symbols, states, verdict>>

EndOfText ==
    /\ verdict = "writing" /\ ahead = << >>
    /\ text' = text \o sketch.end
    /\ ahead' = Append(sketch.end, "$end")
    /\ verdict' = "parsing"
    /\ UNCHANGED <<sketch, written, symbols, states>>

Shift ==
    /\ Parsing /\ CanShift
    /\ IF Look = "$end"
       THEN verdict' = "accepted" /\ UNCHANGED <<symbols, states>>
       ELSE /\ symbols' = Append(symbols, Leaf(Head(ahead)))
            /\ states' = Append(states, Goto(Last(states), Look))
            /\ UNCHANGED verdict
    /\ ahead' = Tail(ahead)
    /\ UNCHANGED <<sketch, written, text>>

\* Fault: an else is left to the outer if.
Reduce_BeforeElse(r) ==
    LET below == Len(symbols) - Len(Rhs(r))
        under == SubSeq(states, 1, below + 1)
    IN  /\ Look = "ELSE" \/ ~CanShift
        /\ symbols' = Append(SubSeq(symbols, 1, below),
                             Node(Lhs(r), SubSeq(symbols, below + 1, Len(symbols))))
        /\ states' = Append(under, Goto(Last(under), Lhs(r)))
        /\ UNCHANGED <<sketch, written, text, ahead, verdict>>

\* The rule r is complete, and there is nothing to shift.
Reduce(r) ==
    LET below == Len(symbols) - Len(Rhs(r))
        under == SubSeq(states, 1, below + 1)
    IN  /\ ~CanShift
        /\ symbols' = Append(SubSeq(symbols, 1, below),
                             Node(Lhs(r), SubSeq(symbols, below + 1, Len(symbols))))
        /\ states' = Append(under, Goto(Last(under), Lhs(r)))
        /\ UNCHANGED <<sketch, written, text, ahead, verdict>>

\* yyerror: the message, and yyparse gives up.  parse does not look at its
\* result.
SyntaxError ==
    /\ Parsing /\ ~CanShift
    /\ Complete = {}
    /\ verdict' = "error"
    /\ UNCHANGED <<sketch, written, text, ahead, symbols, states>>

\* gt->root is set: "program" has been reduced.  An error behind a complete
\* declaration comes after that, since the reduction is a default one.
RootSet == symbols # << >> /\ symbols[1].name = "program"

ParseStep ==
    \/ \E w \in sketch.words : Word(w)
    \/ EndOfText
    \/ Shift
    \/ Parsing /\ \E r \in Complete : Reduce(r)
    \/ SyntaxError
=============================================================================
