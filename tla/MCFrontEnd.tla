----------------------------- MODULE MCFrontEnd -----------------------------
EXTENDS FrontEnd

MCIds == {"x", "y", "a", "b", "f", "g", "input", "output"}
MCIntegers == {"1", "2"}
MCFloats == {"1.5"}

Words(s) == {<<t>> : t \in s}
Local(type) == [type |-> type, local |-> TRUE]
Shared(type) == [type |-> type, local |-> FALSE]

\* int f(int x, float y) { return ... }: operators and conversions.
Operators ==
    [begin |-> <<"int", "f", "(", "int", "x", ",", "float", "y", ")", "{", "return">>,
     words |-> Words({"x", "y", "1", "-", "*", "<", "=", "(", ")"}),
     max |-> 5, end |-> <<";", "}">>,
     context |-> [from |-> 11, params |-> <<"x", "y">>, result |-> IntType,
                  vars |-> "x" :> Local(IntType) @@ "y" :> Local(FloatType),
                  funs |-> << >>]]

\* int b[2]; float f(float a[], int x) { ... }: subscripts.
Subscripts ==
    [begin |-> <<"int", "b", "[", "2", "]", ";", "float", "f", "(", "float", "a", "[", "]",
                 ",", "int", "x", ")", "{">>,
     words |-> Words({"x", "=", "1.5", "return", ";"}) \cup {<<"a", "[">>, <<"b", "[">>, <<"]">>,
                                                            <<"a", "[", "x", "]">>},
     max |-> 5, end |-> <<";", "}">>,
     context |-> [from |-> 19, params |-> <<"a", "x">>, result |-> FloatType,
                  vars |-> "x" :> Local(IntType) @@ "a" :> Local(Ptr(FloatType))
                           @@ "b" :> Shared(Array(IntType)),
                  funs |-> << >>]]

\* A function g before f, and a local array: calls and their arguments.
Calls ==
    [begin |-> <<"float", "g", "(", "float", "a", "[", "]", ",", "int", "x", ")", "{", "}",
                 "void", "f", "(", "void", ")", "{", "float", "a", "[", "2", "]", ";">>,
     words |-> Words({"a", ",", ")", "-", "1.5", "1", ";"})
               \cup {<<"input", "(", ")">>, <<"output", "(">>, <<"g", "(">>},
     max |-> 5, end |-> <<";", "}">>,
     context |-> [from |-> 26, params |-> << >>, result |-> VoidType,
                  vars |-> "a" :> Local(Array(FloatType)),
                  funs |-> "input" :> [params |-> << >>, type |-> IntType]
                           @@ "output" :> [params |-> <<IntType>>, type |-> VoidType]
                           @@ "g" :> [params |-> <<Ptr(FloatType), IntType>>,
                                      type |-> FloatType]]]

\* Statements behind an if, declarations, and lists of them; no code is looked
\* at.
Statements ==
    [begin |-> <<"void", "f", "(", "void", ")", "{", "int", "x", ";", "if", "(", "x", ")">>,
     words |-> {<<"if", "(", "x", ")">>, <<"else">>, <<"while", "(", "x", ")">>,
                <<"{">>, <<"}">>, <<"return", ";">>},
     max |-> 5, end |-> <<"}">>, context |-> << >>]

Declarations ==
    [begin |-> << >>,
     words |-> {<<"int", "x">>, <<"float", "y">>, <<"void", "f", "(">>, <<"void">>, <<",">>,
                <<")", "{">>, <<"}">>, <<";">>, <<"[", "]">>, <<"[", "2", "]">>,
                <<"float">>, <<"1.5">>},
     max |-> 6, end |-> << >>, context |-> << >>]

MCSketch == {Operators, Subscripts, Calls, Statements, Declarations}
=============================================================================
