---------------------------- MODULE MCBuiltPasses ---------------------------
EXTENDS BuiltPasses

CONSTANT x

MCName == {x}
MCExpr == {<<"0">>, <<"1", "1">>, <<"call", x>>}
MCToElement == {<<"1", "1">>}

\* f(int x) { int y; y = x; while (x) y = 1; return y; } after Mem2Reg: the
\* phi of y takes the argument, which is live in the loop besides.
PhiTakesLive ==
    LET y == <<2, 1, 2>>
        Phi == [id |-> y, op |-> "phi", to |-> <<1, 3>>, var |-> Global,
                args |-> <<Argument, Literal(1)>>]
        f1 == CreateBr(NewBlock(NewBlock(NewBlock(NewBlock(EmptyFunction)))), 1, 2)
        f2 == AddInstruction(f1, 2, Pure("ne", <<Argument, Literal(0)>>))
        f3 == CreateBr(CreateCondBr(f2, 2, <<2, 1>>, 3, 4), 3, 2)
        f4 == AddInstruction(f3, 4, Ret(y))
    IN  [f4 EXCEPT !.code[2] = <<Phi>> \o @]

\* int f(int x) { x = 1; return x + a[1]; } as the visitor makes it: the check
\* of the subscript parts the load of x from the addition.
LoadUsedElsewhere ==
    LET f1 == AddInstruction(AddInstruction(NewBlock(EmptyFunction), 1, Alloca(<<1, 1>>)),
                             1, Store(<<1, 1>>, Literal(1)))
        f2 == AddInstruction(AddInstruction(f1, 1, Load(<<1, 1>>)),
                             1, Pure("lt", <<Literal(1), Literal(0)>>))
        f3 == CreateCondBr(NewBlock(NewBlock(f2)), 1, <<1, 4>>, 2, 3)
        f4 == AddInstruction(AddInstruction(f3, 2, Call), 2, Ret(Literal(0)))
        f5 == AddInstruction(f4, 3, Pure("gep", <<Global, Literal(1)>>))
        f6 == AddInstruction(f5, 3, Load(<<3, 1>>))
        f7 == AddInstruction(f6, 3, Pure("add", <<<<1, 3>>, <<3, 2>>>>))
    IN  AddInstruction(f7, 3, Ret(<<3, 3>>))

GivenPhi(id, to, args) ==
    [id |-> id, op |-> "phi", to |-> to, var |-> Global, args |-> args]

\* int f(int x) { if (0) while (x) if (0) x = 1; return x; } after Mem2Reg:
\* the phis of the loop's header and of its join read each other, and each
\* loses its other pair.
PhiOfItself ==
    LET x4 == <<4, 1, 2>>
        x5 == <<5, 1, 2>>
        x10 == <<10, 1, 2>>
        Zero == Pure("ne", <<Literal(0), Literal(0)>>)
        f0 == FoldLeft(LAMBDA f, b : NewBlock(f), EmptyFunction, [b \in 1..10 |-> b])
        f1 == CreateCondBr(AddInstruction(f0, 1, Zero), 1, <<1, 1>>, 2, 3)
        f2 == CreateBr(CreateBr(f1, 2, 5), 3, 4)
        f3 == AddInstruction(f2, 4, Ret(x4))
        f4 == AddInstruction(f3, 5, Pure("ne", <<x5, Literal(0)>>))
        f5 == CreateCondBr(f4, 5, <<5, 1>>, 6, 7)
        f6 == CreateCondBr(AddInstruction(f5, 6, Zero), 6, <<6, 1>>, 8, 9)
        f7 == CreateBr(CreateBr(CreateBr(CreateBr(f6, 7, 4), 8, 10), 9, 10), 10, 5)
    IN  [f7 EXCEPT !.code[4] = <<GivenPhi(x4, <<7, 3>>, <<x5, Argument>>)>> \o @,
                   !.code[5] = <<GivenPhi(x5, <<2, 10>>, <<Argument, x10>>)>> \o @,
                   !.code[10] = <<GivenPhi(x10, <<9, 8>>, <<x5, Literal(1)>>)>> \o @]

\* int f(int x) { if (x) return 1; else return 0; if (x) x = 1; return x; }
\* after Mem2Reg: the phi at the join behind the returns was never filled.
PhiNotFilled ==
    LET f0 == FoldLeft(LAMBDA f, b : NewBlock(f), EmptyFunction, [b \in 1..7 |-> b])
        f1 == AddInstruction(f0, 1, Pure("ne", <<Argument, Literal(0)>>))
        f2 == CreateCondBr(f1, 1, <<1, 1>>, 2, 3)
        f3 == AddInstruction(AddInstruction(f2, 2, Ret(Literal(1))), 3, Ret(Literal(0)))
        f4 == AddInstruction(AddInstruction(f3, 4, Load(<<1, 9>>)),
                             4, Pure("ne", <<<<4, 1>>, Literal(0)>>))
        f5 == CreateCondBr(f4, 4, <<4, 2>>, 5, 6)
        f6 == CreateBr(AddInstruction(f5, 5, Store(<<1, 9>>, Literal(1))), 5, 7)
        f7 == AddInstruction(CreateBr(f6, 6, 7), 7, Load(<<1, 9>>))
        f8 == AddInstruction(f7, 7, Ret(<<7, 1>>))
    IN  [f8 EXCEPT !.code[7] = <<GivenPhi(<<7, 1, 9>>, << >>, << >>)>> \o @]

MCGiven == {PhiTakesLive, LoadUsedElsewhere, PhiOfItself, PhiNotFilled}
=============================================================================
