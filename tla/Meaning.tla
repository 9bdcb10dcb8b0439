------------------------------ MODULE Meaning -------------------------------
(***************************************************************************)
(* A reference for the front end: what Documentations/common/cminusf.md    *)
(* says of a function's body, a sequence of expression statements and      *)
(* returns.  It is read off the text, by the operators that are in no      *)
(* brackets, with no tree between.  Values are terms, which say how a      *)
(* value comes about; the effects of a body are stores, calls, checks of   *)
(* subscripts and the return; a load is known by the effects before it.    *)
(*                                                                         *)
(* A context c tells what the names stand for: c.vars their types, and     *)
(* whether they are local, c.funs the parameters and results of functions. *)
(***************************************************************************)
EXTENDS Integers, SequencesExt, TypeNames

LOCAL INSTANCE FiniteSets
LOCAL INSTANCE FiniteSetsExt

CONSTANTS IntTexts, FloatTexts  \* the literals

Scalars == {IntType, FloatType}

TermOf(op, on, args, at) == [op |-> op, on |-> on, args |-> args, at |-> at]
Named(text) == TermOf("name", text, << >>, 0)

-----------------------------------------------------------------------------
Depth(s, k) == Cardinality({i \in 1..k : s[i] \in {"(", "["}})
               - Cardinality({i \in 1..(k - 1) : s[i] \in {")", "]"}})

\* The places of these texts that are in no brackets.
Outside(s, these) == {k \in DOMAIN s : s[k] \in these /\ Depth(s, k) = 0}
Before(s, k) == SubSeq(s, 1, k - 1)
Behind(s, k) == SubSeq(s, k + 1, Len(s))
Inside(s, k) == SubSeq(s, k, Len(s) - 1)

\* The parts of s between its separators.
Parts(s, separator) ==
    LET cuts == Outside(s, {separator})
        Next(parts, k) == IF k \in cuts THEN Append(parts, << >>)
                          ELSE [parts EXCEPT ![Len(parts)] = Append(@, s[k])]
    IN  FoldLeft(Next, << << >> >>, [k \in DOMAIN s |-> k])

-----------------------------------------------------------------------------
\* What is known after an expression: its type, its term, the effects so far.
Known(type, term, done) == [type |-> type, term |-> term, done |-> done]
Effect(k, op, on, args) == [k EXCEPT !.done = Append(@, TermOf(op, on, args, 0))]
Require(k, legal) == IF legal THEN k ELSE Effect(k, "illegal", "", << >>)

As(k, t) ==
    IF k.type = t THEN k
    ELSE [k EXCEPT !.type = t,
                   !.term = TermOf(IF t = IntType THEN "fptosi" ELSE "sitofp", "", <<@>>, 0)]

LoadOf(k) ==
    [k EXCEPT !.term = TermOf("load", "", <<@>>, Len(k.done)),
              !.type = Tail(@)]

Storage(n, c) == IF c.vars[n].local THEN TermOf("alloca", n, << >>, 0) ELSE Named(n)

\* The address of what a name without a subscript stands for.
Whole(n, c, done) == Known(<<"ptr">> \o c.vars[n].type, Storage(n, c), done)

\* An array, where its address will do: that of its first element.
Decayed(k) ==
    IF k.type[2] = "array"
    THEN Known(<<"ptr">> \o SubSeq(k.type, 3, Len(k.type)),
               TermOf("gep", "", <<k.term, Named("0")>>, 0), k.done)
    ELSE LoadOf(k)

RECURSIVE Denote(_, _, _)

\* The address of element k of the array n, or of what the pointer n points to.
ElementOf(n, c, k) ==
    LET whole == Whole(n, c, k.done)
        at == IF c.vars[n].type[1] = "array" THEN whole ELSE LoadOf(whole)
    IN  Known(<<"ptr", Last(c.vars[n].type)>>,
              TermOf("gep", "", <<at.term, k.term>>, 0), k.done)

\* A subscript is checked not to be negative.
Checked(k) == Effect(k, "check", "", <<TermOf("<", "int", <<k.term, Named("0")>>, 0)>>)

\* It is an integer, and belongs to an array or a pointer.
Subscript(n, c, k) ==
    Checked(As(Require(k, k.type \in Scalars /\ c.vars[n].type \notin Scalars), IntType))

\* A variable, by its address.
Address(s, c, done) ==
    IF Len(s) = 1 THEN Whole(s[1], c, done)
    ELSE ElementOf(s[1], c, Subscript(s[1], c, Denote(Inside(s, 3), c, done)))

Stored(a, k) == Effect(k, "store", "", <<k.term, a.term>>)

\* The value k is converted for the address a and stored, and is the result.
Assigned(a, k) ==
    Stored(a, IF k.type \in Scalars /\ Tail(a.type) \in Scalars THEN As(k, Tail(a.type))
              ELSE Require(k, FALSE))

\* Two operands; an integer beside a float is made a float.
Operation(l, op, r) ==
    LET t == IF l.type = IntType /\ r.type = IntType THEN IntType ELSE FloatType
        v == TermOf(op, t[1], <<As(l, t).term, As(r, t).term>>, 0)
        arithmetic == op \in {"+", "-", "*", "/"}
    IN  Require([r EXCEPT !.type = IF arithmetic THEN t ELSE IntType,
                          !.term = IF arithmetic THEN v
                                   ELSE TermOf("zext", "", <<v>>, 0)],
                l.type \in Scalars /\ r.type \in Scalars)

NoFunction == [params |-> <<VoidType>>, type |-> VoidType]

FunctionOf(n, c) == IF n \in DOMAIN c.funs THEN c.funs[n] ELSE NoFunction

\* An argument for a parameter of type t: numbers are converted.
Passed(k, t) ==
    IF k.type \in Scalars /\ t \in Scalars THEN As(k, t) ELSE Require(k, k.type = t)

\* The arguments from left to right: q holds the terms and the effects.
NextArgument(q, k) == [args |-> Append(q.args, k.term), done |-> k.done]

Arguments(arguments, f, c, done) ==
    FoldLeft(LAMBDA q, k : NextArgument(q, Passed(Denote(arguments[k], c, q.done),
                                                  f.params[k])),
             [args |-> << >>, done |-> done], [k \in DOMAIN arguments |-> k])

CallOf(n, f, q) ==
    Effect(Known(f.type, TermOf("call", n, q.args, Len(q.done)), q.done), "call", n, q.args)

Called(n, f, arguments, c, done) ==
    IF Len(arguments) = Len(f.params) THEN CallOf(n, f, Arguments(arguments, f, c, done))
    ELSE Require(Known(f.type, Named(n), done), FALSE)

Denote(s, c, done) ==
    LET assigns == Outside(s, {"="})
        compares == Outside(s, {"<=", "<", ">", ">=", "==", "!="})
        adds == Outside(s, {"+", "-"})
        muls == Outside(s, {"*", "/"})
        Split(k) == LET l == Denote(Before(s, k), c, done)
                    IN  Operation(l, s[k], Denote(Behind(s, k), c, l.done))
    IN  CASE assigns # {} ->
                LET k == Min(assigns)
                    a == Address(Before(s, k), c, done)
                IN  Assigned(a, Denote(Behind(s, k), c, a.done))
          [] assigns = {} /\ compares # {} -> Split(Min(compares))
          [] assigns \cup compares = {} /\ adds # {} -> Split(Max(adds))
          [] assigns \cup compares \cup adds = {} /\ muls # {} -> Split(Max(muls))
          [] OTHER ->
                CASE s[1] = "(" -> Denote(Inside(s, 2), c, done)
                  [] s[1] \in IntTexts -> Known(IntType, Named(s[1]), done)
                  [] s[1] \in FloatTexts -> Known(FloatType, Named(s[1]), done)
                  [] Len(s) > 1 /\ s[1] # "(" /\ s[2] = "(" ->
                        Called(s[1], FunctionOf(s[1], c),
                               IF Len(s) = 3 THEN << >> ELSE Parts(Inside(s, 3), ","),
                               c, done)
                  [] OTHER -> IF Len(s) = 1 THEN Decayed(Whole(s[1], c, done))
                              ELSE LoadOf(Address(s, c, done))

ReturnOf(k) == Effect(k, "ret", "", <<k.term>>)

Returned(k, c) ==
    ReturnOf(IF k.type \in Scalars /\ c.result \in Scalars THEN As(k, c.result)
             ELSE Require(k, FALSE))

\* The effects of a statement after those before it.
Statement(c, done, s) ==
    IF s = << >> THEN done
    ELSE IF s = <<"return">>
    THEN Require(Effect(Known(VoidType, Named(""), done), "ret", "", << >>),
                 c.result = VoidType).done
    ELSE IF s[1] = "return" THEN Returned(Denote(Tail(s), c, done), c).done
    ELSE Denote(s, c, done).done

Legal(effects) == \A k \in DOMAIN effects : effects[k].op # "illegal"
Left(effects) == effects # << >> /\ Last(effects).op = "ret"

\* The effects of a body: the parameters are stored, the statements follow,
\* up to a return, and a default return is at the end.
Effects(s, c) ==
    LET Arrive(done, p) ==
            Append(done, TermOf("store", "", <<Named(p), Storage(p, c)>>, 0))
        Next(done, part) ==
            LET all == Statement(c, done, part)
            IN  IF Left(done) /\ Legal(all) THEN done ELSE all
        end == FoldLeft(Next, FoldLeft(Arrive, << >>, c.params), Parts(s, ";"))
    IN  IF Left(end) THEN end
        ELSE Append(end, TermOf("ret", "", IF c.result = VoidType THEN << >>
                                           ELSE <<Named("0")>>, 0))
=============================================================================
