----------------------------- MODULE MCPipeline -----------------------------
(***************************************************************************)
(* The sources on which TLC runs Pipeline: every printed expression of up  *)
(* to two operators over a literal of each type, and every program of      *)
(* three statements of the kinds below.                                    *)
(***************************************************************************)
EXTENDS Pipeline

One == Literal(Number(1))
Two == Literal(Number(2))
Three == Literal(Number(3))
OneHalf == Literal(HalfMore(1))
Letter == Literal(String(<<"a">>))
True == Literal(Bool(TRUE))
X == Identifier("x")
Y == Identifier("y")
Plus(e, n) == Binary(e, "+", n)
Less(e, n) == Binary(e, "<", n)
Let(v, e) == VariableDeclaration(v, e, "none")
Seq1(s) == Block(<<s>>)

----------------------------------------------------------------------------
(* Expressions.  Products and quotients are of integers, so that they are  *)
(* integers and halves again.                                              *)

Leaves == {One, OneHalf, Letter, True}
AllOperators == UNION {Operators[k] : k \in DOMAIN Operators}
OuterOperators == {"or", "and", "==", ">=", "+", "-", "*"}

Exact(e) == e.operator \in {"*", "/"} => OneHalf \notin {e.left, e.right}
Simple ==
    {e \in {Binary(l, op, r) : l \in Leaves, op \in AllOperators, r \in Leaves} : Exact(e)}
Nested ==
    {e \in {Binary(s, op, l) : s \in Simple, op \in OuterOperators, l \in Leaves}
             \cup {Binary(l, op, s) : s \in Simple, op \in OuterOperators, l \in Leaves} :
        Exact(e)}
Negated == {Unary(e) : e \in Leaves \cup Simple} \cup {Binary(Unary(True), "and", True)}
Quotient == {Binary(Plus(One, Letter), "/", One), Binary(One, "/", Literal(Number(0)))}

Expressions ==
    {Written(<<PrintStatement(e)>>) : e \in Leaves \cup Simple \cup Nested \cup Negated \cup Quotient}

----------------------------------------------------------------------------
(* Statements                                                              *)

Firsts ==
    {Let("x", One), Let("x", Letter), VariableDeclaration("x", One, "float"),
     VariableDeclaration("x", Letter, "int"), Assignment("x", One),
     FunctionDeclaration("f", <<"n">>, Seq1(Return(Plus(Identifier("n"), One)))),
     FunctionDeclaration("f", <<"n">>,
         Block(<<IfStatement(Less(Identifier("n"), One), Seq1(Return(Two)), None),
                 Assignment("y", Identifier("n")), Return(Three)>>))}

Seconds ==
    {PrintStatement(X), Assignment("x", Plus(X, One)), Let("y", X), Let("x", Plus(X, X)),
     IfStatement(Less(X, Two), Seq1(PrintStatement(X)), Seq1(PrintStatement(One))),
     IfStatement(X, Seq1(Let("y", One)), None),
     WhileStatement(Less(X, Three), Seq1(Let("x", Plus(X, One)))),
     WhileStatement(Less(X, Three), Block(<<PrintStatement(X), Let("y", X), Let("x", Plus(X, One))>>)),
     WhileStatement(Less(X, Three), Seq1(Assignment("x", Plus(X, One)))),
     ForStatement(Let("i", One), Less(Identifier("i"), Three), Let("i", Plus(Identifier("i"), One)),
                  Seq1(PrintStatement(Identifier("i")))),
     PrintStatement(FunctionCall("f", <<X>>)), Let("y", FunctionCall("f", <<One>>)),
     IfStatement(Less(X, Two), Seq1(Let("y", One)), Seq1(Let("y", FunctionCall("f", <<Two>>)))),
     FunctionCall("g", <<X>>), PrintStatement(FunctionCall("sum", <<X, One>>)),
     Block(<<Let("y", Two), PrintStatement(Y)>>), Return(X), X}

Thirds ==
    {PrintStatement(X), PrintStatement(Y), PrintStatement(Plus(X, Y)), PrintStatement(Unary(Y)),
     Let("y", Plus(X, One)), PrintStatement(FunctionCall("f", <<Y>>)),
     PrintStatement(FunctionCall("sum", <<One>>)), Let("z", Binary(X, "-", Y)),
     IfStatement(Binary(Y, "==", X), PrintStatement(Two), PrintStatement(Three))}

\* A loop that tests the global of a name and changes the local of it does not
\* end; the one that prints would do so for ever, and is left out.
Bounded(a, b) ==
    ~(a = Assignment("x", One) /\ b.type = "while" /\ Len(b.body.statements) > 1)

Programs ==
    {Written(p) : p \in {q \in Firsts \X Seconds \X Thirds : Bounded(q[1], q[2])}}

----------------------------------------------------------------------------
(* Programs at the limits: of the registers, of the stack, of the types.   *)

\* More names than the machine has registers.
Names == <<"a", "b", "c", "d", "e">>
ManyNames == [i \in 1 .. Len(Names) |-> Let(Names[i], One)] \o <<PrintStatement(Identifier("e"))>>

\* A native function that takes more than it is called with.
Greedy == <<PrintStatement(Plus(One, FunctionCall("sum", <<One>>)))>>

\* A function as a value.
Itself == <<FunctionDeclaration("f", <<"n">>, Seq1(Return(Identifier("f")))),
            PrintStatement(Less(FunctionCall("f", <<One>>), One))>>

Limits == {Written(p) : p \in {ManyNames, Greedy, Itself}}

MCSources == Expressions \cup Programs \cup Limits

----------------------------------------------------------------------------
(* A string a loop reads without testing it, and the factorial of          *)
(* docs/QUICKSTART.md.                                                     *)

MCLoop ==
    {Written(<<Let("x", Letter), Let("y", One),
               WhileStatement(Less(Y, Three),
                   Block(<<PrintStatement(Plus(X, Letter)), Let("y", Plus(Y, One))>>))>>)}

N == Identifier("n")
Factorial ==
    FunctionDeclaration("fatorial", <<"n">>,
        Block(<<IfStatement(Binary(N, "<=", One), Seq1(Return(One)), None),
                Return(Binary(N, "*", FunctionCall("fatorial", <<Binary(N, "-", One)>>)))>>))
MCFactorial ==
    {Written(<<Factorial, PrintStatement(FunctionCall("fatorial", <<Literal(Number(m))>>))>>) :
        m \in 1 .. 3}

MCNatives == [sum |-> [min_args |-> 1, max_args |-> 2]]

=============================================================================
