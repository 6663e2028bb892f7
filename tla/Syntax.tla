------------------------------- MODULE Syntax -------------------------------
(***************************************************************************)
(* Values and syntax trees of the Asteron language: the node constructors  *)
(* of core/ast/ast.c and the constructors of values of                     *)
(* core/interpreter/interpreter.c.  A node is a record whose field "type"  *)
(* is its AST_... tag; a missing child (NULL) is the node None.            *)
(*                                                                         *)
(* Numbers are doubles in the code.  The model keeps integers and halves,  *)
(* counted in halves, so that a literal that is no integer exists; the     *)
(* checked programs divide and multiply only where the result is exact.    *)
(* The characters of a string are a sequence of one-character strings.     *)
(*                                                                         *)
(* Then the parser of core/parser/parser.c, which builds the trees.  Run   *)
(* by TLC only: its functions recur.                                       *)
(***************************************************************************)
EXTENDS Integers, Sequences, TLC

Number(n) == [type |-> "number", halves |-> 2 * n]
HalfMore(n) == [type |-> "number", halves |-> 2 * n + 1]
Bool(b) == [type |-> "bool", boolean |-> b]
Nil == [type |-> "nil"]
String(chars) == [type |-> "string", chars |-> chars]

IsNumber(v) == v.type = "number"
IsString(v) == v.type = "string"

\* The test repeated by every conditional of the interpreter and of the VM.
IsTrue(v) ==
    \/ v.type = "bool" /\ v.boolean
    \/ IsNumber(v) /\ v.halves # 0
    \/ IsString(v) /\ v.chars # << >>

\* snprintf("%g") of a number: a sign, a digit, a half.
NumberChars(v) ==
    LET magnitude == IF v.halves < 0 THEN -v.halves ELSE v.halves
    IN  (IF v.halves < 0 THEN <<"-">> ELSE << >>)
          \o <<ToString(magnitude \div 2)>>
          \o (IF magnitude % 2 = 1 THEN <<".", "5">> ELSE << >>)

----------------------------------------------------------------------------
(* Nodes                                                                   *)

None == [type |-> "none"]

Literal(v) == [type |-> "literal", value |-> v]

Identifier(x) ==
    [type |-> "identifier", name |-> x, ssa_version |-> -1, is_last_use |-> FALSE]

Binary(l, op, r) == [type |-> "binary", left |-> l, operator |-> op, right |-> r]

Unary(e) == [type |-> "unary", operator |-> "not", operand |-> e]

FunctionCall(f, args) == [type |-> "call", name |-> f, arguments |-> args]

\* The parser's constructor clears the node: escapes = 0 and ssa_version = 0.
VariableDeclaration(x, e, t) ==
    [type |-> "let", name |-> x, value |-> e, type_info |-> t,
     ssa_version |-> 0, escapes |-> FALSE]

Assignment(x, e) == [type |-> "assign", name |-> x, value |-> e]

PrintStatement(e) == [type |-> "print", expression |-> e]

IfStatement(c, t, e) ==
    [type |-> "if", condition |-> c, then_branch |-> t, else_branch |-> e]

WhileStatement(c, b) == [type |-> "while", condition |-> c, body |-> b]

ForStatement(i, c, n, b) ==
    [type |-> "for", init |-> i, condition |-> c, increment |-> n, body |-> b]

Block(ss) == [type |-> "block", statements |-> ss]

Return(e) == [type |-> "return", value |-> e]

FunctionDeclaration(f, ps, b) ==
    [type |-> "function", name |-> f, parameters |-> ps, body |-> b]

----------------------------------------------------------------------------
(***************************************************************************)
(* The recursive descent parser.  A parsing function takes the tokens and  *)
(* the state of the parser, and returns the state it leaves: p, the index  *)
(* of parser->current; err, which is parser->had_error; and node, the node *)
(* it built.  Annotations and imports are left out.                        *)
(***************************************************************************)

\* The operators of one level of precedence, loosest first: logical or, and,
\* equality, comparison, additive, term.
Operators ==
    <<{"or"}, {"and"}, {"==", "!="}, {">", "<", ">=", "<="}, {"+", "-"}, {"*", "/"}>>

TypeTokens == {"int", "float", "bool", "string", "void"}

Current(toks, st) == toks[st.p].type
Next1(toks, st) == toks[st.p + 1].type

\* Moving over tokens: advance; consume, which reports a missing token and
\* stays; match of a token that may be absent; and building a node.
Advance(st, n) == [st EXCEPT !.p = @ + n]
Consume(toks, st, type) ==
    IF Current(toks, st) = type THEN Advance(st, 1) ELSE [st EXCEPT !.err = TRUE]
Skip(toks, st, type) == IF Current(toks, st) = type THEN Advance(st, 1) ELSE st
Build(st, node) == [st EXCEPT !.node = node]
Nothing(st) == Build(st, None)

RECURSIVE ParseBinary(_, _, _), ParseRest(_, _, _), ParseFactor(_, _),
          ParseArguments(_, _, _), ParseParameters(_, _, _),
          ParseStatement(_, _), ParseStatements(_, _, _)

ParseExpression(toks, st) == ParseBinary(1, toks, st)

\* parse_logical_or ... parse_term: one level after another, left associative.
ParseBinary(level, toks, st) ==
    IF level > Len(Operators) THEN ParseFactor(toks, st)
    ELSE LET first == ParseBinary(level + 1, toks, st)
         IN  IF first.node = None THEN first ELSE ParseRest(level, toks, first)

\* Faulty variant, for mutation: an operator is right associative.
ParseRestRight(level, toks, left) ==
    LET op == Current(toks, left)
        right == ParseBinary(level, toks, Advance(left, 1))
    IN  IF op \in Operators[level] THEN Build(right, Binary(left.node, op, right.node)) ELSE left

ParseRest(level, toks, left) ==
    LET op == Current(toks, left)
        right == ParseBinary(level + 1, toks, Advance(left, 1))
    IN  IF op \in Operators[level]
        THEN ParseRest(level, toks, Build(right, Binary(left.node, op, right.node)))
        ELSE left

ParseFactor(toks, st) ==
    LET t == toks[st.p]
        operand == ParseFactor(toks, Advance(st, 1))
        arguments == ParseArguments(toks, Advance(st, 2), << >>)
    IN  CASE t.type = "!" ->
               IF operand.node = None THEN operand ELSE Build(operand, Unary(operand.node))
          [] t.type = "literal" -> Build(Advance(st, 1), Literal(t.value))
          [] t.type = "identifier" /\ Next1(toks, st) = "(" ->
               Consume(toks, Build(arguments, FunctionCall(t.name, arguments.node)), ")")
          [] t.type = "identifier" /\ Next1(toks, st) # "(" ->
               Build(Advance(st, 1), Identifier(t.name))
          [] t.type = "(" -> Consume(toks, ParseExpression(toks, Advance(st, 1)), ")")
          [] OTHER -> Nothing(st)

\* The arguments of a call, as a sequence of nodes.
ParseArguments(toks, st, args) ==
    LET arg == ParseExpression(toks, st)
        all == Append(args, arg.node)
    IN  IF args = << >> /\ Current(toks, st) = ")" THEN Build(st, args)
        ELSE IF Current(toks, arg) = "," THEN ParseArguments(toks, Advance(arg, 1), all)
        ELSE Build(arg, all)

ParseParameters(toks, st, names) ==
    LET name == Consume(toks, st, "identifier")
        all == Append(names, toks[name.p - 1].name)
    IN  IF names = << >> /\ Current(toks, st) = ")" THEN Build(st, names)
        ELSE IF name.p = st.p THEN Build(name, names)
        ELSE IF Current(toks, name) = "," THEN ParseParameters(toks, Advance(name, 1), all)
        ELSE Build(name, all)

\* ':' and the name of a type, or no annotation at all.
ParseType(toks, st) ==
    IF Current(toks, st) # ":" THEN Build(st, "none")
    ELSE IF Next1(toks, st) \in TypeTokens THEN Build(Advance(st, 2), Next1(toks, st))
    ELSE Build(Advance(st, 1), "none")

----------------------------------------------------------------------------
(* Statements: the choice is made on the first token.                      *)

ParseDeclaration(toks, st) ==
    LET name == Consume(toks, Advance(st, 1), "identifier")
        type == ParseType(toks, name)
        value == ParseExpression(toks, Consume(toks, type, "="))
    IN  Skip(toks, Build(value, VariableDeclaration(toks[st.p + 1].name, value.node, type.node)),
             ";")

ParseAssignment(toks, st) ==
    LET value == ParseExpression(toks, Advance(st, 2))
    IN  Skip(toks, Build(value, Assignment(toks[st.p].name, value.node)), ";")

\* '(' expression ')' after print, if and while.
ParseParenthesised(toks, st) ==
    Consume(toks, ParseExpression(toks, Consume(toks, Advance(st, 1), "(")), ")")

ParsePrint(toks, st) ==
    LET value == ParseParenthesised(toks, st)
    IN  Skip(toks, Build(value, PrintStatement(value.node)), ";")

ParseIf(toks, st) ==
    LET condition == ParseParenthesised(toks, st)
        then == ParseStatement(toks, condition)
        else == IF Current(toks, then) = "else" THEN ParseStatement(toks, Advance(then, 1))
                ELSE Nothing(then)
    IN  Build(else, IfStatement(condition.node, then.node, else.node))

ParseWhile(toks, st) ==
    LET condition == ParseParenthesised(toks, st)
        body == ParseStatement(toks, condition)
    IN  Build(body, WhileStatement(condition.node, body.node))

ParseFor(toks, st) ==
    LET open == Consume(toks, Advance(st, 1), "(")
        init == IF Current(toks, open) = ";" THEN Nothing(Advance(open, 1))
                ELSE ParseStatement(toks, open)
        condition == IF Current(toks, init) = ";" THEN Nothing(init)
                     ELSE ParseExpression(toks, init)
        semicolon == Consume(toks, condition, ";")
        increment == CASE Current(toks, semicolon) = ")" -> Nothing(semicolon)
                       [] Current(toks, semicolon) = "let" -> ParseStatement(toks, semicolon)
                       [] OTHER -> ParseExpression(toks, semicolon)
        body == ParseStatement(toks, Consume(toks, increment, ")"))
    IN  Build(body, ForStatement(init.node, condition.node, increment.node, body.node))

ParseReturn(toks, st) ==
    LET value == IF Next1(toks, st) \in {";", "}", "eof"} THEN Nothing(Advance(st, 1))
                 ELSE ParseExpression(toks, Advance(st, 1))
    IN  Skip(toks, Build(value, Return(value.node)), ";")

ParseFunction(toks, st) ==
    LET name == Consume(toks, Advance(st, 1), "identifier")
        parameters == ParseParameters(toks, Consume(toks, name, "("), << >>)
        body == ParseStatement(toks, Consume(toks, parameters, ")"))
    IN  Build(body, FunctionDeclaration(toks[st.p + 1].name, parameters.node, body.node))

ParseStatement(toks, st) ==
    LET type == Current(toks, st)
        expression == ParseExpression(toks, st)
        block == ParseStatements(toks, Advance(st, 1), << >>)
    IN  CASE type = "identifier" /\ Next1(toks, st) = "=" -> ParseAssignment(toks, st)
          [] type = "function" -> ParseFunction(toks, st)
          [] type = "return" -> ParseReturn(toks, st)
          [] type = "let" -> ParseDeclaration(toks, st)
          [] type = "print" -> ParsePrint(toks, st)
          [] type = "if" -> ParseIf(toks, st)
          [] type = "while" -> ParseWhile(toks, st)
          [] type = "for" -> ParseFor(toks, st)
          [] type = "{" -> Consume(toks, Build(block, Block(block.node)), "}")
          [] OTHER -> IF expression.node = None THEN [expression EXCEPT !.err = TRUE]
                      ELSE Skip(toks, expression, ";")

\* The index of the first token from p on at which a block goes on after an error.
RecoveryPoint(toks, p) ==
    CHOOSE q \in p .. Len(toks) :
        /\ toks[q].type \in {"}", "eof", ";"}
        /\ \A i \in p .. q - 1 : toks[i].type \notin {"}", "eof", ";"}

\* The statements of a block.  What is no statement is stepped over up to the
\* next ';', and with it every error reported so far is forgotten.
ParseStatements(toks, st, ss) ==
    LET s == ParseStatement(toks, st)
        resumed == Skip(toks, [s EXCEPT !.p = RecoveryPoint(toks, s.p), !.err = FALSE], ";")
    IN  IF Current(toks, st) \in {"}", "eof"} THEN Build(st, ss)
        ELSE IF Current(toks, st) = ";" THEN ParseStatements(toks, Advance(st, 1), ss)
        ELSE IF s.node = None THEN ParseStatements(toks, resumed, ss)
        ELSE ParseStatements(toks, s, Append(ss, s.node))

\* parser_parse: the statements of the whole text, up to the first failure.
RECURSIVE ParseProgram(_, _, _)
ParseProgram(toks, st, ss) ==
    LET s == ParseStatement(toks, st)
    IN  IF Current(toks, st) = "eof" THEN Build(st, Block(ss))
        ELSE IF s.node = None THEN Build(s, Block(ss))
        ELSE ParseProgram(toks, s, Append(ss, s.node))

Parse(toks) == ParseProgram(toks, [node |-> None, p |-> 1, err |-> FALSE], << >>)

=============================================================================
