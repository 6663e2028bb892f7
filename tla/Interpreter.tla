---------------------------- MODULE Interpreter -----------------------------
(***************************************************************************)
(* The tree interpreter of core/interpreter/interpreter.c.  The virtual    *)
(* machine runs the bodies of functions through it; interpreter_execute    *)
(* runs a whole program.  Its state is a record:                           *)
(*   env        the frames of g_env, the innermost last, each a function   *)
(*              from names to values                                       *)
(*   functions  g_function_table, from names to parameters and body        *)
(*   returned, return_value   g_has_returned and g_return_value            *)
(*   out        the values printed                                         *)
(*   err        an error was reported, or a value of the wrong type read   *)
(*   fuel       calls and iterations left: a bound of the model, at zero   *)
(*              of which a program counts as one that does not end         *)
(* Run by TLC only: the functions recur over the tree.                     *)
(***************************************************************************)
EXTENDS Syntax

CONSTANTS
    Natives,        \* native functions: from names to min_args and max_args
    MaxFuel

\* A native function, which is outside this code: it adds its arguments up.
RECURSIVE NativeSum(_)
NativeSum(args) ==
    IF args = << >> THEN 0
    ELSE (IF IsNumber(Head(args)) THEN Head(args).halves ELSE 0) + NativeSum(Tail(args))

NativeResult(args) == [type |-> "number", halves |-> NativeSum(args)]

EmptyFrame == [x \in {} |-> Nil]

Machine(functions) ==
    [env |-> <<EmptyFrame>>, functions |-> functions, returned |-> FALSE,
     return_value |-> Nil, out |-> << >>, err |-> FALSE, fuel |-> MaxFuel]

Fail(st) == [st EXCEPT !.err = TRUE]
Burn(st) == [st EXCEPT !.fuel = @ - 1]
Spent(st) == st.fuel = 0

----------------------------------------------------------------------------
(* Environments: a chain of frames, so that scopes are dynamic.            *)

FramesWith(env, x) == {i \in 1 .. Len(env) : x \in DOMAIN env[i]}

environment_has(env, x) == FramesWith(env, x) # {}

Innermost(env, x) ==
    CHOOSE i \in FramesWith(env, x) : \A j \in FramesWith(env, x) : j <= i

\* Faulty variant: a missing variable has no value, rather than nil.
environment_get_none(env, x) ==
    IF environment_has(env, x) THEN env[Innermost(env, x)][x] ELSE None

environment_get(env, x) ==
    IF environment_has(env, x) THEN env[Innermost(env, x)][x] ELSE Nil

\* The variable of the nearest frame that has it, or a new one of the innermost.
environment_set(env, x, v) ==
    LET i == IF environment_has(env, x) THEN Innermost(env, x) ELSE Len(env)
    IN  [env EXCEPT ![i] = (x :> v) @@ @]

environment_remove(env, x) ==
    IF ~environment_has(env, x) THEN env
    ELSE LET i == Innermost(env, x)
         IN  [env EXCEPT ![i] = [y \in DOMAIN @ \ {x} |-> @[y]]]

frame_push(env) == Append(env, EmptyFrame)
frame_pop(env) == SubSeq(env, 1, Len(env) - 1)

RECURSIVE BindParameters(_, _, _)
BindParameters(env, names, values) ==
    IF names = << >> THEN env
    ELSE BindParameters(environment_set(env, Head(names), Head(values)),
                        Tail(names), Tail(values))

----------------------------------------------------------------------------
(* Operators on values                                                     *)

\* What '+' concatenates an operand as: neither nil nor a boolean has characters.
Chars(v) ==
    CASE IsString(v) -> v.chars [] IsNumber(v) -> NumberChars(v) [] OTHER -> << >>

Arithmetic(op, a, b) ==
    [type |-> "number",
     halves |-> CASE op = "+" -> a + b
                  [] op = "-" -> a - b
                  [] op = "*" -> (a * b) \div 2
                  [] op = "/" -> (2 * a) \div b]

Compare(op, a, b) ==
    Bool(CASE op = ">" -> a > b [] op = "<" -> a < b [] op = ">=" -> a >= b
           [] op = "<=" -> a <= b [] op = "==" -> a = b [] op = "!=" -> a # b)

\* The value of a binary expression, and whether computing it is an error.
\* A sum reads the number of what is no number, which nil has and holds zero;
\* every other operator, the logical ones too, wants two numbers.
BinaryValue(op, l, r) ==
    LET Of(v) == [value |-> v, err |-> FALSE]
        Wrong(v) == [value |-> v, err |-> TRUE]
        AsNumber(v) == IF IsNumber(v) THEN v.halves ELSE 0
    IN  IF op = "+"
        THEN IF IsString(l) \/ IsString(r) THEN Of(String(Chars(l) \o Chars(r)))
             ELSE [value |-> Arithmetic("+", AsNumber(l), AsNumber(r)),
                   err |-> ~({l.type, r.type} \subseteq {"number", "nil"})]
        ELSE IF ~IsNumber(l) \/ ~IsNumber(r) THEN Wrong(Nil)
        ELSE IF op = "/" /\ r.halves = 0 THEN Wrong(Nil)
        ELSE IF op \in {"-", "*", "/"} THEN Of(Arithmetic(op, l.halves, r.halves))
        ELSE IF op = "and" THEN Of(Bool(IsTrue(l) /\ IsTrue(r)))
        ELSE IF op = "or" THEN Of(Bool(IsTrue(l) \/ IsTrue(r)))
        ELSE Of(Compare(op, l.halves, r.halves))

----------------------------------------------------------------------------
(* Expressions and statements                                              *)

Give(v, st) == [value |-> v, st |-> st]

\* The state once the value is stored in x.
Stored(x, result) == [result.st EXCEPT !.env = environment_set(@, x, result.value)]

\* What a call gives: the value, the frame of the call being gone.
Leave(result) == Give(result.value, [result.st EXCEPT !.env = frame_pop(@)])

RECURSIVE Eval(_, _), EvalAll(_, _, _), Call(_, _), RunBody(_, _, _),
          Exec(_, _), ExecAll(_, _), Loop(_, _), ForLoop(_, _)

\* A name is looked for in the environment, then among the functions.
EvalIdentifier(x, st) ==
    CASE environment_has(st.env, x) -> Give(environment_get(st.env, x), st)
      [] ~environment_has(st.env, x) /\ x \in DOMAIN st.functions ->
           Give([type |-> "function", function |-> x], st)
      [] ~environment_has(st.env, x) /\ x \notin DOMAIN st.functions ->
           Give(Nil, IF x \in DOMAIN Natives THEN st ELSE Fail(st))

Eval(e, st) ==
    IF Spent(st) THEN Give(Nil, st)
    ELSE CASE e.type = "none" -> Give(Nil, st)
           [] e.type = "literal" -> Give(e.value, st)
           [] e.type = "identifier" -> EvalIdentifier(e.name, st)
           [] e.type = "call" -> Call(e, st)
           [] e.type = "unary" ->
                LET operand == Eval(e.operand, st)
                IN  Give(Bool(~IsTrue(operand.value)), operand.st)
           [] e.type = "binary" ->
                LET l == Eval(e.left, st)
                    r == Eval(e.right, l.st)
                    result == BinaryValue(e.operator, l.value, r.value)
                IN  Give(result.value, IF result.err THEN Fail(r.st) ELSE r.st)
           [] OTHER -> Give(Nil, Fail(st))

EvalAll(es, values, st) ==
    IF es = << >> THEN [values |-> values, st |-> st]
    ELSE LET first == Eval(Head(es), st)
         IN  EvalAll(Tail(es), Append(values, first.value), first.st)

\* The function a call means: by its name, or by the variable of that name.
Callee(f, st) ==
    LET v == environment_get(st.env, f)
    IN  IF f \in DOMAIN st.functions THEN f
        ELSE IF v.type = "function" THEN v.function ELSE "none"

\* A call: the arguments are bound in a new frame, with environment_set, which
\* writes to a variable of a caller that has a parameter's name.
Call(e, st) ==
    LET args == EvalAll(e.arguments, << >>, Burn(st))
        callee == Callee(e.name, st)
        f == st.functions[callee]
        called == [args.st EXCEPT !.env = BindParameters(frame_push(@), f.parameters, args.values)]
        body == IF f.body.type = "block" THEN f.body.statements ELSE <<f.body>>
    IN  IF callee = "none" /\ e.name \in DOMAIN Natives THEN Give(NativeResult(args.values), args.st)
        ELSE IF callee = "none" \/ Len(e.arguments) # Len(f.parameters) THEN Give(Nil, Fail(st))
        ELSE Leave(RunBody(body, Nil, called))

\* The statements of a body.  Only a return that is one of them ends the call:
\* what a statement below them returns is left in returned and return_value.
RunBody(body, v, st) ==
    IF body = << >> \/ Spent(st) THEN Give(v, st)
    ELSE IF Head(body).type = "return" THEN Eval(Head(body).value, st)
    ELSE RunBody(Tail(body), v, Exec(Head(body), st))

Exec(s, st) ==
    IF Spent(st) THEN st
    ELSE CASE s.type = "none" -> st
           [] s.type = "let" -> Stored(s.name, Eval(s.value, st))
           [] s.type = "function" ->
                [st EXCEPT !.functions =
                    (s.name :> [parameters |-> s.parameters, body |-> s.body]) @@ @]
           [] s.type = "return" ->
                LET v == Eval(s.value, st)
                IN  [v.st EXCEPT !.returned = TRUE, !.return_value = v.value]
           [] s.type = "print" ->
                LET v == Eval(s.expression, st) IN [v.st EXCEPT !.out = Append(@, v.value)]
           [] s.type = "if" ->
                LET c == Eval(s.condition, st)
                IN  IF st.returned THEN st
                    ELSE Exec(IF IsTrue(c.value) THEN s.then_branch ELSE s.else_branch, c.st)
           [] s.type = "while" -> Loop(s, st)
           [] s.type = "for" -> ForLoop(s, Exec(s.init, st))
           [] s.type = "block" -> ExecAll(s.statements, st)
           [] OTHER -> Fail(st)

ExecAll(ss, st) ==
    IF ss = << >> \/ st.returned THEN st ELSE ExecAll(Tail(ss), Exec(Head(ss), st))

Loop(s, st) ==
    LET c == Eval(s.condition, Burn(st))
    IN  IF st.returned \/ Spent(st) THEN st
        ELSE IF IsTrue(c.value) THEN Loop(s, Exec(s.body, c.st)) ELSE c.st

\* A for loop does not look at returned; its increment is a declaration or
\* an expression.
ForLoop(s, st) ==
    LET c == Eval(s.condition, Burn(st))
        body == Exec(s.body, c.st)
        next == IF s.increment.type = "let" THEN Exec(s.increment, body)
                ELSE Eval(s.increment, body).st
    IN  IF Spent(st) THEN st
        ELSE IF s.condition = None \/ IsTrue(c.value) THEN ForLoop(s, next) ELSE c.st

\* interpreter_execute: the statements of the program in a fresh environment.
RECURSIVE ExecProgram(_, _)
ExecProgram(ss, st) ==
    IF ss = << >> THEN st ELSE ExecProgram(Tail(ss), Exec(Head(ss), st))

interpreter_execute(ast) == ExecProgram(ast.statements, Machine([f \in {} |-> None]))

(***************************************************************************)
(* A call from the virtual machine (OP_CALL of vm.c): the machine runs the *)
(* statements of the body one by one and does end at a return below them.  *)
(* The state it starts in has the environment of the machine and what is   *)
(* left in returned.                                                       *)
(***************************************************************************)
\* A statement of the body; the interpreter itself knows no assignment.
ExecForMachine(s, st) ==
    IF s.type = "assign" THEN Stored(s.name, Eval(s.value, st)) ELSE Exec(s, st)

\* Taking what is left in returned.
TakeReturned(st) ==
    Give(IF st.returned THEN st.return_value ELSE Nil,
         [st EXCEPT !.returned = FALSE, !.return_value = Nil])

RECURSIVE RunStatements(_, _), RunRest(_, _)
RunStatements(ss, st) ==
    IF Spent(st) THEN Give(Nil, st)
    ELSE IF ss = << >> THEN TakeReturned(st)
    ELSE IF Head(ss).type = "return" THEN Eval(Head(ss).value, st)
    ELSE RunRest(ss, ExecForMachine(Head(ss), st))

RunRest(ss, st) ==
    IF Head(ss).type \notin {"assign", "let"} /\ st.returned THEN TakeReturned(st)
    ELSE RunStatements(Tail(ss), st)

CallFromMachine(f, values, st) ==
    LET called == [Burn(st) EXCEPT !.env = BindParameters(frame_push(@), f.parameters, values)]
    IN  Leave(CASE f.body.type = "block" -> RunStatements(f.body.statements, called)
                [] f.body.type = "return" -> Eval(f.body.value, called)
                [] OTHER -> Eval(f.body, called))

=============================================================================
