--------------------------------- MODULE VM ---------------------------------
(***************************************************************************)
(* The compiler and the virtual machine.  Run by TLC only.                 *)
(***************************************************************************)
EXTENDS Interpreter

----------------------------------------------------------------------------
(***************************************************************************)
(* compile_node of core/vm/compiler.c: from the tree to the bytecode.  The *)
(* program being built has the fields of BytecodeProgram, and symbols, the *)
(* table that tells locals from globals while the compiler runs.           *)
(* Instructions are numbered from 0, as pc counts them: instruction n is   *)
(* element n + 1 of the sequence.  Growing the arrays and the bound of 100 *)
(* symbols are left out.                                                   *)
(***************************************************************************)
\* The opcodes compile_node emits; CALL has the index of a name, not a count.
OpCode ==
    {"LOAD_CONST", "LOAD_VAR", "STORE_VAR", "LOAD_LOCAL", "STORE_LOCAL", "RELEASE", "ADD", "SUB",
     "MUL", "DIV", "EQ", "NE", "GT", "LT", "GTE", "LTE", "AND", "OR", "NOT", "JUMP",
     "JUMP_IF_FALSE", "CALL", "RETURN", "PRINT", "POP", "HALT"}

EmptyProgram ==
    [instructions |-> << >>, constants |-> << >>, variable_names |-> << >>,
     symbols |-> << >>]

Instruction(op, operand) == [op |-> op, operand |-> operand]

emit(p, op, operand) ==
    [p EXCEPT !.instructions = Append(@, Instruction(op, operand))]

\* The number of the next instruction, and writing a jump's target afterwards.
Here(p) == Len(p.instructions)
Patch(p, at, target) == [p EXCEPT !.instructions[at + 1].operand = target]

\* The index of x in s, counted from 0, or the length of s.
IndexIn(x, s) ==
    IF \E i \in 1 .. Len(s) : s[i] = x
    THEN (CHOOSE i \in 1 .. Len(s) : s[i] = x) - 1 ELSE Len(s)

add_constant(p, c) ==
    IF IndexIn(c, p.constants) < Len(p.constants) THEN p
    ELSE [p EXCEPT !.constants = Append(@, c)]

add_variable(p, x) ==
    IF IndexIn(x, p.variable_names) < Len(p.variable_names) THEN p
    ELSE [p EXCEPT !.variable_names = Append(@, x)]

compiler_add_symbol(p, x, is_local) == [p EXCEPT !.symbols = (x :> is_local) @@ @]

compiler_is_local(p, x) == x \in DOMAIN p.symbols /\ p.symbols[x]

\* An instruction on a constant, and on a variable, entered in their tables.
EmitConstant(p, c) ==
    LET q == add_constant(p, c) IN emit(q, "LOAD_CONST", IndexIn(c, q.constants))

EmitVariable(p, op, x) ==
    LET q == add_variable(p, x) IN emit(q, op, IndexIn(x, q.variable_names))

EmitLoad(p, x) == EmitVariable(p, IF compiler_is_local(p, x) THEN "LOAD_LOCAL" ELSE "LOAD_VAR", x)
EmitStore(p, x) ==
    EmitVariable(p, IF compiler_is_local(p, x) THEN "STORE_LOCAL" ELSE "STORE_VAR", x)

BinaryOpcode ==
    ("+" :> "ADD") @@ ("-" :> "SUB") @@ ("*" :> "MUL") @@ ("/" :> "DIV")
      @@ ("==" :> "EQ") @@ ("!=" :> "NE") @@ (">" :> "GT") @@ ("<" :> "LT")
      @@ (">=" :> "GTE") @@ ("<=" :> "LTE") @@ ("and" :> "AND") @@ ("or" :> "OR")

RECURSIVE compile_node(_, _), compile_all(_, _)

\* Faulty variant: the jump over the then branch lands one instruction early.
compile_if_short(p, node) ==
    LET condition == compile_node(p, node.condition)
        then == compile_node(emit(condition, "JUMP_IF_FALSE", 0), node.then_branch)
        else == compile_node(Patch(emit(then, "JUMP", 0), Here(condition), Here(then)),
                             node.else_branch)
    IN  IF node.else_branch = None THEN Patch(then, Here(condition), Here(then))
        ELSE Patch(else, Here(then), Here(else))

compile_if(p, node) ==
    LET condition == compile_node(p, node.condition)
        then == compile_node(emit(condition, "JUMP_IF_FALSE", 0), node.then_branch)
        else == compile_node(Patch(emit(then, "JUMP", 0), Here(condition), Here(then) + 1),
                             node.else_branch)
    IN  IF node.else_branch = None THEN Patch(then, Here(condition), Here(then))
        ELSE Patch(else, Here(then), Here(else))

compile_while(p, node) ==
    LET condition == compile_node(p, node.condition)
        body == compile_node(emit(condition, "JUMP_IF_FALSE", 0), node.body)
        loop == emit(body, "JUMP", Here(p))
    IN  Patch(loop, Here(condition), Here(loop))

\* The value of an increment is popped, be it an expression or a declaration.
compile_for(p, node) ==
    LET start == compile_node(p, node.init)
        condition == compile_node(start, node.condition)
        guarded == IF node.condition = None THEN start ELSE emit(condition, "JUMP_IF_FALSE", 0)
        body == compile_node(guarded, node.body)
        increment == IF node.increment = None THEN body
                     ELSE emit(compile_node(body, node.increment), "POP", 0)
        loop == emit(increment, "JUMP", Here(start))
    IN  IF node.condition = None THEN loop ELSE Patch(loop, Here(condition), Here(loop))

\* Faulty variant: a second declaration of a name is not stored.
compile_declaration_once(p, node) ==
    LET value == compile_node(p, node.value)
        known == compiler_add_symbol(add_variable(value, node.name), node.name, ~node.escapes)
    IN  IF node.name \in DOMAIN p.symbols THEN emit(value, "POP", 0)
        ELSE EmitStore(known, node.name)

compile_declaration(p, node) ==
    LET value == compile_node(p, node.value)
        known == compiler_add_symbol(add_variable(value, node.name), node.name, ~node.escapes)
    IN  EmitStore(known, node.name)

compile_identifier(p, node) ==
    LET load == EmitLoad(p, node.name)
    IN  IF node.is_last_use THEN EmitVariable(load, "RELEASE", node.name) ELSE load

compile_node(p, node) ==
    CASE node.type \in {"none", "function"} -> p
      [] node.type = "literal" -> EmitConstant(p, node.value)
      [] node.type = "identifier" -> compile_identifier(p, node)
      [] node.type = "binary" ->
           emit(compile_node(compile_node(p, node.left), node.right),
                BinaryOpcode[node.operator], 0)
      [] node.type = "unary" -> emit(compile_node(p, node.operand), "NOT", 0)
      [] node.type = "let" -> compile_declaration(p, node)
      [] node.type = "assign" -> EmitStore(compile_node(p, node.value), node.name)
      [] node.type = "print" -> emit(emit(compile_node(p, node.expression), "PRINT", 0), "POP", 0)
      [] node.type = "call" -> EmitVariable(compile_all(p, node.arguments), "CALL", node.name)
      [] node.type = "return" ->
           emit(IF node.value = None THEN EmitConstant(p, Nil) ELSE compile_node(p, node.value),
                "RETURN", 0)
      [] node.type = "if" -> compile_if(p, node)
      [] node.type = "while" -> compile_while(p, node)
      [] node.type = "for" -> compile_for(p, node)
      [] node.type = "block" -> compile_all(p, node.statements)

compile_all(p, nodes) ==
    IF nodes = << >> THEN p ELSE compile_all(compile_node(p, Head(nodes)), Tail(nodes))

compiler_compile(ast) == emit(compile_node(EmptyProgram, ast), "HALT", 0)

----------------------------------------------------------------------------
(***************************************************************************)
(* The virtual machine of core/vm/vm.c: vm_execute, which runs vm_step     *)
(* until the program halts or an instruction returns an error.  One action *)
(* per group of instructions.  Values are kept by content; what their      *)
(* reference counts do is the subject of Snapshots.  The trace recorder    *)
(* and the heat map change no value and are left out.                      *)
(***************************************************************************)
CONSTANT NumLocals      \* 32 in the code: the registers of a machine

VARIABLES
    program,    \* vm->program, a BytecodeProgram
    functions,  \* vm->function_table
    pc,         \* vm->pc
    stack,      \* vm->stack, the top last
    locals,     \* vm->locals, from register numbers to values
    env,        \* vm->env
    interp,     \* g_has_returned and g_return_value of the interpreter
    out,        \* what has been printed
    result,     \* "running", "halted", "error" (vm_execute returns 1), or
                \* "diverged", a call having used up its fuel
    releases    \* history: RELEASEs of a variable since it was last stored,
                \* 0, 1, or 2 for more than one

vmvars == <<program, functions, pc, stack, locals, env, interp, out, result, releases>>
outside == <<program, functions, interp>>

Registers == 0 .. NumLocals - 1

VMInit ==
    /\ program = EmptyProgram
    /\ functions = [f \in {} |-> None]
    /\ pc = 0
    /\ stack = << >>
    /\ locals = [r \in Registers |-> Nil]
    /\ env = <<EmptyFrame>>
    /\ interp = [returned |-> FALSE, return_value |-> Nil]
    /\ out = << >>
    /\ result = "running"
    /\ releases = [x \in {} |-> 0]

\* register_functions_recursive of main.c: the functions declared in blocks,
\* conditionals and while loops, a later one replacing an earlier one.
RECURSIVE Registered(_, _), RegisteredAll(_, _)
Registered(table, node) ==
    CASE node.type = "function" ->
           (node.name :> [parameters |-> node.parameters, body |-> node.body]) @@ table
      [] node.type = "block" -> RegisteredAll(table, node.statements)
      [] node.type = "if" -> Registered(Registered(table, node.then_branch), node.else_branch)
      [] node.type = "while" -> Registered(table, node.body)
      [] OTHER -> table
RegisteredAll(table, nodes) ==
    IF nodes = << >> THEN table
    ELSE RegisteredAll(Registered(table, Head(nodes)), Tail(nodes))

----------------------------------------------------------------------------
(* The instruction at pc, the stack, and the ways an instruction ends      *)

Fetched == program.instructions[pc + 1]
Operand == Fetched.operand
Name == program.variable_names[Operand + 1]

Executing(ops) ==
    result = "running" /\ pc < Len(program.instructions) /\ Fetched.op \in ops

\* The n-th value from the top, nil below the bottom; and the stack without
\* its n topmost values.
FromTop(n) == IF n <= Len(stack) THEN stack[Len(stack) + 1 - n] ELSE Nil
Popped(n) == SubSeq(stack, 1, Len(stack) - n)

Goto(target) == pc' = target /\ UNCHANGED <<outside, result>>
Continue == Goto(pc + 1)

\* Two operands replaced by a value.
Yield(v) == stack' = Append(Popped(2), v) /\ Continue

\* return 1: the machine stops where it is.
Error == result' = "error" /\ UNCHANGED <<outside, pc>>

----------------------------------------------------------------------------
(* Loads and stores                                                        *)

Releases(x) == IF x \in DOMAIN releases THEN releases[x] ELSE 0

LoadConst ==
    /\ Executing({"LOAD_CONST"})
    /\ stack' = Append(stack, program.constants[Operand + 1])
    /\ Continue
    /\ UNCHANGED <<locals, env, out, releases>>

LoadVar ==
    /\ Executing({"LOAD_VAR"})
    /\ stack' = Append(stack, environment_get(env, Name))
    /\ Continue
    /\ UNCHANGED <<locals, env, out, releases>>

LoadLocal ==
    /\ Executing({"LOAD_LOCAL"})
    /\ IF Operand \in Registers
       THEN stack' = Append(stack, locals[Operand]) /\ Continue
       ELSE Error /\ UNCHANGED stack
    /\ UNCHANGED <<locals, env, out, releases>>

StoreVar ==
    /\ Executing({"STORE_VAR"})
    /\ stack' = Popped(1)
    /\ env' = environment_set(env, Name, FromTop(1))
    /\ releases' = (Name :> 0) @@ releases
    /\ Continue
    /\ UNCHANGED <<locals, out>>

StoreLocal ==
    /\ Executing({"STORE_LOCAL"})
    /\ IF Operand \in Registers
       THEN /\ stack' = Popped(1)
            /\ locals' = [locals EXCEPT ![Operand] = FromTop(1)]
            /\ releases' = (Name :> 0) @@ releases
            /\ Continue
       ELSE Error /\ UNCHANGED <<stack, locals, releases>>
    /\ UNCHANGED <<env, out>>

\* RELEASE forgets a variable of the environment; of a local it only gives
\* up a reference, and the value stays where it is.
Release ==
    /\ Executing({"RELEASE"})
    /\ env' = environment_remove(env, Name)
    /\ releases' = (Name :> IF Releases(Name) = 0 THEN 1 ELSE 2) @@ releases
    /\ Continue
    /\ UNCHANGED <<stack, locals, out>>

----------------------------------------------------------------------------
(* Operators.  Both operands are gone even if the operation fails, except  *)
(* for a sum of fewer than two values.                                     *)

\* OP_ADD concatenates numbers and strings, and nothing else.
Addable(l, r) ==
    \/ IsNumber(l) /\ IsNumber(r)
    \/ (IsString(l) \/ IsString(r)) /\ {l.type, r.type} \subseteq {"number", "string"}

Add ==
    /\ Executing({"ADD"})
    /\ LET l == FromTop(2)
           r == FromTop(1)
       IN  IF Len(stack) < 2 THEN Error /\ UNCHANGED stack
           ELSE IF Addable(l, r) THEN Yield(BinaryValue("+", l, r).value)
           ELSE Error /\ stack' = Popped(2)
    /\ UNCHANGED <<locals, env, out, releases>>

ArithmeticOp == [SUB |-> "-", MUL |-> "*", DIV |-> "/"]

Calculate ==
    /\ Executing({"SUB", "MUL", "DIV"})
    /\ LET l == FromTop(2)
           r == FromTop(1)
       IN  IF /\ IsNumber(l) /\ IsNumber(r)
              /\ ~(Fetched.op = "DIV" /\ r.halves = 0)
           THEN Yield(Arithmetic(ArithmeticOp[Fetched.op], l.halves, r.halves))
           ELSE Error /\ stack' = Popped(2)
    /\ UNCHANGED <<locals, env, out, releases>>

\* Equal are values of one type and content; two functions are never equal.
SameValue(l, r) == l.type = r.type /\ l.type # "function" /\ l = r

Equality ==
    /\ Executing({"EQ", "NE"})
    /\ Yield(Bool(SameValue(FromTop(2), FromTop(1)) = (Fetched.op = "EQ")))
    /\ UNCHANGED <<locals, env, out, releases>>

\* What an ordering compares: the length of a string, one for true, zero for nil.
Magnitude(v) ==
    CASE IsNumber(v) -> v.halves
      [] IsString(v) -> 2 * Len(v.chars)
      [] v.type = "bool" -> IF v.boolean THEN 2 ELSE 0
      [] OTHER -> 0

OrderOp == [GT |-> ">", LT |-> "<", GTE |-> ">=", LTE |-> "<="]

Order ==
    /\ Executing({"GT", "LT", "GTE", "LTE"})
    /\ LET l == FromTop(2)
           r == FromTop(1)
       IN  IF "function" \in {l.type, r.type} THEN Error /\ stack' = Popped(2)
           ELSE Yield(Compare(OrderOp[Fetched.op], Magnitude(l), Magnitude(r)))
    /\ UNCHANGED <<locals, env, out, releases>>

Logical ==
    /\ Executing({"AND", "OR"})
    /\ Yield(Bool(IF Fetched.op = "AND" THEN IsTrue(FromTop(2)) /\ IsTrue(FromTop(1))
                  ELSE IsTrue(FromTop(2)) \/ IsTrue(FromTop(1))))
    /\ UNCHANGED <<locals, env, out, releases>>

Not ==
    /\ Executing({"NOT"})
    /\ stack' = Append(Popped(1), Bool(~IsTrue(FromTop(1))))
    /\ Continue
    /\ UNCHANGED <<locals, env, out, releases>>

----------------------------------------------------------------------------
(* Output, jumps and calls                                                 *)

\* OP_PRINT only looks at the value: OP_POP after it takes it off.
PrintTop ==
    /\ Executing({"PRINT"})
    /\ out' = Append(out, FromTop(1))
    /\ Continue
    /\ UNCHANGED <<stack, locals, env, releases>>

PopTop ==
    /\ Executing({"POP"})
    /\ stack' = Popped(1)
    /\ Continue
    /\ UNCHANGED <<locals, env, out, releases>>

Jump ==
    /\ Executing({"JUMP"})
    /\ Goto(Operand)
    /\ UNCHANGED <<stack, locals, env, out, releases>>

JumpIfFalse ==
    /\ Executing({"JUMP_IF_FALSE"})
    /\ stack' = Popped(1)
    /\ Goto(IF IsTrue(FromTop(1)) THEN pc + 1 ELSE Operand)
    /\ UNCHANGED <<locals, env, out, releases>>

\* OP_RETURN outside a function does nothing: its value stays on the stack.
ReturnTop ==
    /\ Executing({"RETURN"})
    /\ Continue
    /\ UNCHANGED <<stack, locals, env, out, releases>>

\* A native function gets as many values as it accepts and the stack holds,
\* whatever the call was written with; none, if that is fewer than it needs.
NativeArguments(native) ==
    LET wanted == IF Len(stack) > native.max_args THEN native.max_args ELSE Len(stack)
    IN  IF wanted >= native.min_args THEN wanted ELSE 0

CallNative ==
    /\ Executing({"CALL"})
    /\ Name \in DOMAIN Natives
    /\ LET n == NativeArguments(Natives[Name])
       IN  stack' = Append(Popped(n),
                           NativeResult(SubSeq(stack, Len(stack) + 1 - n, Len(stack))))
    /\ Continue
    /\ UNCHANGED <<locals, env, out, releases>>

(***************************************************************************)
(* A function written in Asteron is run by the interpreter, on the         *)
(* environment of the machine, which the locals are no part of.  A call    *)
(* that does not end is one that uses up its fuel: the machine then never  *)
(* comes back.                                                             *)
(***************************************************************************)
InterpreterState ==
    [env |-> env, functions |-> functions, returned |-> interp.returned,
     return_value |-> interp.return_value, out |-> out, err |-> FALSE, fuel |-> MaxFuel]

ReturnFromCall(below, call) ==
    /\ stack' = Append(below, call.value)
    /\ env' = call.st.env
    /\ functions' = call.st.functions
    /\ interp' = [returned |-> call.st.returned, return_value |-> call.st.return_value]
    /\ out' = call.st.out
    /\ pc' = pc + 1
    /\ result' = IF Spent(call.st) THEN "diverged" ELSE "running"
    /\ UNCHANGED program

CallFunction ==
    /\ Executing({"CALL"})
    /\ Name \notin DOMAIN Natives
    /\ Name \in DOMAIN functions
    /\ LET f == functions[Name]
           n == Len(f.parameters)
       IN  IF Len(stack) < n THEN ReturnFromCall(stack, Give(Nil, InterpreterState))
           ELSE ReturnFromCall(Popped(n),
                    CallFromMachine(f, SubSeq(stack, Len(stack) + 1 - n, Len(stack)),
                                    InterpreterState))
    /\ UNCHANGED <<locals, releases>>

\* An unknown function yields nil; its arguments stay below it.
CallUnknown ==
    /\ Executing({"CALL"})
    /\ Name \notin DOMAIN Natives \cup DOMAIN functions
    /\ stack' = Append(stack, Nil)
    /\ Continue
    /\ UNCHANGED <<locals, env, out, releases>>

Halt ==
    /\ Executing({"HALT"})
    /\ result' = "halted"
    /\ UNCHANGED <<outside, pc, stack, locals, env, out, releases>>

VMNext ==
    \/ LoadConst \/ LoadVar \/ LoadLocal \/ StoreVar \/ StoreLocal \/ Release
    \/ Add \/ Calculate \/ Equality \/ Order \/ Logical \/ Not
    \/ PrintTop \/ PopTop \/ Jump \/ JumpIfFalse \/ ReturnTop
    \/ CallNative \/ CallFunction \/ CallUnknown \/ Halt
=============================================================================
