------------------------------ MODULE Pipeline ------------------------------
(***************************************************************************)
(* What main.c does with a source file: it parses, checks, optimises and   *)
(* compiles the text, has the virtual machine run the result and draws the *)
(* graphs of the program.  The lexer is left out: a source is the sequence *)
(* of its tokens.                                                          *)
(***************************************************************************)
EXTENDS VM, Passes

CONSTANT Sources        \* the token sequences a source file may hold

VARIABLES
    phase,      \* the last thing main has done
    tokens,
    ast,        \* the tree
    graphs      \* dep_graph, call_graph and cfg
vars == <<phase, tokens, ast, graphs, vmvars>>

Phases == {"read", "parsed", "checked", "optimised", "running", "analysed", "rejected"}

NoGraphs == [dependencies |-> graph_create, calls |-> graph_create, flow |-> graph_create]

Init ==
    /\ phase = "read"
    /\ tokens \in Sources
    /\ ast = None
    /\ graphs = NoGraphs
    /\ VMInit

\* A syntax error ends the program before anything else is done.
ParseSource ==
    /\ phase = "read"
    /\ LET parsed == Parse(tokens)
       IN  /\ ast' = parsed.node
           /\ phase' = IF parsed.err THEN "rejected" ELSE "parsed"
    /\ UNCHANGED <<tokens, graphs, vmvars>>

\* So does a type error.
CheckTypes ==
    /\ phase = "parsed"
    /\ phase' = IF typechecker_check(ast) THEN "rejected" ELSE "checked"
    /\ UNCHANGED <<tokens, ast, graphs, vmvars>>

Optimise ==
    /\ phase = "checked"
    /\ phase' = "optimised"
    /\ ast' = ssa_analyze_liveness(ssa_transform(ast))
    /\ UNCHANGED <<tokens, graphs, vmvars>>

CompileAndStart ==
    /\ phase = "optimised"
    /\ phase' = "running"
    /\ program' = compiler_compile(ast)
    /\ functions' = Registered([f \in {} |-> None], ast)
    /\ UNCHANGED <<tokens, ast, graphs, pc, stack, locals, env, interp, out, result, releases>>

Execute ==
    /\ phase = "running"
    /\ VMNext
    /\ UNCHANGED <<phase, tokens, ast, graphs>>

\* When the machine has stopped, by itself or by an error.
BuildGraphs ==
    /\ phase = "running"
    /\ result # "diverged"
    /\ result = "running" => pc = Len(program.instructions)
    /\ phase' = "analysed"
    /\ graphs' = [dependencies |-> graph_build_dependencies(ast),
                  calls |-> graph_build_call_graph(ast),
                  flow |-> graph_build_control_flow(ast)]
    /\ UNCHANGED <<tokens, ast, vmvars>>

Next == ParseSource \/ CheckTypes \/ Optimise \/ CompileAndStart \/ Execute \/ BuildGraphs

\* Nothing runs beside the machine: as long as it can go on, it does.  This is
\* WF_vars(Execute), with what enables Execute written down, which TLC would
\* otherwise look for by running every call again.
Runnable == phase = "running" /\ result = "running" /\ pc < Len(program.instructions)
Fairness == []<>~Runnable \/ []<><<Execute>>_vars

Spec == Init /\ [][Next]_vars /\ Fairness

Ended == phase = "rejected" \/ result # "running"

----------------------------------------------------------------------------
(* Reading programs                                                        *)

\* The nodes of a tree, and the names it declares.
Children(n) ==
    CASE n.type \in {"let", "assign", "return"} -> {n.value}
      [] n.type = "binary" -> {n.left, n.right}
      [] n.type = "unary" -> {n.operand}
      [] n.type = "print" -> {n.expression}
      [] n.type = "if" -> {n.condition, n.then_branch, n.else_branch}
      [] n.type = "while" -> {n.condition, n.body}
      [] n.type = "for" -> {n.init, n.condition, n.increment, n.body}
      [] n.type = "block" -> {n.statements[i] : i \in 1 .. Len(n.statements)}
      [] n.type = "call" -> {n.arguments[i] : i \in 1 .. Len(n.arguments)}
      [] n.type = "function" -> {n.body}
      [] OTHER -> {}

RECURSIVE Nodes(_)
Nodes(n) == {n} \cup UNION {Nodes(c) : c \in Children(n)}

NodesOf(n, types) == {m \in Nodes(n) : m.type \in types}
NamesOf(n, types) == {m.name : m \in NodesOf(n, types)}

(***************************************************************************)
(* The tokens a tree is written with: the text a reader of the grammar     *)
(* would write for it, with parentheses only where precedence and left     *)
(* association want them.                                                  *)
(***************************************************************************)
Token(type) == [type |-> type]
NameToken(x) == [type |-> "identifier", name |-> x]
LiteralToken(v) == [type |-> "literal", value |-> v]

LevelOf(op) == CHOOSE k \in 1 .. Len(Operators) : op \in Operators[k]

RECURSIVE WriteExpression(_, _), WriteList(_), WriteStatement(_), WriteStatements(_)
WriteExpression(e, level) ==
    LET k == LevelOf(e.operator)
        plain == WriteExpression(e.left, k) \o <<Token(e.operator)>>
                   \o WriteExpression(e.right, k + 1)
    IN  CASE e.type = "literal" -> <<LiteralToken(e.value)>>
          [] e.type = "identifier" -> <<NameToken(e.name)>>
          [] e.type = "call" ->
               <<NameToken(e.name), Token("(")>> \o WriteList(e.arguments) \o <<Token(")")>>
          [] e.type = "unary" ->
               <<Token("!")>> \o WriteExpression(e.operand, Len(Operators) + 1)
          [] e.type = "binary" /\ k >= level -> plain
          [] e.type = "binary" /\ k < level -> <<Token("(")>> \o plain \o <<Token(")")>>

WriteList(es) ==
    IF es = << >> THEN << >>
    ELSE WriteExpression(Head(es), 1)
           \o (IF Len(es) = 1 THEN << >> ELSE <<Token(",")>>) \o WriteList(Tail(es))

Parenthesised(e) == <<Token("(")>> \o WriteExpression(e, 1) \o <<Token(")")>>

WriteDeclaration(s) ==
    <<Token("let"), NameToken(s.name)>>
      \o (IF s.type_info = "none" THEN << >> ELSE <<Token(":"), Token(s.type_info)>>)
      \o <<Token("=")>> \o WriteExpression(s.value, 1)

WriteStatement(s) ==
    CASE s.type = "let" -> WriteDeclaration(s) \o <<Token(";")>>
      [] s.type = "assign" ->
           <<NameToken(s.name), Token("=")>> \o WriteExpression(s.value, 1) \o <<Token(";")>>
      [] s.type = "print" -> <<Token("print")>> \o Parenthesised(s.expression) \o <<Token(";")>>
      [] s.type = "if" ->
           <<Token("if")>> \o Parenthesised(s.condition) \o WriteStatement(s.then_branch)
             \o (IF s.else_branch = None THEN << >>
                 ELSE <<Token("else")>> \o WriteStatement(s.else_branch))
      [] s.type = "while" ->
           <<Token("while")>> \o Parenthesised(s.condition) \o WriteStatement(s.body)
      [] s.type = "for" ->
           <<Token("for"), Token("(")>> \o WriteStatement(s.init)
             \o WriteExpression(s.condition, 1) \o <<Token(";")>>
             \o WriteDeclaration(s.increment) \o <<Token(")")>> \o WriteStatement(s.body)
      [] s.type = "block" ->
           <<Token("{")>> \o WriteStatements(s.statements) \o <<Token("}")>>
      [] s.type = "return" ->
           <<Token("return")>> \o WriteExpression(s.value, 1) \o <<Token(";")>>
      [] s.type = "function" ->
           <<Token("function"), NameToken(s.name), Token("(")>>
             \o WriteList([i \in 1 .. Len(s.parameters) |-> Identifier(s.parameters[i])])
             \o <<Token(")")>> \o WriteStatement(s.body)
      [] OTHER -> WriteExpression(s, 1) \o <<Token(";")>>

WriteStatements(ss) ==
    IF ss = << >> THEN << >> ELSE WriteStatement(Head(ss)) \o WriteStatements(Tail(ss))

Written(ss) == WriteStatements(ss) \o <<Token("eof")>>

----------------------------------------------------------------------------
(* Properties                                                              *)

\* Values, registers and the end of a run are of their types.
ValueTypes == {"number", "bool", "string", "nil", "function"}

TypeOK ==
    /\ phase \in Phases
    /\ result \in {"running", "halted", "error", "diverged"}
    /\ pc \in 0 .. Len(program.instructions)
    /\ \A k \in DOMAIN program.instructions :
          program.instructions[k].op \in OpCode /\ program.instructions[k].operand \in Nat
    /\ \A r \in Registers : locals[r].type \in ValueTypes
    /\ \A i \in DOMAIN stack : stack[i].type \in ValueTypes
    /\ phase \in {"read", "rejected"} => program = EmptyProgram

\* The parser neither loses nor regroups anything: written out again by the
\* rules of precedence, its tree is the text it was given.
ParsedIsWritten ==
    phase \in {"parsed", "rejected"} => WriteStatements(ast.statements) \o <<Token("eof")>> = tokens

\* A program the type checker lets pass does not fail on a value of a wrong
\* type, unless it reads a variable or calls a function, of whose types the
\* checker knows nothing, or divides.
CheckerIsSound ==
    /\ result = "error"
    /\ NodesOf(ast, {"identifier", "call"}) = {}
    => \E n \in NodesOf(ast, {"binary"}) : n.operator = "/"

\* What the interpreter, the other implementation of the language, makes of
\* the same program.
Reference == interpreter_execute(ast)

(***************************************************************************)
(* The programs of which the two implementations mean to do the same.      *)
(* Outside of them they differ, and these are the differences: only the    *)
(* interpreter finds a function by a name that is read, or by a variable   *)
(* that holds one (interpreter.c:597-640), the machine has nil for it; the *)
(* interpreter declares functions as it comes to them, the machine before  *)
(* it starts, the last of a name, and none of a for loop                   *)
(* (register_functions_recursive); to the interpreter nil is zero in a     *)
(* sum, to the machine an error; a variable that the text reads above its  *)
(* declaration is a global there; functions do not see the locals of the   *)
(* machine, which has the interpreter run their bodies; natives take what  *)
(* is on its stack.                                                        *)
(***************************************************************************)
\* A function that does nothing but return an expression over its parameters.
ReturnsOwn(f) ==
    /\ f.body.type = "block" /\ f.body.statements # << >>
    /\ \A s \in Children(f.body) : s.type = "return" /\ s.value # None
    /\ NamesOf(f.body, {"identifier"}) \subseteq {f.parameters[i] : i \in DOMAIN f.parameters}
    /\ NodesOf(f.body, {"call"}) = {}

FunctionsAreFixed(tree) ==
    LET declared == NodesOf(tree, {"function"}) IN
    /\ \A f, g \in declared : f.name = g.name => f = g
    /\ \A l \in NodesOf(tree, {"for"}) : declared \cap Nodes(l) = {}
    /\ NamesOf(tree, {"function"}) \cap NamesOf(tree, {"identifier"}) = {}
    /\ \A f \in declared :
          /\ ReturnsOwn(f)
          /\ \A i \in DOMAIN f.parameters : f.parameters[i] \notin NamesOf(tree, {"let", "assign"})

\* The text declares a variable before it reads it.
DeclaredFirst(x) ==
    \A i \in DOMAIN tokens :
       tokens[i] = NameToken(x) =>
          \E j \in 2 .. i : tokens[j] = NameToken(x) /\ tokens[j - 1] = Token("let")

Comparable(tree) ==
    /\ FunctionsAreFixed(tree)
    /\ \A x \in NamesOf(tree, {"let"}) : DeclaredFirst(x)
    /\ NamesOf(tree, {"call"}) \cap DOMAIN Natives = {}
    /\ \A r \in NodesOf(tree, {"return"}) : \E f \in NodesOf(tree, {"function"}) : r \in Nodes(f)
    /\ Cardinality(NamesOf(tree, {"let", "assign", "identifier", "call"})) <= NumLocals

PrintsTheSame ==
    /\ phase \in {"running", "analysed"}
    /\ Ended
    /\ Comparable(ast)
    /\ ~Reference.err /\ ~Spent(Reference)
    => result = "halted" /\ out = Reference.out

\* A program that halts leaves nothing on the stack, unless one of its
\* statements is an expression, whose value nobody takes off, or it returns,
\* or it calls a function that does not exist, whose arguments stay.
LeavesValues(tree) ==
    \/ \E n \in NodesOf(tree, {"block"}) :
          \E i \in DOMAIN n.statements :
             n.statements[i].type \in {"literal", "identifier", "binary", "unary", "call"}
    \/ NodesOf(tree, {"return"}) # {}
    \/ ~(NamesOf(tree, {"call"}) \subseteq NamesOf(tree, {"function"}) \cup DOMAIN Natives)

NothingLeftOver ==
    result = "halted" /\ ~LeavesValues(ast) => stack = << >>

\* On a program of which both implementations mean to do the same, they do: if
\* the interpreter reports no error the machine halts without one, having
\* printed what the interpreter prints, and it leaves nothing on its stack.
\* Reading a variable the machine has as a local and the interpreter in its
\* environment, a jump or an operand at the wrong place, a value taken off that
\* was not put there, or a variable released too early would show here.
VMAgreesWithInterpreter == PrintsTheSame /\ NothingLeftOver

\* Without loops, the last use the liveness analysis marks is the last: no
\* value of a variable is released twice.
ReleasedOnce == \A x \in DOMAIN releases : releases[x] <= 1

ReleasedOnceOutsideLoops == NodesOf(ast, {"while", "for"}) = {} => ReleasedOnce

\* Every call ends.
CallsEnd == result # "diverged"

\* The machine gets to the end of every program that the interpreter gets to
\* the end of without an error.
ProgramsEnd ==
    (phase = "running" /\ pc = 0 /\ ~Reference.err /\ ~Spent(Reference)) ~> Ended

----------------------------------------------------------------------------
(* What the graphs of Passes say of a program, held against the            *)
(* program itself and against the machine that has run it.                 *)

(***************************************************************************)
(* The control flow of a tree: the statements (declarations, printing,     *)
(* returns, and the conditions of the others) that may come first and      *)
(* last, the pairs of which the second may come next after the first, and  *)
(* whether there may be none at all.  Assignments and expressions are not  *)
(* looked at.                                                              *)
(***************************************************************************)
NoFlow == [first |-> {}, last |-> {}, pairs |-> {}, empty |-> TRUE]
Only(n) == [first |-> {n}, last |-> {n}, pairs |-> {}, empty |-> FALSE]

Then(a, b) ==
    [first |-> a.first \cup (IF a.empty THEN b.first ELSE {}),
     last |-> b.last \cup (IF b.empty THEN a.last ELSE {}),
     pairs |-> a.pairs \cup b.pairs \cup (a.last \X b.first),
     empty |-> a.empty /\ b.empty]

Either(a, b) ==
    [first |-> a.first \cup b.first, last |-> a.last \cup b.last,
     pairs |-> a.pairs \cup b.pairs, empty |-> a.empty \/ b.empty]

\* A condition, and a body after which it comes again.
Repeated(condition, body) ==
    [Only(condition) EXCEPT !.pairs =
        LET round == Then(Only(condition), Then(body, Only(condition))) IN round.pairs]

RECURSIVE Flow(_)
Flow(n) ==
    CASE n.type \in {"let", "print", "return"} -> Only(n)
      [] n.type = "block" ->
           FoldLeft(LAMBDA flow, s : Then(flow, Flow(s)), NoFlow, n.statements)
      [] n.type = "if" -> Then(Only(n), Either(Flow(n.then_branch), Flow(n.else_branch)))
      [] n.type = "while" -> Repeated(n, Flow(n.body))
      [] n.type = "for" ->
           Then(Flow(n.init), Repeated(n, Then(Flow(n.body), Flow(n.increment))))
      [] OTHER -> NoFlow

\* The same relation as the control flow graph has it: from a node that stands
\* for a statement to the next ones that do.
RECURSIVE NextStatements(_, _)
NextStatements(cfg, name) ==
    UNION {LET to == NodeOf(cfg, cfg.edges[i].to)
           IN  IF to.data = None THEN NextStatements(cfg, to.name) ELSE {to.data} :
             i \in EdgesFrom(cfg, name)}

FlowOf(cfg) ==
    UNION {{n.data} \X NextStatements(cfg, n.name) : n \in {n \in ToSet(cfg.nodes) : n.data # None}}

\* Statements the control flow graph has no node for.
Unseen == {"assign", "literal", "identifier", "binary", "unary", "call"}

Analysed == phase = "analysed"

\* The control flow graph of a program without functions has every way the
\* program can go: through branches, back to a condition, past a loop.  It has
\* no other, unless it meets a statement it makes no node for.
FlowIsExact ==
    Analysed /\ NodesOf(ast, {"function"}) = {} =>
        /\ Flow(ast).pairs \subseteq FlowOf(graphs.flow)
        /\ (\A b \in NodesOf(ast, {"block"}) : {s.type : s \in Children(b)} \cap Unseen = {})
             => FlowOf(graphs.flow) = Flow(ast).pairs

\* A variable depends on what the values it is given mention, wherever in the
\* program that is, and on nothing else; a function on its parameters.
DependenciesAreUses ==
    Analysed =>
        {<<e.from, e.to>> : e \in ToSet(graphs.dependencies.edges)} =
            UNION {{n.name} \X NamesOf(n.value, {"identifier", "call"}) :
                     n \in NodesOf(ast, {"let", "assign"})}
              \cup UNION {{f.name} \X ToSet(f.parameters) : f \in NodesOf(ast, {"function"})}

\* A function that is reported as never called is called, if at all, from where
\* the call graph does not look: what is printed, returned, assigned, negated or
\* tested.  A parameter is not reported as unused.
Overlooked ==
    {n.expression : n \in NodesOf(ast, {"print"})}
      \cup {n.value : n \in NodesOf(ast, {"return", "assign"})}
      \cup {n.operand : n \in NodesOf(ast, {"unary"})}
      \cup {n.condition : n \in NodesOf(ast, {"if", "while", "for"})}

DeadIsUnused ==
    Analysed =>
        /\ DeadFunctions(graphs.calls) \cap NamesOf(ast, {"call"})
             \subseteq UNION {NamesOf(e, {"call"}) : e \in Overlooked}
        /\ DeadVariables(graphs.dependencies)
             \cap UNION {ToSet(f.parameters) : f \in NodesOf(ast, {"function"})} = {}

\* A variable that is reported constant and declared once is one: the machine
\* has had no other value in its register.
Declarations(x) == {n \in NodesOf(ast, {"let"}) : n.name = x}

ConstantsHold ==
    Analysed =>
        \A n \in Constants(graphs.dependencies) :
            Cardinality(Declarations(n.name)) = 1 =>
                \A r \in Registers :
                    /\ r < Len(program.variable_names)
                    /\ program.variable_names[r + 1] = n.name
                    => locals[r] \in {Nil, n.data.value.value}

\* What the graphs report of a program holds of it: of the ways it can go, of
\* what its variables depend on, of what is never used and of what never
\* changes (graph.c).
GraphsTellThePrograms ==
    FlowIsExact /\ DependenciesAreUses /\ DeadIsUnused /\ ConstantsHold
=============================================================================
