------------------------------- MODULE Passes -------------------------------
(***************************************************************************)
(* What is made of a tree between the parser and the compiler: the type    *)
(* checker, the optimizer passes that change the tree, and the graphs drawn *)
(* of it.  Run by TLC only: the functions recur over the tree.             *)
(***************************************************************************)
EXTENDS Syntax, FiniteSets, SequencesExt

CONSTANT MAX_VERSIONS       \* 10 in the code: versions a variable may have

----------------------------------------------------------------------------
(***************************************************************************)
(* check_node of core/typechecker/typechecker.c: the type it gives a node, *)
(* and whether it reports an error anywhere below the node.                *)
(***************************************************************************)

Types == {"int", "float", "bool", "string", "void", "unknown", "error"}

Numeric == {"int", "float"}

Checked(type, err) == [type |-> type, err |-> err]
Failure == Checked("error", TRUE)

LiteralType(v) ==
    CASE IsNumber(v) -> IF v.halves % 2 = 0 THEN "int" ELSE "float"
      [] IsString(v) -> "string"
      [] v.type = "bool" -> "bool"
      [] OTHER -> "unknown"

types_compatible(expected, actual) ==
    \/ "unknown" \in {expected, actual}
    \/ expected = actual
    \/ expected = "float" /\ actual = "int"

\* Faulty variant: every operator is taken for a concatenation.
ArithmeticTypeOfAnySum(op, l, r) ==
    IF \/ l \in {"string", "unknown"} /\ r \in Numeric \cup {"string", "unknown"}
       \/ l \in Numeric \cup {"unknown"} /\ r \in {"string", "unknown"}
    THEN Checked("string", FALSE)
    ELSE IF {l, r} \subseteq Numeric
    THEN Checked(IF "float" \in {l, r} THEN "float" ELSE "int", FALSE)
    ELSE Failure

\* An arithmetic operator: '+' first looks for a concatenation, and takes an
\* operand of unknown type for a string.
ArithmeticType(op, l, r) ==
    IF \/ op = "+" /\ l \in {"string", "unknown"} /\ r \in Numeric \cup {"string", "unknown"}
       \/ op = "+" /\ l \in Numeric \cup {"unknown"} /\ r \in {"string", "unknown"}
    THEN Checked("string", FALSE)
    ELSE IF {l, r} \subseteq Numeric \cup {"unknown"}
    THEN Checked(IF "unknown" \in {l, r} THEN "unknown"
                 ELSE IF "float" \in {l, r} THEN "float" ELSE "int", FALSE)
    ELSE Failure

ComparisonType(l, r) ==
    IF "unknown" \in {l, r} THEN Checked("unknown", FALSE)
    ELSE IF types_compatible(l, r) THEN Checked("bool", FALSE) ELSE Failure

LogicalType(l, r) ==
    IF "unknown" \in {l, r} THEN Checked("unknown", FALSE)
    ELSE IF {l, r} = {"bool"} THEN Checked("bool", FALSE) ELSE Failure

BinaryType(op, l, r) ==
    CASE op \in {"+", "-", "*", "/"} -> ArithmeticType(op, l, r)
      [] op \in {"==", "!=", ">", "<", ">=", "<="} -> ComparisonType(l, r)
      [] op \in {"and", "or"} -> LogicalType(l, r)

NotType(t) ==
    IF t \in {"bool", "unknown"} THEN Checked(t, FALSE) ELSE Failure

\* A declaration takes its annotated type, if the value may have it.
DeclarationType(declared, t) ==
    IF declared = "none" THEN Checked(IF t = "error" THEN "unknown" ELSE t, FALSE)
    ELSE IF types_compatible(declared, t) THEN Checked(declared, FALSE) ELSE Failure

\* The condition of an if, a while or a for: of boolean or numeric type.
ConditionErr(t) == t \notin Numeric \cup {"bool", "unknown"}

RECURSIVE check_node(_)
check_node(node) ==
    LET Also(c, errs) == [c EXCEPT !.err = @ \/ (\E e \in errs : e)]
        ErrOf(child) == check_node(child).err
    IN  CASE node.type = "literal" -> Checked(LiteralType(node.value), FALSE)
          [] node.type \in {"none", "identifier", "call", "assign"} -> Checked("unknown", FALSE)
          [] node.type = "binary" ->
               LET l == check_node(node.left)
                   r == check_node(node.right)
               IN  Also(BinaryType(node.operator, l.type, r.type), {l.err, r.err})
          [] node.type = "unary" ->
               LET c == check_node(node.operand) IN Also(NotType(c.type), {c.err})
          [] node.type = "let" ->
               LET c == check_node(node.value)
               IN  Also(DeclarationType(node.type_info, c.type), {c.err})
          [] node.type = "if" ->
               Checked("void", \/ ConditionErr(check_node(node.condition).type)
                               \/ ErrOf(node.condition) \/ ErrOf(node.then_branch)
                               \/ ErrOf(node.else_branch))
          [] node.type = "while" ->
               Checked("void", \/ ConditionErr(check_node(node.condition).type)
                               \/ ErrOf(node.condition) \/ ErrOf(node.body))
          [] node.type = "for" ->
               Checked("void", \/ ConditionErr(check_node(node.condition).type)
                               \/ ErrOf(node.init) \/ ErrOf(node.condition)
                               \/ ErrOf(node.increment) \/ ErrOf(node.body))
          [] node.type = "print" -> Checked("void", ErrOf(node.expression))
          [] node.type = "return" -> Checked("void", ErrOf(node.value))
          [] node.type = "function" -> Checked("void", ErrOf(node.body))
          [] node.type = "block" ->
               Checked("void", \E i \in 1 .. Len(node.statements) : ErrOf(node.statements[i]))

\* typechecker_check: the program is run only if nothing was reported.
typechecker_check(ast) == check_node(ast).err

----------------------------------------------------------------------------
(***************************************************************************)
(* The optimizer: the versions ssa.c gives variables and the last uses its *)
(* liveness analysis marks (core/optimizer/ssa.c).  escape.c clears flags  *)
(* the parser has left clear, and inline.c and reg_alloc.c change nothing, *)
(* so that they have no operator here.  The bound of 100 names of the      *)
(* table is left out.                                                      *)
(***************************************************************************)

(***************************************************************************)
(* ssa_transform.  versions maps the name of a variable to the number of   *)
(* its versions; names is the table in the order of first appearance.      *)
(***************************************************************************)
Table == [names |-> << >>, versions |-> << >>]

find_or_create_var(table, x) ==
    IF x \in DOMAIN table.versions THEN table
    ELSE [names |-> Append(table.names, x), versions |-> table.versions @@ (x :> 0)]

\* The stack of versions only grows, and is full at MAX_VERSIONS.
push_version(table, x) ==
    LET found == find_or_create_var(table, x)
    IN  IF found.versions[x] < MAX_VERSIONS
        THEN [found EXCEPT !.versions[x] = @ + 1] ELSE found

new_version(table, x) ==
    LET before == find_or_create_var(table, x).versions[x]
    IN  IF before < MAX_VERSIONS THEN before ELSE -1

current_version(table, x) == find_or_create_var(table, x).versions[x] - 1

\* The tree and the table after a node.  Conditionals, for loops, calls,
\* negations, returns and functions are not descended into.
RECURSIVE transform(_, _), transform_all(_, _, _)
transform(node, table) ==
    LET Out(n, t) == [node |-> n, table |-> t]
    IN  CASE node.type = "let" ->
               LET v == transform(node.value, table)
               IN  Out([node EXCEPT !.value = v.node,
                                    !.ssa_version = new_version(v.table, node.name)],
                       push_version(v.table, node.name))
          [] node.type = "identifier" ->
               Out([node EXCEPT !.ssa_version = current_version(table, node.name)],
                   find_or_create_var(table, node.name))
          [] node.type = "while" ->
               LET c == transform(node.condition, table)
                   b == transform(node.body, c.table)
               IN  Out([node EXCEPT !.condition = c.node, !.body = b.node], b.table)
          [] node.type = "block" ->
               LET all == transform_all(node.statements, table, << >>)
               IN  Out([node EXCEPT !.statements = all.node], all.table)
          [] node.type = "assign" ->
               LET v == transform(node.value, table)
               IN  Out([node EXCEPT !.value = v.node], push_version(v.table, node.name))
          [] node.type = "binary" ->
               LET l == transform(node.left, table)
                   r == transform(node.right, l.table)
               IN  Out([node EXCEPT !.left = l.node, !.right = r.node], r.table)
          [] node.type = "print" ->
               LET e == transform(node.expression, table)
               IN  Out([node EXCEPT !.expression = e.node], e.table)
          [] OTHER -> Out(node, table)

transform_all(nodes, table, done) ==
    IF nodes = << >> THEN [node |-> done, table |-> table]
    ELSE LET first == transform(Head(nodes), table)
         IN  transform_all(Tail(nodes), first.table, Append(done, first.node))

ssa_transform(ast) == transform(ast, Table)

----------------------------------------------------------------------------
(* ssa_analyze_liveness: for every version of every variable, the last     *)
(* identifier that reads it, looked for from the end of the program.       *)

\* is_var_used_in, of a condition: a call hides what its arguments use.
RECURSIVE is_var_used_in(_, _)
is_var_used_in(e, x) ==
    CASE e.type = "identifier" -> e.name = x
      [] e.type = "binary" -> is_var_used_in(e.left, x) \/ is_var_used_in(e.right, x)
      [] e.type = "unary" -> is_var_used_in(e.operand, x)
      [] OTHER -> FALSE

\* The children a search visits, in the order of the visit: last first.
SearchOrder(node) ==
    CASE node.type \in {"let", "assign", "return"} -> <<"value">>
      [] node.type = "binary" -> <<"right", "left">>
      [] node.type = "print" -> <<"expression">>
      [] node.type = "if" -> <<"else_branch", "then_branch", "condition">>
      [] node.type = "while" -> <<"body", "condition">>
      [] node.type = "unary" -> <<"operand">>
      [] OTHER -> << >>

(***************************************************************************)
(* mark_last_use_backward: the tree with the use marked, and whether it    *)
(* was found.  use is the name and the version looked for; in_loop holds   *)
(* once a loop above tests the variable; in_print holds for the expression *)
(* of a print itself, not for what is below it.                            *)
(***************************************************************************)
RECURSIVE mark(_, _, _, _), mark_fields(_, _, _, _), mark_list(_, _, _, _)
mark(node, use, in_loop, in_print) ==
    LET loop == in_loop \/ (node.type = "while" /\ is_var_used_in(node.condition, use.name))
        list == IF node.type = "block" THEN "statements" ELSE "arguments"
        marked == mark_list(node[list], use, loop, Len(node[list]))
        isUse == node.name = use.name /\ node.ssa_version = use.version
    IN  CASE node.type = "identifier" ->
               IF isUse /\ ~loop /\ ~in_print
               THEN [node |-> [node EXCEPT !.is_last_use = TRUE], found |-> TRUE]
               ELSE [node |-> node, found |-> FALSE]
          [] node.type \in {"block", "call"} ->
               [node |-> [node EXCEPT ![list] = marked.node], found |-> marked.found]
          [] OTHER -> mark_fields(node, use, loop, SearchOrder(node))

mark_fields(node, use, in_loop, fields) ==
    IF fields = << >> THEN [node |-> node, found |-> FALSE]
    ELSE LET f == Head(fields)
             child == mark(node[f], use, in_loop, node.type = "print")
             with == [node EXCEPT ![f] = child.node]
         IN  IF child.found THEN [node |-> with, found |-> TRUE]
             ELSE mark_fields(with, use, in_loop, Tail(fields))

\* Faulty variant: the search goes on once the use is found.
mark_list_all(nodes, use, in_loop, i) ==
    IF i = 0 THEN [node |-> nodes, found |-> FALSE]
    ELSE mark_list([nodes EXCEPT ![i] = mark(nodes[i], use, in_loop, FALSE).node],
                   use, in_loop, i - 1)

mark_list(nodes, use, in_loop, i) ==
    IF i = 0 THEN [node |-> nodes, found |-> FALSE]
    ELSE LET child == mark(nodes[i], use, in_loop, FALSE)
         IN  IF child.found THEN [node |-> [nodes EXCEPT ![i] = child.node], found |-> TRUE]
             ELSE mark_list(nodes, use, in_loop, i - 1)

RECURSIVE mark_versions(_, _, _), mark_names(_, _, _)
mark_versions(node, use, count) ==
    IF use.version = count THEN node
    ELSE mark_versions(mark(node, use, FALSE, FALSE).node,
                       [use EXCEPT !.version = @ + 1], count)

mark_names(node, table, i) ==
    IF i > Len(table.names) THEN node
    ELSE LET x == table.names[i]
         IN  mark_names(mark_versions(node, [name |-> x, version |-> 0], table.versions[x]),
                        table, i + 1)

ssa_analyze_liveness(ssa) == mark_names(ssa.node, ssa.table, 1)

----------------------------------------------------------------------------
(***************************************************************************)
(* The three graphs src/graph/graph.c draws of a program: what its         *)
(* variables depend on, who calls whom, and the control flow; and the      *)
(* analyses it makes of them.                                              *)
(*                                                                         *)
(* A graph is its array of nodes, unique by name, and its array of edges   *)
(* between names; the edges a node keeps itself are those that leave it.   *)
(* The capacities and the allocations that fail are left out.              *)
(***************************************************************************)

graph_create == [nodes |-> << >>, edges |-> << >>]

NodeNames(graph) == {graph.nodes[i].name : i \in DOMAIN graph.nodes}
NodeOf(graph, name) == graph.nodes[CHOOSE i \in DOMAIN graph.nodes : graph.nodes[i].name = name]

\* A node that exists stays as it is.
graph_add_node(graph, name, type, data) ==
    IF name \in NodeNames(graph) THEN graph
    ELSE [graph EXCEPT !.nodes =
            Append(@, [name |-> name, type |-> type, data |-> data, visited |-> FALSE])]

NULL == ""      \* the name of no node

graph_add_edge(graph, from, to, label) ==
    IF NULL \in {from, to} THEN graph
    ELSE [graph EXCEPT !.edges = Append(@, [from |-> from, to |-> to, label |-> label])]

----------------------------------------------------------------------------
(* Dependencies                                                            *)

\* The variables and functions an expression mentions, as uses of a node.
RECURSIVE collect_identifiers(_, _, _)
collect_identifiers(graph, expr, dependent) ==
    LET Collect(g, e) == collect_identifiers(g, e, dependent)
        Mentioned(type, data, label) ==
            graph_add_edge(graph_add_node(graph, expr.name, type, data), dependent, expr.name, label)
    IN  CASE expr.type = "identifier" -> Mentioned("variable", expr, "uses")
          [] expr.type = "binary" -> Collect(Collect(graph, expr.left), expr.right)
          [] expr.type = "unary" -> Collect(graph, expr.operand)
          [] expr.type = "call" ->
               FoldLeft(Collect, Mentioned("function", None, "calls"), expr.arguments)
          [] OTHER -> graph

\* An assignment marks its variable as changed.
Mutated(graph, name) ==
    [graph EXCEPT !.nodes =
        [i \in DOMAIN @ |-> IF @[i].name = name THEN [@[i] EXCEPT !.visited = TRUE] ELSE @[i]]]

\* The mark of process_node's assignment.
MarkMutation(graph, name) == Mutated(graph, name)

RECURSIVE process_node(_, _)

ProcessFor(graph, node) ==
    process_node(process_node(
        collect_identifiers(process_node(graph, node.init), node.condition, NULL),
        node.body), node.increment)

process_node(graph, node) ==
    CASE node.type = "let" ->
           collect_identifiers(graph_add_node(graph, node.name, "variable", node),
                               node.value, node.name)
      [] node.type = "assign" ->
           collect_identifiers(
               MarkMutation(graph_add_node(graph, node.name, "variable", node), node.name),
               node.value, node.name)
      [] node.type = "function" ->
           LET Parameter(g, p) ==
                   graph_add_edge(graph_add_node(g, p, "variable", None), node.name, p, "uses")
           IN  process_node(FoldLeft(Parameter, graph_add_node(graph, node.name, "function", node),
                                     node.parameters),
                            node.body)
      [] node.type = "call" ->
           LET Argument(g, e) == collect_identifiers(g, e, NULL)
           IN  FoldLeft(Argument, graph_add_node(graph, node.name, "function", None), node.arguments)
      [] node.type = "block" -> FoldLeft(process_node, graph, node.statements)
      [] node.type = "if" ->
           process_node(process_node(collect_identifiers(graph, node.condition, NULL),
                                     node.then_branch),
                        node.else_branch)
      [] node.type = "while" ->
           process_node(collect_identifiers(graph, node.condition, NULL), node.body)
      [] node.type = "for" -> ProcessFor(graph, node)
      [] node.type = "return" -> collect_identifiers(graph, node.value, NULL)
      [] OTHER -> graph

graph_build_dependencies(ast) == process_node(graph_create, ast)

----------------------------------------------------------------------------
(* Calls.  Conditions, returns, printed values and assigned ones are not   *)
(* looked into.                                                            *)

RECURSIVE process_calls(_, _, _)

BranchCalls(graph, node, caller) ==
    process_calls(process_calls(graph, node.then_branch, caller), node.else_branch, caller)

process_calls(graph, node, caller) ==
    LET Inside(g, n) == process_calls(g, n, caller)
    IN  CASE node.type = "function" ->
               process_calls(graph_add_node(graph, node.name, "function", node), node.body, node.name)
          [] node.type = "call" ->
               LET called == graph_add_node(graph, node.name, "function", None)
               IN  FoldLeft(Inside, graph_add_edge(called, caller, node.name, "calls"),
                            node.arguments)
          [] node.type = "block" -> FoldLeft(Inside, graph, node.statements)
          [] node.type = "if" -> BranchCalls(graph, node, caller)
          [] node.type = "let" -> Inside(graph, node.value)
          [] node.type \in {"while", "for"} -> Inside(graph, node.body)
          [] node.type = "binary" -> Inside(Inside(graph, node.left), node.right)
          [] OTHER -> graph

graph_build_call_graph(ast) ==
    process_calls(graph_add_node(graph_create, "global", "function", None), ast, "global")

----------------------------------------------------------------------------
(* Control flow.  A step of process_cfg returns the graph, the counter of  *)
(* the names, and the nodes its statement is entered and left by.          *)

Steps(graph, counter, entry, exit) ==
    [graph |-> graph, counter |-> counter, entry |-> entry, exit |-> exit]

PassedBy(graph, counter, prev) == Steps(graph, counter, prev, prev)

Link(step, from, to, label) == [step EXCEPT !.graph = graph_add_edge(@, from, to, label)]

Numbered(kind, counter) == kind \o "_" \o ToString(counter)

\* A new node behind prev.
Fresh(step, kind, data, prev) ==
    LET name == Numbered(kind, step.counter)
    IN  Steps(graph_add_edge(graph_add_node(step.graph, name, "statement", data), prev, name, "next"),
              step.counter + 1, name, name)

RECURSIVE process_cfg(_, _, _)

\* The else edge when there is a branch, and past it when there is none.
CfgIf(step, node, prev) ==
    LET condition == Fresh(step, "if_cond", node, prev)
        then == process_cfg(condition, node.then_branch, condition.exit)
        taken == Link(then, condition.exit, then.entry, "true")
        else == process_cfg(taken, node.else_branch, condition.exit)
        refused == IF node.else_branch = None THEN taken
                   ELSE Link(else, condition.exit, else.entry, "false")
        merge == Fresh(refused, "merge", None, NULL)
        joined == Link(merge, then.exit, merge.exit, "next")
    IN  [(IF node.else_branch = None THEN Link(joined, condition.exit, merge.exit, "false")
          ELSE Link(joined, else.exit, merge.exit, "next")) EXCEPT !.entry = condition.exit]

\* Faulty variant: the end of the body does not go back to the condition.
CfgWhileOnce(step, node, prev) ==
    LET entry == Fresh(step, "while_entry", None, prev)
        condition == Fresh(entry, "while_cond", node, entry.exit)
        body == process_cfg(condition, node.body, condition.exit)
        loop == Link(body, condition.exit, body.entry, "true")
    IN  [Fresh(loop, "while_exit", None, NULL) EXCEPT
           !.graph = graph_add_edge(@, condition.exit, Numbered("while_exit", loop.counter), "false"),
           !.entry = entry.exit]

CfgWhile(step, node, prev) ==
    LET entry == Fresh(step, "while_entry", None, prev)
        condition == Fresh(entry, "while_cond", node, entry.exit)
        body == process_cfg(condition, node.body, condition.exit)
        loop == Link(Link(body, condition.exit, body.entry, "true"),
                     body.exit, condition.exit, "loop")
    IN  [Fresh(loop, "while_exit", None, NULL) EXCEPT
           !.graph = graph_add_edge(@, condition.exit, Numbered("while_exit", loop.counter), "false"),
           !.entry = entry.exit]

CfgFor(step, node, prev) ==
    LET init == process_cfg(step, node.init, prev)
        begun == Link(init, prev, init.entry, "next")
        entry == Fresh(begun, "for_entry", None, init.exit)
        condition == Fresh(entry, "for_cond", node, entry.exit)
        body == process_cfg(condition, node.body, condition.exit)
        run == Link(body, condition.exit, body.entry, "true")
        increment == process_cfg(run, node.increment, run.exit)
        loop == Link(Link(increment, run.exit, increment.entry, "next"),
                     increment.exit, condition.exit, "loop")
    IN  [Fresh(loop, "for_exit", None, NULL) EXCEPT
           !.graph = graph_add_edge(@, condition.exit, Numbered("for_exit", loop.counter), "false"),
           !.entry = IF init.entry = NULL THEN entry.exit ELSE init.entry]

\* The entry of a block is the one of its first statement; a statement without
\* a node is passed by.
CfgBlock(step, node, prev) ==
    LET Statement(s, n) ==
            LET next == process_cfg(s, n, s.exit)
            IN  IF next.entry = NULL THEN [next EXCEPT !.exit = s.exit] ELSE next
        all == FoldLeft(Statement, [step EXCEPT !.exit = prev], node.statements)
    IN  [all EXCEPT !.entry = IF node.statements = << >> THEN NULL
                              ELSE process_cfg(step, node.statements[1], prev).entry]

\* The body of a function comes right behind its declaration.
CfgFunction(step, node, prev) ==
    LET name == "func_" \o node.name
        declared == [step EXCEPT !.graph =
            graph_add_edge(graph_add_node(@, name, "function", node), prev, name, "next")]
        body == process_cfg(declared, node.body, name)
    IN  [Link(body, name, body.entry, "body") EXCEPT !.entry = name]

process_cfg(step, node, prev) ==
    CASE node.type \in {"let", "print", "return"} -> Fresh(step, node.type, node, prev)
      [] node.type = "if" -> CfgIf(step, node, prev)
      [] node.type = "while" -> CfgWhile(step, node, prev)
      [] node.type = "for" -> CfgFor(step, node, prev)
      [] node.type = "block" -> CfgBlock(step, node, prev)
      [] node.type = "function" -> CfgFunction(step, node, prev)
      [] OTHER -> PassedBy(step.graph, step.counter, prev)

graph_build_control_flow(ast) == process_cfg(Steps(graph_create, 0, NULL, NULL), ast, NULL).graph

----------------------------------------------------------------------------
(* Analyses                                                                *)

EdgesFrom(graph, name) == {i \in DOMAIN graph.edges : graph.edges[i].from = name}
EdgesTo(graph, name) == {i \in DOMAIN graph.edges : graph.edges[i].to = name}
out_degree(graph, name) == Cardinality(EdgesFrom(graph, name))
in_degree(graph, name) == Cardinality(EdgesTo(graph, name))
NodesOfType(graph, type) == {n \in ToSet(graph.nodes) : n.type = type}

\* A variable is taken to be unused when it uses nothing itself and no
\* function mentions it; a function, when no edge goes to it.
DeadVariables(dependencies) ==
    {n.name : n \in {n \in NodesOfType(dependencies, "variable") :
        /\ out_degree(dependencies, n.name) = 0
        /\ \A i \in EdgesTo(dependencies, n.name) :
              NodeOf(dependencies, dependencies.edges[i].from).type # "function"}}

DeadFunctions(calls) ==
    {n.name : n \in {n \in NodesOfType(calls, "function") :
        in_degree(calls, n.name) = 0 /\ n.name \notin {"global", "main"}}}

\* A variable is constant when its first mention declares it with a number or
\* a string and nothing assigns it.
Constants(dependencies) ==
    {n \in NodesOfType(dependencies, "variable") :
        /\ ~n.visited
        /\ n.data.type = "let"
        /\ n.data.value.type = "literal"
        /\ IsNumber(n.data.value.value) \/ IsString(n.data.value.value)}

=============================================================================
