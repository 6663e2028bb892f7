---------------------------- MODULE SyntaxTrees -----------------------------
(***************************************************************************)
(* Who owns the memory of a syntax tree (core/ast/ast.c): nodes, the       *)
(* strings the parser made for them, type infos and annotations are cells  *)
(* of the heap.  The parser (core/parser/parser.c) puts nodes together,    *)
(* the type checker adds inferred types, main.c marks trees read-only and  *)
(* destroys them.  Allocation does not fail.                               *)
(***************************************************************************)
EXTENDS Integers, Sequences, FiniteSets, TLC

CONSTANTS
    Types,          \* of the nodes that are made
    MaxNodes, MaxCells

VARIABLES
    heap,           \* the cells in use
    next_cell,
    roots,          \* the nodes in the hands of the parser
    lost,           \* cells nobody has a pointer to any more
    parsed          \* the parser is through: what follows is main.c's

treeVars == <<heap, next_cell, roots, lost, parsed>>

Fields ==
    [let |-> <<"name", "value", "type_info">>, binary |-> <<"left", "right">>,
     unary |-> <<"operand">>, number |-> << >>, string |-> <<"text">>, identifier |-> <<"name">>,
     print |-> <<"expression">>, if |-> <<"condition", "then_branch", "else_branch">>,
     while |-> <<"condition", "body">>, for |-> <<"init", "condition", "increment", "body">>,
     function |-> <<"name", "parameters", "body">>, call |-> <<"name", "arguments">>,
     return |-> <<"value">>, block |-> << >>, assign |-> <<"name", "value">>,
     import |-> <<"module_name", "symbols", "aliases">>]

Plain == {"name", "text", "type_info", "parameters", "module_name", "symbols", "aliases"}
IsPlain(f)     == f \in Plain
Allocated(t)   == SelectSeq(Fields[t], IsPlain)
Subtrees(t)    == {Fields[t][k] : k \in DOMAIN Fields[t]} \ Plain

\* What ast_destroy_node frees of a node besides the node, and what of it
\* ast_mark_readonly marks.
Destroyed(t) ==
    {Fields[t][k] : k \in DOMAIN Fields[t]} \cup {"inferred_type", "annotations"}
      \cup IF t = "block" THEN {"statements"} ELSE {}
Marked(t) == Subtrees(t) \cup IF t = "block" THEN {"statements"} ELSE {}

Node(t, parts) == [type |-> t, parts |-> parts, is_readonly |-> FALSE]
Cell(kind)     == Node(kind, [f \in {"dependencies"} |-> << >>])
Nodes          == {c \in DOMAIN heap : heap[c].type \in DOMAIN Fields}

-----------------------------------------------------------------------------
(* The constructors.                                                       *)

Copies(t)    == t \in {"assign", "import"}      \* string_copy of what they are given
Annotated(t) == t \in {"let", "print"}
Optional     == {"else_branch", "init", "condition", "increment", "value", "arguments"}
Position(t, f) == CHOOSE k \in DOMAIN Allocated(t) : Allocated(t)[k] = f

\* The parser makes n annotations and the strings, takes subtrees it has parsed
\* and calls the constructor of t.  A constructor that copies its strings leaves
\* the parser's behind, and so does parse_statement with the annotations of all
\* but two kinds of statements.
Construct(t, n) ==
    LET a     == Len(Allocated(t))
        notes == next_cell .. next_cell + n - 1
        base  == next_cell + n + IF Copies(t) THEN a ELSE 0     \* the strings of the node
        node  == base + a
        made  == next_cell .. node
    IN  /\ Cardinality(Nodes) < MaxNodes /\ node <= MaxCells
        /\ \E given \in [Subtrees(t) -> roots \cup {0}] :
              /\ \A f, g \in Subtrees(t) :
                    IF given[f] = 0 THEN f \in Optional ELSE given[f] = given[g] => f = g
              /\ LET Part(f) == IF f = "annotations" /\ Annotated(t)
                                  THEN [k \in 1 .. n |-> next_cell + k - 1]
                                ELSE IF f \in Plain THEN <<base + Position(t, f) - 1>>
                                ELSE IF f \in Subtrees(t) /\ given[f] # 0 THEN <<given[f]>>
                                ELSE << >>
                 IN  heap' = [c \in made |->
                                IF c = node THEN Node(t, [f \in Destroyed(t) |-> Part(f)])
                                ELSE Cell(IF c \in notes THEN "annotation" ELSE "chars")] @@ heap
              /\ roots' = (roots \ {given[f] : f \in Subtrees(t)}) \cup {node}
        /\ lost' = lost \cup next_cell + n .. base - 1 \cup IF Annotated(t) THEN {} ELSE notes
        /\ next_cell' = node + 1
        /\ UNCHANGED parsed

ast_block_add_statement(b, s) ==
    /\ {b, s} \subseteq roots /\ b # s /\ heap[b].type = "block"
    /\ heap' = [heap EXCEPT ![b].parts["statements"] = Append(@, s)]
    /\ roots' = roots \ {s}
    /\ UNCHANGED <<next_cell, lost, parsed>>

\* @depends(d, ...): a dependency that is there already is not added again.
annotation_add_dependency(c, again) ==
    /\ heap[c].type = "annotation" /\ next_cell <= MaxCells
    /\ IF again /\ heap[c].parts["dependencies"] # << >> THEN UNCHANGED <<heap, next_cell>>
       ELSE /\ heap' = [(next_cell :> Cell("chars")) @@ heap
                          EXCEPT ![c].parts["dependencies"] = Append(@, next_cell)]
            /\ next_cell' = next_cell + 1
    /\ UNCHANGED <<roots, lost, parsed>>

Infer(c) ==         \* check_node visits a node once
    /\ c \in Nodes /\ heap[c].parts["inferred_type"] = << >> /\ next_cell <= MaxCells
    /\ heap' = [(next_cell :> Cell("typeinfo")) @@ heap
                  EXCEPT ![c].parts["inferred_type"] = <<next_cell>>]
    /\ next_cell' = next_cell + 1
    /\ UNCHANGED <<roots, lost, parsed>>

-----------------------------------------------------------------------------
RECURSIVE Marks(_), Frees(_)
ToSet(s) == {s[k] : k \in DOMAIN s}
Marks(c) ==
    IF heap[c].is_readonly THEN {}
    ELSE {c} \cup UNION {Marks(d) : d \in UNION {ToSet(heap[c].parts[f]) : f \in Marked(heap[c].type)}}

ast_mark_readonly(c) ==
    /\ heap' = [d \in DOMAIN heap |->
                  IF d \in Marks(c) THEN [heap[d] EXCEPT !.is_readonly = TRUE] ELSE heap[d]]
    /\ UNCHANGED <<next_cell, roots, lost, parsed>>

Freed(c) == IF c \in Nodes THEN Destroyed(heap[c].type) ELSE DOMAIN heap[c].parts
Frees(c) == {c} \cup UNION {Frees(d) : d \in UNION {ToSet(heap[c].parts[f]) : f \in Freed(c)}}

ast_destroy_node(c) ==
    /\ heap' = [d \in DOMAIN heap \ Frees(c) |-> heap[d]]
    /\ roots' = roots \ {c}
    /\ UNCHANGED <<next_cell, lost, parsed>>

Init ==
    /\ heap = << >> /\ next_cell = 1
    /\ roots = {} /\ lost = {} /\ parsed = FALSE

Parse ==
    /\ ~parsed
    /\ \/ \E t \in Types, n \in 0 .. 1 : Construct(t, n)
       \/ \E b, s \in roots : ast_block_add_statement(b, s)
       \/ \E c \in DOMAIN heap, again \in BOOLEAN : annotation_add_dependency(c, again)

EndParsing == ~parsed /\ parsed' = TRUE /\ UNCHANGED <<heap, next_cell, roots, lost>>

Use ==
    /\ parsed
    /\ \/ \E c \in Nodes : Infer(c)
       \/ \E c \in roots : ast_mark_readonly(c) \/ ast_destroy_node(c)

Next == Parse \/ EndParsing \/ Use

Spec == Init /\ [][Next]_treeVars

-----------------------------------------------------------------------------
TypeOK ==
    /\ DOMAIN heap \subseteq 1 .. MaxCells /\ next_cell \in 1 .. MaxCells + 1
    /\ roots \subseteq Nodes /\ lost \subseteq DOMAIN heap /\ parsed \in BOOLEAN

Owned(c) == UNION {ToSet(heap[c].parts[f]) : f \in DOMAIN heap[c].parts}

\* A cell is freed with the node that owns it and not before: what is owned is
\* there, has one owner, and all there is is owned, in the hands of the parser,
\* or lost for good.
CellsHaveOneOwner ==
    /\ UNION {Owned(c) : c \in DOMAIN heap} \cup roots \cup lost = DOMAIN heap
    /\ \A c, d \in DOMAIN heap : Owned(c) \cap Owned(d) # {} => c = d
    /\ \A c \in DOMAIN heap : Owned(c) \cap (roots \cup lost) = {}

\* A tree that was marked read-only is so down to its leaves.
ReadOnlyIsDeep ==
    \A c \in Nodes : heap[c].is_readonly =>
        \A d \in Owned(c) \cap Nodes : heap[d].is_readonly

=============================================================================
