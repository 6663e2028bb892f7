------------------------------ MODULE Adaptive ------------------------------
(***************************************************************************)
(* What is decided from the graphs of a program (graph/graph.c, after the  *)
(* graphs of Passes are drawn): the plan of optimizations, which is made   *)
(* of flags the analyses leave on the nodes, and the adaptive profile      *)
(* of what runs.  A call of an analysis is a step; the graphs stay as they *)
(* are but for those flags and the degrees, which are 0 until an analysis  *)
(* counts them.                                                            *)
(*                                                                         *)
(* A graph is its sequence of nodes, unique by name, and its sequence of   *)
(* edges [from, to, label] between the names, several of which may be      *)
(* alike or lead back to where they start.                                 *)
(***************************************************************************)
EXTENDS Integers, Sequences, FiniteSets, SequencesExt

CONSTANTS
    dep_graph,      \* its nodes: [name, type, literal, assigned], the number or text that
                    \*   is the first value of the variable, or NULL, and whether it is assigned to
    call_graph,     \* its nodes: [name, type]
    cfg,            \* its nodes: [name, type]
    NULL,
    Times,          \* what an execution may take, in milliseconds
    HOT_CALLS, HOT_BLOCKS, MAX_REORDERED,       \* 10, 5 and 32
    MaxCalls, MaxAnalyses       \* bounds

VARIABLES
    marks,          \* of each graph and each of its nodes: what the analyses left there
    plans,          \* the plans made: each a sequence of OptimizationDecision
    profile,        \* the AdaptiveProfile
    executed        \* history: what the executions of each name took

adaptiveVars == <<marks, plans, profile, executed>>

Graphs == [dep |-> dep_graph, call |-> call_graph, flow |-> cfg]

Names(graph, type) ==
    LET typed == SelectSeq(graph.nodes, LAMBDA node : node.type = type)
    IN  [k \in DOMAIN typed |-> typed[k].name]
Functions == Names(call_graph, "function")
Blocks    == Names(cfg, "statement")
AllNames  == ToSet(Functions) \cup ToSet(Blocks)

To(graph, name)   == {e \in DOMAIN graph.edges : graph.edges[e].to = name}
From(graph, name) == {e \in DOMAIN graph.edges : graph.edges[e].from = name}
TypeIn(graph, name) == (CHOOSE k \in ToSet(graph.nodes) : k.name = name).type

----------------------------------------------------------------------------
(* The analyses.                                                           *)

\* visited comes from the drawing of the graph: an assignment sets it.
Init ==
    /\ marks = [g \in DOMAIN Graphs |-> [k \in DOMAIN Graphs[g].nodes |->
                  [in_degree |-> 0, out_degree |-> 0, used |-> TRUE, constant_value |-> NULL,
                   visited |-> g = "dep" /\ dep_graph.nodes[k].assigned,
                   can_parallelize |-> FALSE]]]
    /\ plans = << >>
    /\ profile = [metrics |-> << >>, hot |-> << >>, reordered |-> << >>,
                  parallelization_enabled |-> FALSE, optimization_level |-> 1]
    /\ executed = [name \in AllNames |-> << >>]

graph_calculate_metrics(m, g) ==
    [m EXCEPT ![g] = [k \in DOMAIN @ |->
        [@[k] EXCEPT !.in_degree = Cardinality(To(Graphs[g], Graphs[g].nodes[k].name)),
                     !.out_degree = Cardinality(From(Graphs[g], Graphs[g].nodes[k].name))]]]

\* A function has an edge to what is its parameter.
IsParameter(name) ==
    \E e \in To(dep_graph, name) : TypeIn(dep_graph, dep_graph.edges[e].from) = "function"

\* Variables that lead nowhere, and functions nobody calls.
graph_analyze_dead_code(m) ==
    LET counted == graph_calculate_metrics(graph_calculate_metrics(m, "dep"), "call")
        Dead(g, k) ==
            LET node == Graphs[g].nodes[k]
            IN  IF g = "dep"
                THEN /\ node.type = "variable" /\ counted.dep[k].out_degree = 0
                     /\ ~IsParameter(node.name)
                ELSE /\ node.type = "function" /\ counted.call[k].in_degree = 0
                     /\ node.name \notin {"global", "main"}
    IN  [g \in DOMAIN m |-> IF g = "flow" THEN counted[g]
            ELSE [k \in DOMAIN m[g] |-> [counted[g][k] EXCEPT !.used = @ /\ ~Dead(g, k)]]]

\* The marks of a mutation are used up.
graph_analyze_constants(m) ==
    LET counted == graph_calculate_metrics(m, "dep")
    IN  [counted EXCEPT !.dep = [k \in DOMAIN @ |->
            [@[k] EXCEPT !.constant_value =
                            IF dep_graph.nodes[k].type = "variable" /\ ~counted.dep[k].visited
                                 /\ dep_graph.nodes[k].literal # NULL
                            THEN dep_graph.nodes[k].literal ELSE @,
                         !.visited = FALSE]]]

\* Back and forth between two blocks; longer circles are not looked for.
Circular(block) ==
    \E e \in From(cfg, block), back \in To(cfg, block) : cfg.edges[back].from = cfg.edges[e].to

graph_analyze_parallelism(m) ==
    LET counted == graph_calculate_metrics(m, "flow")
        Alone(k) == /\ cfg.nodes[k].type = "statement"
                    /\ counted.flow[k].in_degree <= 1 /\ counted.flow[k].out_degree <= 1
                    /\ ~Circular(cfg.nodes[k].name)
    IN  [counted EXCEPT !.flow = [k \in DOMAIN @ |->
            [@[k] EXCEPT !.can_parallelize = @ \/ Alone(k)]]]

\* The loops are named and nothing more.
graph_analyze_critical_loops(m) == graph_calculate_metrics(m, "flow")

OptimizationDecision(condition, target, type, data, priority) ==
    IF condition
    THEN <<[target |-> target, type |-> type, data |-> data, priority |-> priority]>> ELSE << >>

\* Of the functions nobody calls nothing is decided.
Decisions(m) ==
    LET OfVariable(k) ==
            LET name == dep_graph.nodes[k].name
            IN  OptimizationDecision(~m.dep[k].used, name, "dead_code", NULL, 1)
                  \o OptimizationDecision(m.dep[k].constant_value # NULL, name, "constant_prop",
                                          m.dep[k].constant_value, 2)
        OfBlock(k) == OptimizationDecision(m.flow[k].can_parallelize, cfg.nodes[k].name,
                                           "parallelize", NULL, 3)
    IN  FlattenSeq([k \in DOMAIN m.dep |-> OfVariable(k)])
          \o FlattenSeq([k \in DOMAIN m.flow |-> OfBlock(k)])

graph_analyze_and_optimize ==
    /\ Len(plans) < MaxAnalyses
    /\ marks' = graph_analyze_critical_loops(graph_analyze_parallelism(
                   graph_analyze_constants(graph_analyze_dead_code(marks))))
    /\ plans' = Append(plans, Decisions(marks'))
    /\ UNCHANGED <<profile, executed>>

----------------------------------------------------------------------------
(* The profile.                                                            *)

Found(metrics, name) == SelectSeq(metrics, LAMBDA m : m.name = name)

\* The entry of a name is the first one; a new one has counted nothing.
adaptive_get_metrics(name) ==
    LET found == Found(profile.metrics, name)
    IN  IF found = << >>
        THEN [name |-> name, call_count |-> 0, total_time |-> 0, last_call_time |-> 0, is_hot |-> FALSE]
        ELSE found[1]

Recorded(m, time) == [m EXCEPT !.call_count = @ + 1, !.total_time = @ + time]
Heated(m, time) == [m EXCEPT !.last_call_time = time, !.is_hot = @ \/ m.call_count > HOT_CALLS]

Entered(name, m) ==
    LET metrics == IF Found(profile.metrics, name) # << >> THEN profile.metrics
                   ELSE Append(profile.metrics, m)
    IN  [k \in DOMAIN metrics |-> IF metrics[k].name = name THEN m ELSE metrics[k]]

Record(name, m, time) ==
    /\ FoldLeft(LAMBDA n, e : n + e.call_count, 0, profile.metrics) < MaxCalls
    /\ profile' = [profile EXCEPT !.metrics = Entered(name, m)]
    /\ executed' = [executed EXCEPT ![name] = Append(@, time)]
    /\ UNCHANGED <<marks, plans>>

adaptive_record_function_call(name, time) ==
    Record(name, Heated(Recorded(adaptive_get_metrics(name), time), time), time)

\* A block never becomes hot by being executed, and its last time is not kept.
adaptive_record_block_execution(name, time) ==
    Record(name, Recorded(adaptive_get_metrics(name), time), time)

\* Called often, or slow on average (more than a millisecond); and, as long as
\* nothing is known of it, called from many places, which the call graph tells
\* only once an analysis has counted its edges.
Hot(name) ==
    LET m == adaptive_get_metrics(name)
    IN  IF Found(profile.metrics, name) = << >>
        THEN \E k \in DOMAIN call_graph.nodes :
                call_graph.nodes[k].name = name /\ marks.call[k].in_degree > 2
        ELSE m.call_count > HOT_CALLS \/ m.total_time > m.call_count \/ m.is_hot

adaptive_identify_hot_functions == SelectSeq(Functions, Hot)

adaptive_reorder_blocks ==
    LET often == SelectSeq(Blocks, LAMBDA b : adaptive_get_metrics(b).call_count > HOT_BLOCKS)
    IN  IF Len(often) <= MAX_REORDERED THEN often ELSE SubSeq(often, 1, MAX_REORDERED)

\* The load is in tenths.
adaptive_adjust_parallelization(p, load) ==
    [p EXCEPT !.parallelization_enabled = load < 8,
              !.optimization_level = IF load < 5 THEN 3 ELSE IF load < 8 THEN 2 ELSE 1]

\* The load is not measured: it is always 0.3.
adaptive_analyze_and_optimize ==
    /\ profile' = adaptive_adjust_parallelization(
           [profile EXCEPT !.hot = adaptive_identify_hot_functions,
                           !.reordered = adaptive_reorder_blocks], 3)
    /\ UNCHANGED <<marks, plans, executed>>

Next ==
    \/ graph_analyze_and_optimize
    \/ \E name \in ToSet(Functions), time \in Times : adaptive_record_function_call(name, time)
    \/ \E name \in ToSet(Blocks), time \in Times : adaptive_record_block_execution(name, time)
    \/ adaptive_analyze_and_optimize

Spec == Init /\ [][Next]_adaptiveVars

----------------------------------------------------------------------------
TypeOK ==
    /\ \A g \in DOMAIN Graphs : DOMAIN marks[g] = DOMAIN Graphs[g].nodes
    /\ ToSet(profile.hot) \subseteq ToSet(Functions) /\ ToSet(profile.reordered) \subseteq ToSet(Blocks)
    /\ Len(profile.reordered) <= MAX_REORDERED /\ profile.optimization_level \in 1 .. 3

\* The first plan for a program calls no variable constant that is assigned to.
\* (A later plan for the same graph may: the marks are used up by then.)  And
\* no plan, the first or a later one, drops a variable that is used.
FirstPlanIsSafe ==
    LET Planned(n, type) ==
            {k \in ToSet(dep_graph.nodes) :
                \E d \in ToSet(plans[n]) : d.type = type /\ d.target = k.name}
    IN  /\ plans # << >> => \A k \in Planned(1, "constant_prop") : ~k.assigned /\ k.literal # NULL
        /\ \A n \in DOMAIN plans : \A k \in Planned(n, "dead_code") :
              From(dep_graph, k.name) = {} /\ k.type = "variable"

\* Whatever was recorded of a name in between, all of it is in one place; a name
\* is hot of itself only after enough calls; and what the profile calls hot, it
\* found hot from calls, or from a call graph that had been analysed.
ProfileIsComplete ==
    \A name \in AllNames :
        LET found == Found(profile.metrics, name)
            took  == executed[name]
        IN  /\ Len(found) <= 1
            /\ found = << >> => took = << >>
            /\ found # << >> =>
                 /\ found[1].call_count = Len(took)
                 /\ found[1].total_time = FoldLeft(LAMBDA x, y : x + y, 0, took)
                 /\ found[1].is_hot <=> name \in ToSet(Functions) /\ Len(took) > HOT_CALLS
            /\ name \in ToSet(profile.hot) => plans # << >> \/ took # << >>
=============================================================================
