---------------------------- MODULE UnifiedGraph ----------------------------
(***************************************************************************)
(* The unified graph (graph/unified_graph.c) with the metrics of its nodes *)
(* and the versions kept of them, and the intents declared for its nodes   *)
(* (core/scheduling/intent_based.c).                                       *)
(*                                                                         *)
(* Of the metrics how often a node was executed is kept, and the memory it *)
(* uses, in units: times and network are recorded in the same way.         *)
(***************************************************************************)
EXTENDS Integers, Sequences, SequencesExt, FiniteSets

CONSTANTS
    SourceNames,        \* of the nodes of the graphs it is built from, in their order
    AddedNames,         \* of nodes the program adds
    Addresses,          \* bound: nodes there may be at a time
    IntentTypes,
    HotExecutions,      \* executions after which a node is not yet hot: 100
    SimdTypes,          \* intents that ask for SIMD: fast, compute intensive, high throughput
    SimdExecutions,     \* executions after which a hot node may be rewritten: 1000
    HasSimd,            \* whether the processor has it
    MaxExecutions,      \* bound: executions of one node
    MaxMemory,          \* bound: units a node uses at a time
    MaxEdges,           \* bound: pairs of nodes with an edge
    MaxRewrites,        \* bound: rewrites counted
    MaxVersions,        \* bound: versions created
    MaxIntents          \* bound: intents declared at a time

VARIABLES
    nodes,          \* [address, name] and the metrics
    edges,          \* pairs of addresses, those from and to which one or more edges go
    versions,       \* from version ids to [prev, next, metrics_snapshot]
    version_history,    \* the first of the list
    current_version,
    garbled,        \* history: metrics were read past the end of a snapshot
    intents,        \* [target_node, type]
    declared,       \* history: the intent last declared for the node at an address
    simd_rewrites

vars == <<nodes, edges, versions, version_history, current_version, garbled, intents, declared,
          simd_rewrites>>
history == <<versions, version_history, current_version, garbled>>
scheduling == <<intents, declared, simd_rewrites>>

UnifiedNode ==
    [address : Addresses, name : ToSet(SourceNames) \cup AddedNames,
     execution_count : 0 .. MaxExecutions, is_hot : BOOLEAN,
     memory_used : 0 .. MaxMemory, memory_peak : 0 .. MaxMemory]
NodeMetrics == [execution_count : 0 .. MaxExecutions, is_hot : BOOLEAN,
                memory_used : 0 .. MaxMemory, memory_peak : 0 .. MaxMemory]
GraphVersion ==
    [prev : 0 .. MaxVersions, next : 0 .. MaxVersions, metrics_snapshot : Seq(NodeMetrics)]
IntentDeclaration == [target_node : Addresses, type : IntentTypes]

none == 0   \* NULL, of a version or an intent
VersionIds == 1 .. MaxVersions

no_metrics == [execution_count |-> 0, is_hot |-> FALSE, memory_used |-> 0, memory_peak |-> 0]

\* calloc: nothing was executed.
NewNode(a, name) == [address |-> a, name |-> name] @@ no_metrics

\* rebuild asks for the names of the source graphs in turn, and adds each once.
Built ==
    {[k \in DOMAIN SourceNames |-> NewNode(place[k], SourceNames[k])] :
        place \in {p \in [DOMAIN SourceNames -> Addresses] :
                      \A k, l \in DOMAIN SourceNames : k # l => p[k] # p[l]}}

\* Which addresses malloc gives first does not matter.
Init ==
    /\ nodes = CHOOSE built \in Built : TRUE
    /\ edges = {}
    /\ versions = [v \in {} |-> {}]
    /\ version_history = none /\ current_version = none
    /\ garbled = FALSE
    /\ intents = << >>
    /\ declared = [a \in {} |-> {}]
    /\ simd_rewrites = 0

----------------------------------------------------------------------------
(* Nodes                                                                   *)

Names == {nodes[k].name : k \in DOMAIN nodes}
Live == {nodes[k].address : k \in DOMAIN nodes}

\* A node of that name may be there: it is then what is returned.
unified_graph_add_node(name) ==
    /\ name \notin Names
    /\ \E a \in Addresses \ Live :
          nodes' = Append(nodes, NewNode(a, name))
    /\ UNCHANGED <<edges, history, scheduling>>

\* The edges are kept for export and display.
unified_graph_add_dependency(from, to) ==
    /\ Cardinality(edges \cup {<<from, to>>}) <= MaxEdges
    /\ edges' = edges \cup {<<from, to>>}
    /\ UNCHANGED <<nodes, history, scheduling>>

\* Also called by hotreload_rebuild_graph.  Nodes the program added are gone,
\* and the memory of all may be used again; intents still point to it.
unified_graph_rebuild ==
    /\ nodes' \in Built
    /\ edges' = {}
    /\ UNCHANGED <<history, scheduling>>

unified_node_end_execution(k) ==
    LET count == nodes[k].execution_count + 1
    IN  /\ count <= MaxExecutions
        /\ nodes' = [nodes EXCEPT ![k].execution_count = count,
                                  ![k].is_hot = @ \/ count > HotExecutions]
        /\ UNCHANGED <<edges, history, scheduling>>

\* More may be given back than the node is known to use: what it uses stays then.
unified_node_record_memory(k, bytes, is_allocation) ==
    LET used == nodes[k].memory_used
    IN  /\ IF is_allocation
           THEN /\ used + bytes <= MaxMemory
                /\ nodes' = [nodes EXCEPT ![k].memory_used = used + bytes,
                                          ![k].memory_peak = IF used + bytes > @ THEN used + bytes
                                                             ELSE @]
           ELSE nodes' = [nodes EXCEPT ![k].memory_used = IF used >= bytes THEN used - bytes ELSE @]
        /\ UNCHANGED <<edges, history, scheduling>>

unified_node_reset_metrics(k) ==
    /\ nodes' = [nodes EXCEPT ![k] = NewNode(@.address, @.name)]
    /\ UNCHANGED <<edges, history, scheduling>>

----------------------------------------------------------------------------
(* Versions                                                                *)

Metrics(node) == [field \in DOMAIN no_metrics |-> node[field]]

NewVersion ==
    [prev |-> current_version, next |-> none,
     metrics_snapshot |-> [k \in DOMAIN nodes |-> Metrics(nodes[k])]]

\* After the current version, which need not be the last: the versions that
\* came after it are then out of the list.
unified_graph_create_version ==
    LET id == Cardinality(DOMAIN versions) + 1
    IN  /\ id <= MaxVersions
        /\ versions' = [v \in DOMAIN versions \cup {id} |->
                           IF v = id THEN NewVersion
                           ELSE IF v = current_version THEN [versions[v] EXCEPT !.next = id]
                           ELSE versions[v]]
        /\ version_history' = IF version_history = none THEN id ELSE version_history
        /\ current_version' = id
        /\ UNCHANGED <<nodes, edges, garbled, scheduling>>

\* The versions that are found from the first one.
Listed ==
    LET from[n \in 0 .. MaxVersions] ==
            IF n = 0 THEN {version_history} \ {none}
            ELSE from[n - 1] \cup ({versions[v].next : v \in from[n - 1]} \ {none})
    IN  from[MaxVersions]

\* Faulty variant: the mark of a hot node stays.
RestoreCounts(id) ==
    LET snapshot == versions[id].metrics_snapshot
    IN  /\ id \in Listed
        /\ IF Len(nodes) > Len(snapshot) THEN garbled' = TRUE /\ UNCHANGED nodes
           ELSE /\ nodes' = [k \in DOMAIN nodes |->
                       [nodes[k] EXCEPT !.execution_count = snapshot[k].execution_count]]
                /\ UNCHANGED garbled
        /\ current_version' = id
        /\ UNCHANGED <<edges, versions, version_history, scheduling>>

\* Every node of now is given what the snapshot has at its place, and what is
\* in memory after it when there are more nodes now.
unified_graph_restore_version(id) ==
    LET snapshot == versions[id].metrics_snapshot
    IN  /\ id \in Listed
        /\ IF Len(nodes) > Len(snapshot) THEN garbled' = TRUE /\ UNCHANGED nodes
           ELSE /\ nodes' = [k \in DOMAIN nodes |-> snapshot[k] @@ nodes[k]]
                /\ UNCHANGED garbled
        /\ current_version' = id
        /\ UNCHANGED <<edges, versions, version_history, scheduling>>

----------------------------------------------------------------------------
(* Intents                                                                 *)

IntentOf(a) == SelectInSeq(intents, LAMBDA d : d.target_node = a)

\* intent_scheduler_get_intent
Intent(a) == IF IntentOf(a) = 0 THEN none ELSE intents[IntentOf(a)].type

intent_scheduler_declare(a, type) ==
    /\ a \in Live
    /\ IF IntentOf(a) # 0
       THEN intents' = [intents EXCEPT ![IntentOf(a)].type = type]
       ELSE /\ Len(intents) < MaxIntents
            /\ intents' = Append(intents, [target_node |-> a, type |-> type])
    /\ declared' = (a :> type) @@ declared
    /\ UNCHANGED <<nodes, edges, history, simd_rewrites>>

\* The last one takes the place of the one removed.
intent_scheduler_remove(a) ==
    /\ a \in Live /\ IntentOf(a) # 0
    /\ intents' = SubSeq([intents EXCEPT ![IntentOf(a)] = Last(intents)], 1, Len(intents) - 1)
    /\ declared' = [b \in DOMAIN declared \ {a} |-> declared[b]]
    /\ UNCHANGED <<nodes, edges, history, simd_rewrites>>

\* intent_scheduler_can_use_simd.  How long its executions took is not kept:
\* they may have been long or not.
AsksForSimd(node) ==
    IntentOf(node.address) # 0 /\ intents[IntentOf(node.address)].type \in SimdTypes
MayUseSimd(node) ==
    HasSimd /\ (AsksForSimd(node) \/ (node.is_hot /\ node.execution_count > SimdExecutions))

\* The bytecode stays what it is: the rewrite is counted and announced.
intent_scheduler_rewrite_simd(k) ==
    /\ MayUseSimd(nodes[k]) /\ simd_rewrites < MaxRewrites
    /\ simd_rewrites' = simd_rewrites + 1
    /\ UNCHANGED <<nodes, edges, history, intents, declared>>

Next ==
    \/ \E name \in ToSet(SourceNames) \cup AddedNames : unified_graph_add_node(name)
    \/ unified_graph_rebuild
    \/ \E k, l \in DOMAIN nodes :
          unified_graph_add_dependency(nodes[k].address, nodes[l].address)
    \/ \E k \in DOMAIN nodes :
          \/ unified_node_end_execution(k)
          \/ unified_node_reset_metrics(k)
          \/ \E bytes \in 1 .. MaxMemory, is_allocation \in BOOLEAN :
                unified_node_record_memory(k, bytes, is_allocation)
          \/ intent_scheduler_rewrite_simd(k)
    \/ unified_graph_create_version
    \/ \E id \in DOMAIN versions : unified_graph_restore_version(id)
    \/ \E a \in Addresses :
          \/ \E type \in IntentTypes : intent_scheduler_declare(a, type)
          \/ intent_scheduler_remove(a)

Spec == Init /\ [][Next]_vars

----------------------------------------------------------------------------
(* Properties                                                              *)

\* Every variable holds a value of its C type, within the bounds; names are
\* not twice in the graph.
TypeOK ==
    /\ nodes \in Seq(UnifiedNode)
    /\ Cardinality(Names) = Len(nodes) /\ Cardinality(Live) = Len(nodes)
    /\ DOMAIN versions \subseteq VersionIds
    /\ \A v \in DOMAIN versions : versions[v] \in GraphVersion
    /\ version_history \in VersionIds \cup {none} /\ current_version \in VersionIds \cup {none}
    /\ intents \in Seq(IntentDeclaration)
    /\ edges \subseteq Addresses \X Addresses /\ simd_rewrites \in 0 .. MaxRewrites
    /\ DOMAIN declared \subseteq Addresses /\ garbled \in BOOLEAN

\* What is found from the first version is a list that ends, in the order in
\* which they were created, and that both ways agree about; the current one is
\* in it, however often one went back and on from there: versions out of the
\* list never get back into it (unified_graph.c:352-361, 378).
HistoryIsSound ==
    /\ versions # [v \in {} |-> {}] => current_version \in Listed
    /\ \A v \in Listed : LET next == versions[v].next
                         IN  next # none => next > v /\ versions[next].prev = v
    /\ \A v \in Listed : version_history <= v

\* A node is hot exactly when it was executed often, also after versions were
\* gone back to, metrics reset and the graph rebuilt: nothing takes the mark
\* back but what takes the count back (unified_graph.c:282-286, 366-386).
HotIsExecutedOften ==
    \A k \in DOMAIN nodes : nodes[k].is_hot <=> nodes[k].execution_count > HotExecutions

\* The peak is at least what a node uses, also after its metrics were reset or
\* versions gone back to while it used memory (unified_graph.c:290-306).
PeakIsHighest == \A k \in DOMAIN nodes : nodes[k].memory_used <= nodes[k].memory_peak

\* Edges go between nodes that are there, whose names export_dot reads: none
\* outlives a rebuild, which frees the nodes (unified_graph.c:118-132, 412-450).
EdgesAreLive == \A edge \in edges : edge[1] \in Live /\ edge[2] \in Live

\* A node has the intent last declared for it until it is removed, whatever
\* places declarations have moved to (intent_based.c:212-280).
IntentIsTheLastDeclared ==
    \A a \in Addresses : Intent(a) = IF a \in DOMAIN declared THEN declared[a] ELSE none

=============================================================================
