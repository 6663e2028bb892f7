----------------------------- MODULE MCLibrary ------------------------------
(***************************************************************************)
(* The components of the runtime that share no state with one another,     *)
(* each on small instances.  A behaviour is one of one component, which    *)
(* its initial state names.  Each component has the same variables for its *)
(* state, so that the states of this module are those of the components    *)
(* added up, not multiplied.                                               *)
(***************************************************************************)
EXTENDS Integers, Sequences, TLC

CONSTANTS
    key1, key2, key3,   \* paths of module sources
    Blank               \* no value

VARIABLE component      \* the one at work

VARIABLES               \* those of the component at work, in the order of its module
    v1, v2, v3, v4, v5, v6, v7, v8, v9, v10, v11, v12, v13, v14

Let(v, value)      == [kind |-> "variable", name |-> v, value |-> value]
Function(f)        == [kind |-> "function", name |-> f]
From(m, names)      == [kind |-> "import", name |-> m, symbols |-> names]
ModuleSources ==
    {<<Let("v", "n1"), Let("f", "string"), Function("f"), Let("v", "n2")>>,
     <<From("m", <<"v">>), Function("w"), From("m", <<"f">>), Let("v", "n1")>>}

Up(n, C) == UNION {[1 .. m -> C] : m \in 0 .. n}
SourceTexts ==
    Up(3, {"o", "n", "1", ".", "=", "&", "/", "quote", "backslash", "newline", " ", "@"})
      \cup Up(5, {"quote", "backslash", "newline"}) \cup Up(4, {"/", "newline", "1"})
      \cup {<<"@">> \o w : w \in Up(4, {"h", "o", "t"})}

SampleTexts == {<<"a">>, <<"b", "a">>, <<"a", "a", "b">>, <<"b", "nul", "a">>}

Node(name, type) == [name |-> name, type |-> type]
Edge(from, to, label) == [from |-> from, to |-> to, label |-> label]
Dependent(name, type, literal, assigned) ==
    [name |-> name, type |-> type, literal |-> literal, assigned |-> assigned]

Lifetime == INSTANCE Lifetimes WITH
    MaxScopes <- 4, MaxLifetimes <- 3,
    current_scope <- v1, lifetimes <- v2, path <- v3, entered <- v4, home <- v5

Cache == INSTANCE ModuleCache WITH
    Key <- {key1, key2, key3},
    Hash <- (key1 :> 1) @@ (key2 :> 1) @@ (key3 :> 2), max_entries <- 2,
    MaxTime <- 1,
    list <- v1, entries <- v2, entry_count <- v3, file <- v4, source <- v5,
    now <- v6, pending <- v7, crashed <- v8, compiled <- v9

\* Fewer modules, whose sources are edited: what is in memory and in files expires.
Edited == INSTANCE ModuleCache WITH
    Key <- {key1, key3}, Hash <- (key1 :> 1) @@ (key3 :> 2), max_entries <- 1,
    MaxTime <- 3,
    list <- v1, entries <- v2, entry_count <- v3, file <- v4, source <- v5,
    now <- v6, pending <- v7, crashed <- v8, compiled <- v9

ASSUME CacheHasRoom == Cache!HasRoom /\ Edited!HasRoom

Snapshot == INSTANCE Snapshots WITH
    Objects <- {"a"}, Slots <- {1}, max_snapshots <- 2, MaxStack <- 1,
    MaxStores <- 1, MaxSnapshots <- 4,
    refs <- v1, made <- v2, locals <- v3, stack <- v4, due <- v5, snaps <- v6,
    snapshots <- v7, current <- v8, next_id <- v9, surplus <- v10,
    astray <- v11

\* What the theorems of SnapshotsProofs assume.
ASSUME SnapshotsProgramIsSound == Snapshot!ProgramIsSound

Agent == INSTANCE Agents WITH
    MaxAgents <- 2, MaxContexts <- 4, MaxContextVersion <- 2,
    Keys <- {}, Topics <- {}, MaxSymbolVersion <- 1, MaxMessages <- 0,
    agents <- v1, contexts <- v2, allocated <- v3, handed <- v4, aborted <- v5,
    symbols <- v6, requester <- v7, messages <- v8, next_sequence <- v9

Space == INSTANCE Agents WITH
    MaxAgents <- 2, MaxContexts <- 0, MaxContextVersion <- 1,
    Keys <- {"k", "l"}, Topics <- {"t", "u"}, MaxSymbolVersion <- 2, MaxMessages <- 3,
    agents <- v1, contexts <- v2, allocated <- v3, handed <- v4, aborted <- v5,
    symbols <- v6, requester <- v7, messages <- v8, next_sequence <- v9

Region == INSTANCE Regions WITH
    Objects <- {"a"}, Types <- {"task"}, Capacities <- {24}, Sizes <- {4},
    Alignments <- {8, 16}, WordSize <- 8, StringSize <- 8, MinIoCapacity <- 32,
    MaxRegions <- 2, MaxAllocations <- 2, MaxTracked <- 1,
    regions <- v1, first <- v2, current_region <- v3, next_region_id <- v4,
    active_regions <- v5, total_allocated <- v6, refs <- v7, held <- v8,
    trackings <- v9, buffer <- v10, broken <- v11

Lazy == INSTANCE Lazy WITH
    Exprs <- {"a", "b", "c"}, Speculative <- {"c"},
    Reads <- {<<"b", "a">>, <<"c", "b">>, <<"c", "c">>}, max_speculative <- 1,
    MaxVersion <- 2,
    exprs <- v1, dependents <- v2, version <- v3, stack <- v4,
    current_speculative <- v5, interrupted <- v6, broken <- v7

Speculation == INSTANCE Lazy WITH
    Exprs <- {"a", "b"}, Speculative <- {"a", "b"},
    Reads <- {<<"b", "a">>, <<"b", "b">>}, max_speculative <- 1,
    MaxVersion <- 2,
    exprs <- v1, dependents <- v2, version <- v3, stack <- v4,
    current_speculative <- v5, interrupted <- v6, broken <- v7

Cluster == INSTANCE Cluster WITH
    Ids <- {"m", "n", "k"}, local_node_id <- "m", StateNames <- {"x"},
    Sockets <- {3, 4}, MaxSubscriptions <- 2, MaxCalls <- 1,
    nodes <- v1, subscriptions <- v2, next_rpc_seq <- v3,
    state_propagations <- v4, open <- v5, asked <- v6, reply <- v7

\* What the theorems of DescriptorProofs assume.
ASSUME ClusterIsSound == Cluster!ClusterIsSound

WebSocket == INSTANCE WebSockets WITH
    Accepted <- {"p", "q"}, Connecting <- {"w"}, Nobody <- "nobody", Fds <- {3, 4, 5},
    ws <- v1, clients <- v2, clients_node <- v3, listen_fd <- v4, i <- v5,
    polled <- v6, announcing <- v7, open <- v8, closed_twice <- v9, replaced <- v10,
    told_late <- v11

ASSUME WebSocketsAreDistinct == WebSocket!SocketsAreDistinct

Socket == INSTANCE Sockets WITH
    MAX_SOCKETS <- 2, Fds <- {3, 4, 5}, CAPACITY <- 4, CHUNK <- 2,
    Timeout <- 1, MaxReceived <- 6, MaxSent <- 1,
    sockets <- v1, stats <- v2, open <- v3, moved <- v4, lost <- v5, script <- v6,
    receiving <- v7

ASSUME TcpTableIsSound == Socket!TableIsSound

Graph == INSTANCE UnifiedGraph WITH
    SourceNames <- <<"f">>, AddedNames <- {"y"}, Addresses <- {1, 2},
    IntentTypes <- {}, HotExecutions <- 0, MaxExecutions <- 1,
    SimdTypes <- {}, SimdExecutions <- 1, HasSimd <- FALSE, MaxRewrites <- 0, MaxMemory <- 0,
    MaxEdges <- 0, MaxVersions <- 3, MaxIntents <- 2,
    nodes <- v1, edges <- v2, versions <- v3, version_history <- v4, current_version <- v5,
    garbled <- v6, intents <- v7, declared <- v8, simd_rewrites <- v9

Intent == INSTANCE UnifiedGraph WITH
    SourceNames <- <<"f">>, AddedNames <- {"y"}, Addresses <- {1, 2},
    IntentTypes <- {"fast", "parallel"}, SimdTypes <- {"fast"}, HotExecutions <- 0,
    SimdExecutions <- 1, HasSimd <- TRUE, MaxRewrites <- 1, MaxMemory <- 0,
    MaxEdges <- 0, MaxExecutions <- 2, MaxVersions <- 0, MaxIntents <- 2,
    nodes <- v1, edges <- v2, versions <- v3, version_history <- v4, current_version <- v5,
    garbled <- v6, intents <- v7, declared <- v8, simd_rewrites <- v9

Metric == INSTANCE UnifiedGraph WITH
    SourceNames <- <<"f">>, AddedNames <- {"y"}, Addresses <- {1, 2},
    IntentTypes <- {}, SimdTypes <- {}, HotExecutions <- 0,
    SimdExecutions <- 0, HasSimd <- FALSE, MaxRewrites <- 0, MaxMemory <- 2,
    MaxEdges <- 2, MaxExecutions <- 0, MaxVersions <- 1, MaxIntents <- 0,
    nodes <- v1, edges <- v2, versions <- v3, version_history <- v4, current_version <- v5,
    garbled <- v6, intents <- v7, declared <- v8, simd_rewrites <- v9

Registry == INSTANCE ModuleRegistry WITH
    Modules <- {"n", "o"},
    Exports <- ("n" :> <<"f", "g">>) @@ ("o" :> <<"g">>), Stdlib <- <<"g">>,
    MAX_NATIVE_FUNCS <- 3, MaxInstances <- 2, MaxReferences <- 2,
    builtins <- v1, modules <- v2, instances <- v3, module_count <- v4,
    created <- v5, given <- v6, kept <- v7, started <- v8, orphans <- v9,
    strayed <- v10, natives <- v11, imported <- v12

Reload == INSTANCE HotReload WITH
    Targets <- {"s"}, Handlers <- {"h"}, Accepts <- {<<"h", "s">>},
    InitialChanges <- 1, InitialHandlers <- 1, MaxChanges <- 2, MaxRegistrations <- 2,
    MaxDepth <- 2,
    changes <- v1, handlers <- v2, enabled <- v3, auto_apply <- v4,
    successful <- v5, i <- v6, running <- v7, recorded <- v8,
    registrations <- v9, change_capacity <- v10, handler_capacity <- v11,
    calls <- v12, set_back <- v13, broken <- v14

ASSUME ReloadCapacities == Reload!CapacitiesAreNumbers

Jit == INSTANCE JitModules WITH
    Functions <- {<<"m", "f">>, <<"m", "g">>}, Tiers <- {1},
    Signatures <- {[args |-> a, result |-> "x"] : a \in {<< >>, <<"x">>}},
    MaxCodes <- 2, MaxLinks <- 1, MaxDeopts <- 1,
    functions <- v1, changed <- v2

ASSUME JitCallsAreTyped == Jit!CallsAreTyped

Files == INSTANCE ModuleFiles WITH
    Names <- {"f", "v", "w"}, Hash <- ("f" :> 1) @@ ("v" :> 1) @@ ("w" :> 2),
    Sources <- ModuleSources, MaxReferences <- 2,
    module <- v1, file <- v2, loaded <- v3, saved <- v4

Manager == INSTANCE ModuleManager WITH
    Modules <- {"n", "o"}, Hash <- [m \in {"n", "o"} |-> 0], INDEX <- 2,
    BUILTINS <- 2, Reactive <- {"n"}, Values <- {1}, MaxManagers <- 2,
    MaxStray <- 1,
    builtins <- v1, modules <- v2, next <- v3, module_count <- v4,
    name_index <- v5, runtime <- v6, mods <- v7, cursor <- v8, polled <- v9,
    owed <- v10, gone <- v11, stray <- v12, created <- v13, broken <- v14

Lex == INSTANCE Lexer WITH
    Texts <- SourceTexts, Letters <- {"h", "n", "o", "t"},
    Words <- (<<"o", "n">> :> "ON"), Annotations <- {<<"h", "o", "t">>},
    text <- v1, current <- v2, line <- v3, tokens <- v4

Tree == INSTANCE SyntaxTrees WITH
    Types <- {"let", "block", "assign", "return", "import", "call"},
    MaxNodes <- 2, MaxCells <- 7,
    heap <- v1, next_cell <- v2, roots <- v3, lost <- v4, parsed <- v5

Embed == INSTANCE Embedding WITH
    Texts <- SampleTexts, Numbers <- -1 .. 2, MaxStrings <- 2,
    MaxReferences <- 2, Nil <- Blank,
    rt <- v1, module <- v2, resources <- v3, strings <- v4, call <- v5

Tls == INSTANCE Secured WITH
    MAX_TLS_CONNECTIONS <- 2, MaxHeld <- 3, CAPACITY <- 4, CHUNK <- 2,
    MaxReceived <- 9,
    available <- v1, initialized <- v2, connections <- v3, held <- v4,
    attempt <- v5, plain <- v6, request <- v7, script <- v8

ASSUME TlsTableIsSound == Tls!TableIsSound

Tiers == INSTANCE TieredJit WITH
    Functions <- {"f", "g"}, BASELINE_HOT_THRESHOLD <- 1, MaxCalls <- 1,
    MaxMappings <- 3, Objects <- {}, Locals <- {}, MaxStack <- 0,
    MaxReferences <- 0,
    jit_functions <- v1, mapped <- v2, mappings <- v3, overwritten <- v4,
    locals <- v5, stack <- v6, refs <- v7, made <- v8, frame <- v9,
    surplus <- v10, strayed <- v11

Replacement == INSTANCE TieredJit WITH
    Functions <- {}, BASELINE_HOT_THRESHOLD <- 1, MaxCalls <- 0,
    MaxMappings <- 0, Objects <- {"a", "b"}, Locals <- {1}, MaxStack <- 2,
    MaxReferences <- 1,
    jit_functions <- v1, mapped <- v2, mappings <- v3, overwritten <- v4,
    locals <- v5, stack <- v6, refs <- v7, made <- v8, frame <- v9,
    surplus <- v10, strayed <- v11

Task == INSTANCE Tasks WITH
    Threads <- {"t", "u", "v"}, Nobody <- "nobody", MaxTasks <- 2,
    holder <- v1, locked <- v2, pc <- v3, tasks <- v4, next_id <- v5,
    seen <- v6

Adapt == INSTANCE Adaptive WITH
    dep_graph <- [nodes |-> <<Dependent("p", "variable", 1, TRUE),
                              Dependent("q", "variable", 2, FALSE),
                              Dependent("r", "variable", Blank, FALSE),
                              Dependent("f", "function", Blank, FALSE)>>,
                  edges |-> <<Edge("f", "r", "uses"), Edge("p", "r", "uses")>>],
    call_graph <- [nodes |-> <<Node("global", "function"), Node("f", "function"),
                               Node("g", "function")>>,
                   edges |-> [k \in 1 .. 3 |-> Edge("global", "f", "calls")]],
    cfg <- [nodes |-> <<Node("while", "statement"), Node("body", "statement"),
                        Node("end", "statement")>>,
            edges |-> <<Edge("while", "body", "true"), Edge("body", "while", "loop"),
                        Edge("while", "end", "false")>>],
    NULL <- Blank,
    Times <- {0, 3}, HOT_CALLS <- 1, HOT_BLOCKS <- 0, MAX_REORDERED <- 1,
    MaxCalls <- 3, MaxAnalyses <- 2,
    marks <- v1, plans <- v2, profile <- v3, executed <- v4

Dvm == INSTANCE Holographic WITH
    Nodes <- {"here", "there"}, NoNode <- "nobody", Variables <- {},
    max_snapshots <- 0, MaxObjects <- 2, MaxRequests <- 1, MaxRegistered <- 0,
    MaxSnapshots <- 0, MaxSaves <- 0,
    running <- v1, next_local_addr <- v2, ownership_table <- v3,
    pending_requests <- v4, transfers <- v5, status <- v6, mappings <- v7,
    persistent_vars <- v8, persistent_snapshots <- v9, counts <- v10,
    snapshot_mgr <- v11

Persistent == INSTANCE Holographic WITH
    Nodes <- {}, NoNode <- "nobody", Variables <- {"x", "y"},
    max_snapshots <- 2, MaxObjects <- 0, MaxRequests <- 0, MaxRegistered <- 2,
    MaxSnapshots <- 3, MaxSaves <- 2,
    running <- v1, next_local_addr <- v2, ownership_table <- v3,
    pending_requests <- v4, transfers <- v5, status <- v6, mappings <- v7,
    persistent_vars <- v8, persistent_snapshots <- v9, counts <- v10,
    snapshot_mgr <- v11

System == INSTANCE MinimalRuntime WITH
    HeapInitial <- 6, BlockSize <- 4, ArenaHeader <- 1, BlockHeader <- 1,
    Alignment <- 2, StringInitial <- 2, VecInitial <- 1, ElemSize <- 2,
    Chars <- {"a"}, Temporaries <- {}, MaxBlocks <- 1,
    status <- v1, panic_on_oom <- v2, offset <- v3, cells <- v4, string <- v5,
    vec <- v6, str <- v7, text <- v8, elems <- v9, borrowed <- v10,
    blocks <- v11, mapped <- v12

Arena == INSTANCE MinimalRuntime WITH
    HeapInitial <- 0, BlockSize <- 4, ArenaHeader <- 1, BlockHeader <- 1,
    Alignment <- 2, StringInitial <- 1, VecInitial <- 1, ElemSize <- 1,
    Chars <- {}, Temporaries <- {1, 4}, MaxBlocks <- 3,
    status <- v1, panic_on_oom <- v2, offset <- v3, cells <- v4, string <- v5,
    vec <- v6, str <- v7, text <- v8, elems <- v9, borrowed <- v10,
    blocks <- v11, mapped <- v12

-----------------------------------------------------------------------------

\* A component with n variables has no use for those behind v_n.
Unused(n) ==
    /\ IF n < 3 THEN v3 = Blank ELSE TRUE
    /\ IF n < 4 THEN v4 = Blank ELSE TRUE
    /\ IF n < 5 THEN v5 = Blank ELSE TRUE
    /\ IF n < 6 THEN v6 = Blank ELSE TRUE
    /\ IF n < 7 THEN v7 = Blank ELSE TRUE
    /\ IF n < 8 THEN v8 = Blank ELSE TRUE
    /\ IF n < 9 THEN v9 = Blank ELSE TRUE
    /\ IF n < 10 THEN v10 = Blank ELSE TRUE
    /\ IF n < 11 THEN v11 = Blank ELSE TRUE
    /\ IF n < 12 THEN v12 = Blank ELSE TRUE
    /\ IF n < 13 THEN v13 = Blank ELSE TRUE
    /\ IF n < 14 THEN v14 = Blank ELSE TRUE

StayUnused(n) ==
    /\ IF n < 3 THEN v3' = Blank ELSE TRUE
    /\ IF n < 4 THEN v4' = Blank ELSE TRUE
    /\ IF n < 5 THEN v5' = Blank ELSE TRUE
    /\ IF n < 6 THEN v6' = Blank ELSE TRUE
    /\ IF n < 7 THEN v7' = Blank ELSE TRUE
    /\ IF n < 8 THEN v8' = Blank ELSE TRUE
    /\ IF n < 9 THEN v9' = Blank ELSE TRUE
    /\ IF n < 10 THEN v10' = Blank ELSE TRUE
    /\ IF n < 11 THEN v11' = Blank ELSE TRUE
    /\ IF n < 12 THEN v12' = Blank ELSE TRUE
    /\ IF n < 13 THEN v13' = Blank ELSE TRUE
    /\ IF n < 14 THEN v14' = Blank ELSE TRUE

Init ==
    \/ component = "lifetime" /\ Lifetime!Init /\ Unused(5)
    \/ component = "cache" /\ Cache!Init /\ Unused(9)
    \/ component = "edits" /\ Edited!Init /\ Unused(9)
    \/ component = "snapshots" /\ Snapshot!Init /\ Unused(11)
    \/ component = "agents" /\ Agent!Init /\ Unused(9)
    \/ component = "space" /\ Space!Init /\ Unused(9)
    \/ component = "regions" /\ Region!Init /\ Unused(11)
    \/ component = "lazy" /\ Lazy!Init /\ Unused(7)
    \/ component = "speculation" /\ Speculation!Init /\ Unused(7)
    \/ component = "cluster" /\ Cluster!Init /\ Unused(7)
    \/ component = "websockets" /\ WebSocket!Init /\ Unused(11)
    \/ component = "sockets" /\ Socket!Init /\ Unused(7)
    \/ component = "graph" /\ Graph!Init /\ Unused(9)
    \/ component = "intents" /\ Intent!Init /\ Unused(9)
    \/ component = "metrics" /\ Metric!Init /\ Unused(9)
    \/ component = "registry" /\ Registry!Init /\ Unused(12)
    \/ component = "reload" /\ Reload!Init /\ Unused(14)
    \/ component = "jit" /\ Jit!Init /\ Unused(2)
    \/ component = "files" /\ Files!Init /\ Unused(4)
    \/ component = "modules" /\ Manager!Init /\ Unused(14)
    \/ component = "lexer" /\ Lex!Init /\ Unused(4)
    \/ component = "trees" /\ Tree!Init /\ Unused(5)
    \/ component = "embedding" /\ Embed!Init /\ Unused(5)
    \/ component = "secured" /\ Tls!Init /\ Unused(8)
    \/ component = "tiers" /\ Tiers!Init /\ Unused(11)
    \/ component = "replacement" /\ Replacement!Init /\ Unused(11)
    \/ component = "tasks" /\ Task!Init /\ Unused(6)
    \/ component = "adaptive" /\ Adapt!Init /\ Unused(4)
    \/ component = "dvm" /\ Dvm!Init /\ Unused(11)
    \/ component = "persistent" /\ Persistent!Init /\ Unused(11)
    \/ component = "system" /\ System!Init /\ Unused(12)
    \/ component = "arena" /\ Arena!Init /\ Unused(12)

LifetimeStep ==    component = "lifetime" /\ Lifetime!Next /\ StayUnused(5)
CacheStep ==       component = "cache" /\ Cache!Next /\ StayUnused(9)
EditedStep ==      component = "edits" /\ Edited!Next /\ StayUnused(9)
SnapshotStep ==    component = "snapshots" /\ Snapshot!Next /\ StayUnused(11)
AgentStep ==       component = "agents" /\ Agent!Next /\ StayUnused(9)
SpaceStep ==       component = "space" /\ Space!Next /\ StayUnused(9)
RegionStep ==      component = "regions" /\ Region!Next /\ StayUnused(11)
LazyStep ==        component = "lazy" /\ Lazy!Next /\ StayUnused(7)
SpeculationStep == component = "speculation" /\ Speculation!Next /\ StayUnused(7)
ClusterStep ==     component = "cluster" /\ Cluster!Next /\ StayUnused(7)
WebSocketStep ==   component = "websockets" /\ WebSocket!Next /\ StayUnused(11)
SocketStep ==      component = "sockets" /\ Socket!Next /\ StayUnused(7)
GraphStep ==       component = "graph" /\ Graph!Next /\ StayUnused(9)
IntentStep ==      component = "intents" /\ Intent!Next /\ StayUnused(9)
MetricStep ==      component = "metrics" /\ Metric!Next /\ StayUnused(9)
RegistryStep ==    component = "registry" /\ Registry!Next /\ StayUnused(12)
ReloadStep ==      component = "reload" /\ Reload!Next /\ StayUnused(14)
JitStep ==         component = "jit" /\ Jit!Next /\ StayUnused(2)
FilesStep ==       component = "files" /\ Files!Next /\ StayUnused(4)
ManagerStep ==     component = "modules" /\ Manager!Next /\ StayUnused(14)
LexStep ==         component = "lexer" /\ Lex!Next /\ StayUnused(4)
TreeStep ==        component = "trees" /\ Tree!Next /\ StayUnused(5)
EmbedStep ==       component = "embedding" /\ Embed!Next /\ StayUnused(5)
TlsStep ==         component = "secured" /\ Tls!Next /\ StayUnused(8)
TiersStep ==       component = "tiers" /\ Tiers!Next /\ StayUnused(11)
ReplacementStep == component = "replacement" /\ Replacement!Next /\ StayUnused(11)
TaskStep ==        component = "tasks" /\ Task!Next /\ StayUnused(6)
AdaptStep ==       component = "adaptive" /\ Adapt!Next /\ StayUnused(4)
DvmStep ==         component = "dvm" /\ Dvm!Next /\ StayUnused(11)
PersistentStep ==  component = "persistent" /\ Persistent!Next /\ StayUnused(11)
SystemStep ==      component = "system" /\ System!Next /\ StayUnused(12)
ArenaStep ==       component = "arena" /\ Arena!Next /\ StayUnused(12)

Next ==
    /\ UNCHANGED component
    /\ \/ LifetimeStep \/ CacheStep \/ EditedStep \/ SnapshotStep \/ AgentStep
       \/ SpaceStep \/ RegionStep \/ LazyStep \/ SpeculationStep
       \/ ClusterStep \/ WebSocketStep \/ SocketStep \/ GraphStep
       \/ IntentStep \/ MetricStep \/ RegistryStep \/ ReloadStep \/ JitStep
       \/ FilesStep \/ ManagerStep \/ LexStep \/ TreeStep
       \/ EmbedStep \/ TlsStep \/ TiersStep \/ ReplacementStep
       \/ TaskStep \/ AdaptStep \/ DvmStep \/ PersistentStep
       \/ SystemStep \/ ArenaStep

vars == <<component, v1, v2, v3, v4, v5, v6, v7, v8, v9, v10, v11, v12, v13,
          v14>>

Spec == Init /\ [][Next]_vars

-----------------------------------------------------------------------------
(* Properties.  The modules state them in the terms of their component.    *)

(* The component at work keeps its type invariant.                         *)
TypeOK ==
    /\ component = "lifetime" => Lifetime!TypeOK
    /\ component = "cache" => Cache!TypeOK
    /\ component = "edits" => Edited!TypeOK
    /\ component = "snapshots" => Snapshot!TypeOK
    /\ component = "agents" => Agent!TypeOK
    /\ component = "space" => Space!TypeOK
    /\ component = "regions" => Region!TypeOK
    /\ component = "lazy" => Lazy!TypeOK
    /\ component = "speculation" => Speculation!TypeOK
    /\ component = "cluster" => Cluster!TypeOK
    /\ component = "websockets" => WebSocket!TypeOK
    /\ component = "sockets" => Socket!TypeOK
    /\ component = "graph" => Graph!TypeOK
    /\ component = "intents" => Intent!TypeOK
    /\ component = "metrics" => Metric!TypeOK
    /\ component = "registry" => Registry!TypeOK
    /\ component = "reload" => Reload!TypeOK
    /\ component = "jit" => Jit!TypeOK
    /\ component = "files" => Files!TypeOK
    /\ component = "modules" => Manager!TypeOK
    /\ component = "lexer" => Lex!TypeOK
    /\ component = "trees" => Tree!TypeOK
    /\ component = "embedding" => Embed!TypeOK
    /\ component = "secured" => Tls!TypeOK
    /\ component = "tiers" => Tiers!TypeOK
    /\ component = "replacement" => Replacement!TypeOK
    /\ component = "tasks" => Task!TypeOK
    /\ component = "adaptive" => Adapt!TypeOK
    /\ component = "dvm" => Dvm!TypeOK
    /\ component = "persistent" => Persistent!TypeOK
    /\ component = "system" => System!TypeOK
    /\ component = "arena" => Arena!TypeOK

(* The lists and tables of the runtime hold what is alive and lead to all  *)
(* of it, after any sequence of calls.                                     *)
ListsAreSound ==
    \* The LRU list holds the allocated entries and can be walked both ways, although its links are
    \* those of the hash chains too (cache.c).
    /\ component = "cache" => Cache!LruWellFormed
    /\ component = "edits" => Edited!LruWellFormed
    \* No bucket of the module cache leads to an entry that was freed.
    /\ component = "cache" => Cache!NoDanglingBucket
    /\ component = "edits" => Edited!NoDanglingBucket
    \* The list of snapshots holds live ones only, the oldest first, linked both ways, and no more
    \* than are kept (snapshot.c:125-161, 227-260).
    /\ component = "snapshots" => Snapshot!ListIsSound
    \* The current snapshot can be found in the list, unless the oldest was destroyed while it was
    \* the current one (snapshot.c:242).
    /\ component = "snapshots" => Snapshot!CurrentIsListed
    \* The list and the counts of the region manager are those of the regions that are not
    \* destroyed (region_memory.c:144).
    /\ component = "regions" => Region!RegionListIsSound
    \* The versions of the graph form a list that ends, in the order of their creation, with the
    \* current one in it (unified_graph.c:352-378).
    /\ component = "graph" => Graph!HistoryIsSound
    \* The list of modules holds each name once, its count is right, and a module was initialized
    \* once for each of its instances (module.c:176-256).
    /\ component = "registry" => Registry!RegistryIsSound
    \* Each name is once in the table of symbols of a module, its count is right, and what is
    \* exported is public and once on the list (astm.c:104-188).
    /\ component = "files" => Files!TableIsSound
    \* The list of a module manager ends and holds the built-in modules that were not unloaded,
    \* each once (module_interface.c:85-208).
    /\ component = "modules" => Manager!ManagerListIsSound

(* No component frees what another part of it still refers to, or refers   *)
(* to what was freed.                                                      *)
NothingFreedIsUsed ==
    \* No string is freed under the machine or a snapshot of it, whatever is saved, put back,
    \* evicted and destroyed in between (snapshot.c, vm.c).
    /\ component = "snapshots" => Snapshot!HeldIsCounted
    \* Callbacks find the change and the handler they were called for as long as no more are
    \* recorded and registered than there is room for (hotreload.c:87-131, 150-215).
    /\ component = "reload" => Reload!BrokenByGrowth
    \* A context belongs to one agent or to one who asked for it and is freed by that one only
    \* (agent_module.c).
    /\ component = "agents" => Agent!ContextsHaveOneOwner
    \* No edge of the graph outlives the nodes it goes between (unified_graph.c:118-132).
    /\ component = "metrics" => Metric!EdgesAreLive
    \* A region keeps the values it tracks alive, as long as none is tracked twice
    \* (region_memory.c:114).
    /\ component = "regions" => Region!TrackedIsAlive
    \* A native module is there as long as a caller or an import has a reference to it, but for the
    \* one that shutdown takes (module.c:103-133, 223-256).
    /\ component = "registry" => Registry!ReferencesAreCounted
    \* A cell of a syntax tree is freed with the node it belongs to, and belongs to one
    \* (core/ast/ast.c).
    /\ component = "trees" => Tree!CellsHaveOneOwner
    \* Whatever phase of a compilation fails, the memory left is that of the modules that were
    \* compiled (loader.c:165-287).
    /\ component = "embedding" => Embed!NothingIsLeftBehind
    \* The code mapped for a function is that of one entry of the table, and stays mapped, but for
    \* what freeing a code that was never made may hit (tiered_jit.c:103-155, 398-471).
    /\ component = "tiers" => Tiers!CodeIsOwned
    \* A value on a stack, saved or not, has a reference of its own there (tiered_jit.c:241-336).
    /\ component = "replacement" => Replacement!StacksAreCounted
    \* Nothing is written at NULL unless the program was told to go on without memory, nor past the
    \* heap but for the NUL of a string of capacity 0 (sys/runtime.c:91-96, 247).
    /\ component = "system" => System!FaultsNeedPermission
    \* What counts as mapped is, also when it was mapped twice (holographic.c:368-406).
    /\ component = "persistent" => Persistent!MappedIsMapped
    \* The pages the process has are those of the heap and the arena, and shutting down gives them
    \* back (sys/runtime.c:43-55, 185-215).
    /\ component = "arena" => Arena!PagesAreGivenBack

(* Open descriptors and handles belong to one owner, who closes them once. *)
DescriptorsAreOwned ==
    \* An open socket belongs to one connected node and no id is twice in the array, in whatever
    \* order nodes come, connect and go (distributed.c:142-189).
    /\ component = "cluster" => Cluster!SocketsAreOwned
    \* An open descriptor is that of one WebSocket or of the listening server, and is closed once;
    \* what is lost was replaced by connecting or listening again, of what is closed twice one was
    \* the server's number again (ws_driver.c:129, 374, 238-283, 472-524).
    /\ component = "websockets" => WebSocket!DescriptorsAreOwned
    \* An open descriptor is that of one handle, or was dropped by listen or accept when the table
    \* was full (net_module.c:144-182, 545-610).
    /\ component = "sockets" => Socket!DescriptorsAreOwned
    \* Between calls the handles in use are those the program was given: http_get leaves none
    \* behind (net_module.c:799-874).
    /\ component = "sockets" => Socket!HandlesAreGiven
    \* Descriptors, contexts and sessions belong to one connection, or to the attempt to make it
    \* (tls_module.c:147-280).
    /\ component = "secured" => Tls!NothingIsLeaked
    \* Between two calls the TLS handles in use are those the program holds (tls_module.c:379-386,
    \* 392-546).
    /\ component = "secured" => Tls!HandlesAreGiven

(* What the components count is what there is to be counted.               *)
CountsAreRight ==
    \* A node has counted as transfers the objects it no longer has (holographic.c:262-287).
    /\ component = "dvm" => Dvm!TransfersAreCounted
    \* A lifetime is taken to be valid within another, as long as the scopes of both are open,
    \* exactly when its scope lies within the other's (ownership.c:297-354).
    /\ component = "lifetime" => Lifetime!ValidIsWithinWhileOpen
    \* Speculations are counted while they run and only then (lazy.c:251-264).
    /\ component = "speculation" => Speculation!SpeculationIsCounted
    \* The list of subscriptions holds each as often as it was asked for and not taken back
    \* (distributed.c:356-410).
    /\ component = "cluster" => Cluster!SubscriptionsAreCounted
    \* A node is hot exactly when it was executed often, also after versions were gone back to
    \* (unified_graph.c:282-386).
    /\ component = "graph" => Graph!HotIsExecutedOften
    \* The peak of a node's memory is at least what it uses, whatever was gone back to or reset
    \* (unified_graph.c:290-306).
    /\ component = "metrics" => Metric!PeakIsHighest
    \* What socket_stats tells of a handle is what went over its connection, none of an earlier one
    \* (net_module.c:144-182, 753-770).
    /\ component = "sockets" => Socket!StatsTellTheConnection
    \* A token has the line it ends on, unless a line end was escaped in a string (lexer.c:68-99,
    \* 210-231).
    /\ component = "lexer" => Lex!LinesAreCounted

(* What a component remembers of something else is what that is now.       *)
NothingStaleIsUsed ==
    \* Of an object at most one node may modify it, its owner, and none once it was moved away
    \* (holographic.c:262-315).
    /\ component = "dvm" => Dvm!WritersAreOwners
    \* A persistent variable that counts as clean was saved, and only the first of its entries ever
    \* is (holographic.c:408-452, 519-533).
    /\ component = "persistent" => Persistent!OnlyFirstEntriesAreSaved
    \* A cached value that would be returned is the one the expression has now, unless an
    \* invalidation came while it was evaluated (lazy.c:159-162).
    /\ component = "lazy" => Lazy!CacheIsCurrent
    \* The reactive nodes tell what the WebSockets are, but for a connection that failed and a
    \* client that effects closed before it was announced (ws_driver.c:127-147, 449-455).
    /\ component = "websockets" => WebSocket!NodesTellTheState
    \* A node has the intent last declared for it until it is removed (intent_based.c:212-280).
    /\ component = "intents" => Intent!IntentIsTheLastDeclared
    \* When hotreload_apply_all is through, a target is at the newest of its changes that could be
    \* applied, unless a callback itself applied an older one to it (hotreload.c:87-144, 183-215).
    /\ component = "reload" => Reload!NewestStaysInForce
    \* A function counts as one of stable types only while the calls recorded from the first with
    \* arguments on were alike (jit_module.c:322-364).
    /\ component = "jit" => Jit!StableMeansAlike
    \* A link that counts as valid leads to code that was not given up or changed since
    \* (jit_module.c:209-225, 397-425).
    /\ component = "jit" => Jit!LinksAreCurrent
    \* What was inlined is of stable types, or its next validation fails (jit_module.c:255-275,
    \* 287-320).
    /\ component = "jit" => Jit!InlinedIsWatched
    \* A module that is ready was initialized since its last cleanup (module_interface.c:85-242).
    /\ component = "modules" => Manager!ReadyIsInitialized
    \* The node of a reactive variable of a module has the value of the variable, also under the
    \* next manager (module_interface.c:423-499).
    /\ component = "modules" => Manager!NodeShowsVariable
    \* A tree that was marked read-only is so down to its leaves (ast.c:639-701).
    /\ component = "trees" => Tree!ReadOnlyIsDeep
    \* What is asked for over https goes through a session (tls_module.c:288-374, 430-522).
    /\ component = "secured" => Tls!SecureMeansSession
    \* The flag of a mutex is up while a thread is between its lock and its unlock, and down when
    \* nobody has it (task_module.c:344-398).
    /\ component = "tasks" => Task!FlagTellsHolder
    \* The first plan for a program calls no variable constant that is assigned to
    \* (graph.c:1143-1347).
    /\ component = "adaptive" => Adapt!FirstPlanIsSafe

(* What was put into a component is found there, in whatever order it      *)
(* came.                                                                   *)
NothingIsLost ==
    \* A module whose bucket is its own is found whenever it is in memory.
    /\ component = "cache" => Cache!LookupIsExact
    /\ component = "edits" => Edited!LookupIsExact
    \* A module of such a bucket that was compiled is in its file, or in memory to be saved:
    \* eviction loses no work.
    /\ component = "cache" => Cache!NoLostWork
    /\ component = "edits" => Edited!NoLostWork
    \* ws_server_poll leaves no client out, whichever are removed on the way (ws_driver.c:481-502).
    /\ component = "websockets" => WebSocket!EveryClientIsPolled
    \* What was imported is in the table of natives, until the table is full (vm.c:48-56,
    \* module.c:272-326).
    /\ component = "registry" => Registry!ImportsArrive
    \* A change that several handlers accept goes to the one that is longest in the list, which is
    \* in the order of registration (hotreload.c:90-98, 150-177).
    /\ component = "reload" => Reload!HandlersKeepTheirOrder
    \* A built-in module is found by its name, unless one of the same slot was loaded after it
    \* (module_interface.c:100-102, 244-259).
    /\ component = "modules" => Manager!FoundByName
    \* Functions that may run side by side have the same effect in either order
    \* (module_vm.c:217-245).
    /\ component = "modules" => Manager!ParallelMeansIndependent
    \* The tokens of a text are its longest words from the left, and nothing but blanks and
    \* comments lies between them (lexer.c:241-336).
    /\ component = "lexer" => Lex!TokensAreTheWords
    \* The native string functions agree with one another (loader.c:526-605).
    /\ component = "embedding" => Embed!TextsAreCut
    \* Whatever was recorded of a function or a block is found in one place (graph.c:1478-1616).
    /\ component = "adaptive" => Adapt!ProfileIsComplete
    \* Strings, vectors and slices hold what was put into them, wherever their memory has moved
    \* (sys/runtime.c:229-350).
    /\ component = "system" => System!ContentsAreKept

(* Capacities and time limits are kept.                                    *)
LimitsAreKept ==
    \* No two callers are given the same memory of a region, or memory outside of it
    \* (region_memory.c:187).
    /\ component = "regions" => Region!BlocksAreDisjoint
    \* tcp_recv_all outlives its limit by no more than one poll (net_module.c:463-526).
    /\ component = "sockets" => Socket!ReceivingIsTimely
    \* What is received fits into the buffer (net_module.c:463-526).
    /\ component = "sockets" => Socket!ReceivedFits
    \* The answer of https_get and the NUL behind it lie inside its buffer (tls_module.c:480-546).
    /\ component = "secured" => Tls!AnswerFits
    \* A string has room for its NUL, unless it was asked for with none, and strings and vectors do
    \* not overlap (sys/runtime.c:88-109, 242-249, 270-344).
    /\ component = "system" => System!CapacitiesAreKept
    \* What the temporary arena gives out lies in its blocks and overlaps nowhere
    \* (sys/runtime.c:140-183).
    /\ component = "arena" => Arena!TemporariesAreDisjoint

(* What a single step may not do: change what belongs to another, take     *)
(* back what was given, or fail when it need not.                          *)
StepsKeepPromises == [][
    \* A shared symbol goes away at the hands of the agent that set it last, and its version tells
    \* its values apart (agent_module.c).
    /\ component = "space" => Space!SymbolsKeepTheirOwner
    \* Polling and receiving are looking: messages stay on the bus and what was received of a topic
    \* never changes (agent_module.c).
    /\ component = "space" => Space!BusKeepsEverything
    \* A call fails only when no connected node could take it (distributed.c:288-305).
    /\ component = "cluster" => Cluster!CallsGetThrough
    \* Once a name means a native function it means that one for ever (vm.c:61-68).
    /\ component = "registry" => Registry!NamesKeepTheirMeaning
    \* What is loaded from a file written to its end is the code that was saved (astm.c:482-652).
    /\ component = "files" => Files!LoadedIsSaved
    \* A walk over the modules visits every one that is ready all the while, whatever callbacks
    \* unload on the way (module_interface.c:261-277).
    /\ component = "modules" => Manager!PollIsComplete
    \* A task that was reported done stays what it was (task_module.c:88-119).
    /\ component = "tasks" => Task!TasksStayDone
    ]_vars
=============================================================================
