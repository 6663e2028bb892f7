--------------------------- MODULE ModuleManager ----------------------------
(***************************************************************************)
(* The manager of native modules (modules/module_interface.c) and what     *)
(* their functions may do at the same time (vm/module_vm.c).  Built-in     *)
(* modules outlive the managers that load them: each manager initializes   *)
(* them, links them into its list and connects their variables to nodes of *)
(* its reactive runtime.  One manager exists at a time.  While it polls,   *)
(* the callbacks of a module may unload and reload modules and set         *)
(* variables; the walk goes on from wherever the polled module then leads. *)
(***************************************************************************)
EXTENDS Integers, Sequences, SequencesExt, FiniteSets

CONSTANTS
    Modules,        \* the modules of a program, each with one variable
    Hash,           \* Hash[m]: the slot of its name in name_index
    INDEX,          \* 64, the capacity of name_index
    BUILTINS,       \* 64, the capacity of g_builtin_modules
    Reactive,       \* modules whose variable is declared reactive
    Values,         \* of variables
    MaxManagers,    \* bound: managers created
    MaxStray        \* bound: unloads of what is unloaded

VARIABLES
    builtins,       \* g_builtin_modules
    modules, next,  \* the list: its head, and where each module leads
    module_count,
    name_index,     \* slots, each a module or None
    runtime,        \* the manager's reactive runtime, 0 without a manager
    mods,           \* [state, initialized, value, reactive, rt, node] of each module
    cursor,         \* the module being polled
    polled, owed,   \* history: modules visited; ready ones listed since the walk began
    gone, stray,    \* history: modules unloaded from this manager, and more often than once
    created,        \* history: managers so far
    broken          \* a variable was set whose node went with its manager

manager == <<modules, next, module_count, name_index, runtime, created>>
walk    == <<cursor, polled, owed>>
history == <<gone, stray, broken>>
vars    == <<builtins, manager, mods, walk, history>>

None   == "none"
NoNode == [runtime |-> 0, value |-> 0]

ModuleState    == {"unloaded", "ready", "error"}
ModuleVariable == [runtime : 0 .. MaxManagers, value : {0} \cup Values]
Module ==
    [state : ModuleState, initialized : BOOLEAN, value : {0} \cup Values, reactive : BOOLEAN,
     rt : 0 .. MaxManagers, node : ModuleVariable]

Init ==
    /\ builtins = << >> /\ modules = None /\ next = [m \in Modules |-> None]
    /\ module_count = 0 /\ name_index = [i \in 0 .. INDEX - 1 |-> None]
    /\ runtime = 0 /\ created = 0
    /\ mods = [m \in Modules |->
                  [state |-> "unloaded", initialized |-> FALSE, value |-> 0,
                   reactive |-> m \in Reactive, rt |-> 0, node |-> NoNode]]
    /\ cursor = None /\ polled = {} /\ owed = {}
    /\ gone = {} /\ stray = 0 /\ broken = FALSE

Position(m) == SelectInSeq(builtins, LAMBDA b : b = m)

\* What the list leads to from m, in at most n steps.
Reach[m \in Modules \cup {None}, n \in 0 .. Cardinality(Modules) + 1] ==
    IF m = None \/ n = 0 THEN << >> ELSE <<m>> \o Reach[next[m], n - 1]

Listed == Reach[modules, Cardinality(Modules) + 1]

----------------------------------------------------------------------------
(* Managers                                                                *)

\* A module that does not fit is dropped without a word.
module_manager_register_builtin(m) ==
    /\ runtime = 0 /\ Position(m) = 0 /\ Len(builtins) < BUILTINS
    /\ builtins' = Append(builtins, m)
    /\ UNCHANGED <<manager, mods, walk, history>>

\* A reactive variable gets a node of this runtime, whatever node it has.
module_connect_reactive(mod, rt) ==
    [mod EXCEPT !.rt = rt,
                !.node = IF mod.reactive THEN [runtime |-> rt, value |-> mod.value] ELSE @]

\* Loaded one by one to the head of the list, and the last module of a slot takes it.
module_manager_create ==
    /\ runtime = 0 /\ created < MaxManagers
    /\ created' = created + 1 /\ runtime' = created + 1
    /\ \E failing \in SUBSET ToSet(builtins) :
           mods' = [m \in Modules |->
                       IF Position(m) = 0 THEN mods[m]
                       ELSE [module_connect_reactive(mods[m], created + 1) EXCEPT
                                !.state = IF m \in failing THEN "error" ELSE "ready",
                                !.initialized = m \notin failing]]
    /\ next' = [m \in Modules |->
                   CASE Position(m) = 0 -> next[m]
                     [] Position(m) = 1 -> None
                     [] Position(m) > 1 -> builtins[Position(m) - 1]]
    /\ modules' = (<<None>> \o builtins)[Len(builtins) + 1]
    /\ module_count' = Len(builtins)
    /\ name_index' = [i \in 0 .. INDEX - 1 |->
                         (<<None>> \o builtins)[1 + SelectLastInSeq(builtins, LAMBDA m : Hash[m] = i)]]
    /\ gone' = {} /\ stray' = 0 /\ polled' = {} /\ owed' = {}
    /\ UNCHANGED <<builtins, cursor, broken>>

\* The modules stay as they are, but for their cleanup.
module_manager_destroy ==
    /\ runtime # 0 /\ cursor = None
    /\ runtime' = 0
    /\ mods' = [m \in Modules |-> IF m \in ToSet(Listed) THEN [mods[m] EXCEPT !.initialized = FALSE]
                                  ELSE mods[m]]
    /\ UNCHANGED <<builtins, modules, next, module_count, name_index, created, walk, history>>

\* Probing ends at a free slot.
module_manager_get(m) ==
    LET slots == [i \in 1 .. INDEX |-> name_index[(Hash[m] + i - 1) % INDEX]]
        hit   == SelectInSeq(slots, LAMBDA s : s \in {m, None})
    IN  IF hit = 0 THEN None ELSE slots[hit]

\* The module keeps its own link, and its place in the index.
Unlink(m) ==
    /\ modules' = IF modules = m THEN next[m] ELSE modules
    /\ next' = [k \in Modules |-> IF k \in ToSet(Listed) /\ next[k] = m THEN next[m] ELSE next[k]]

\* The count goes down whether or not the module was on the list.
module_manager_unload(m) ==
    /\ runtime # 0 /\ mods[m].rt = runtime
    /\ m \in ToSet(Listed) \/ stray < MaxStray
    /\ Unlink(m)
    /\ mods' = [mods EXCEPT ![m].state = "unloaded", ![m].initialized = FALSE]
    /\ module_count' = module_count - 1
    /\ gone' = gone \cup {m} /\ stray' = IF m \in gone THEN stray + 1 ELSE stray
    /\ owed' = owed \ {m}
    /\ UNCHANGED <<builtins, name_index, runtime, created, cursor, polled, broken>>

\* An unloaded module becomes ready like the others and stays off the list.
module_manager_reload(m) ==
    /\ runtime # 0 /\ mods[m].rt = runtime
    /\ \E ok \in BOOLEAN :
           /\ mods' = [mods EXCEPT ![m].state = IF ok THEN "ready" ELSE "error",
                                   ![m].initialized = ok]
           /\ owed' = IF ok THEN owed ELSE owed \ {m}
    /\ UNCHANGED <<builtins, manager, cursor, polled, history>>

----------------------------------------------------------------------------
(* Polling                                                                 *)

PollBegins ==
    /\ runtime # 0 /\ cursor = None /\ modules # None
    /\ cursor' = modules
    /\ polled' = {} /\ owed' = {m \in ToSet(Listed) : mods[m].state = "ready"}
    /\ UNCHANGED <<builtins, manager, mods, history>>

Visited == IF mods[cursor].state = "ready" THEN polled \cup {cursor} ELSE polled

\* Only what is ready when the walk comes to it is polled.
module_manager_poll ==
    /\ cursor # None
    /\ cursor' = next[cursor]
    /\ polled' = IF next[cursor] = None THEN {} ELSE Visited
    /\ owed' = IF next[cursor] = None THEN {} ELSE owed
    /\ UNCHANGED <<builtins, manager, mods, history>>

----------------------------------------------------------------------------
(* Variables                                                               *)

module_set_variable(m, v) ==
    /\ mods' = [mods EXCEPT ![m].value = v, ![m].node.value = IF mods[m].node = NoNode THEN @ ELSE v]
    /\ broken' = (mods[m].node # NoNode /\ mods[m].node.runtime # runtime)
    /\ UNCHANGED <<builtins, manager, walk, gone, stray>>

module_make_event_source(m) ==
    /\ ~mods[m].reactive
    /\ mods' = [mods EXCEPT ![m].reactive = TRUE,
                            ![m].node = IF mods[m].rt = 0 THEN @
                                        ELSE [runtime |-> mods[m].rt, value |-> mods[m].value]]
    /\ broken' = (mods[m].rt # 0 /\ mods[m].rt # runtime)
    /\ UNCHANGED <<builtins, manager, walk, gone, stray>>

Next ==
    /\ ~broken
    /\ \/ module_manager_create \/ module_manager_destroy \/ PollBegins \/ module_manager_poll
       \/ \E m \in Modules :
              \/ module_manager_register_builtin(m)
              \/ module_manager_unload(m) \/ module_manager_reload(m)
              \/ module_make_event_source(m)
              \/ \E v \in Values : module_set_variable(m, v)

Spec == Init /\ [][Next]_vars

----------------------------------------------------------------------------
(* Functions side by side (module_vm.c)                                    *)

FunctionNodes == [reads : SUBSET Modules, writes : SUBSET Modules]

vm_can_parallelize(f, g) ==
    /\ \A v \in f.writes : v \notin g.reads /\ v \notin g.writes
    /\ \A v \in g.writes : v \notin f.reads

\* What a function that depends on what it declares makes of the variables.
Ran(name, f, env) ==
    [v \in Modules |-> IF v \in f.writes THEN <<name, v, [r \in f.reads |-> env[r]]>> ELSE env[v]]

----------------------------------------------------------------------------
(* Properties                                                              *)

TypeOK ==
    /\ modules \in Modules \cup {None} /\ next \in [Modules -> Modules \cup {None}]
    /\ cursor \in Modules \cup {None} /\ module_count \in -MaxStray .. Len(builtins)
    /\ mods \in [Modules -> Module]
    /\ runtime \in {0, created} /\ owed \subseteq ToSet(builtins)

(* The list ends and holds the built-in modules that were not unloaded,    *)
(* each once, and the count is theirs, but for unloads of modules that     *)
(* were unloaded, which module_manager_get still finds.                    *)
ManagerListIsSound ==
    runtime # 0 =>
        /\ IsInjective(Listed) /\ ToSet(Listed) = ToSet(builtins) \ gone
        /\ module_count = Len(Listed) - stray

(* A module is found by its name, unless one of the same slot was loaded   *)
(* after it, and no other module is found in its place.                    *)
FoundByName ==
    runtime # 0 => \A m \in ToSet(builtins) :
        \/ module_manager_get(m) = m
        \/ /\ module_manager_get(m) = None
           /\ \E k \in ToSet(builtins) : Position(k) > Position(m) /\ Hash[k] = Hash[m]

(* The step that ends a walk over the modules: it has visited every one    *)
(* that was ready and on the list from its beginning to its end, whatever  *)
(* callbacks unloaded on the way (module_interface.c:261-277).             *)
PollIsComplete == cursor # None /\ cursor' = None => owed \subseteq Visited

(* A module of the manager that is ready was initialized since its last    *)
(* cleanup.                                                                *)
ReadyIsInitialized ==
    runtime # 0 => \A m \in Modules :
        (mods[m].rt = runtime /\ mods[m].state = "ready") => mods[m].initialized

(* The node of a reactive variable belongs to the manager's runtime and    *)
(* has the variable's value.                                               *)
NodeShowsVariable ==
    (runtime # 0 /\ ~broken) => \A m \in Modules :
        (mods[m].rt = runtime /\ mods[m].reactive) =>
            mods[m].node = [runtime |-> runtime, value |-> mods[m].value]

(* Functions that may run side by side have the same effect in either      *)
(* order.  Nothing here depends on the state: the first one is enough.     *)
ParallelMeansIndependent ==
    (created = 0 /\ builtins = << >>) => \A f, g \in FunctionNodes :
        LET env == [v \in Modules |-> v] IN
        vm_can_parallelize(f, g) =>
            Ran("g", g, Ran("f", f, env)) = Ran("f", f, Ran("g", g, env))
=============================================================================
