# A TLA+ model of Asteron

Asteron is a programming language with a runtime written in C. This directory
holds TLA+ modules that model the language and the stateful parts of its runtime, TLC
configurations that check them on small instances, and proofs, checked by
TLAPS, that hold for instances of every size. `PROJECT.json` lists the runs,
the mutants that show that every property can fail, the lines of the source
each definition models, the hazards, and the theorems. Paths below are relative
to the repository's `src/`; the line numbers in the modules' comments are too.

    tlc -workers 2 -config Scheduler.cfg Scheduler.tla
    tlc -workers 2 -config Library.cfg MCLibrary.tla
    tlapm OwnershipProofs.tla

(and likewise `SchedulerProofs`, `ChannelProofs`, `ReactiveProofs`, `CodeProofs`,
`DescriptorProofs`, `SnapshotsProofs` and `ListLemmas`; `ReactiveProofs`, the longest,
takes some ten minutes).

## 1. The system and its parts

`compile.sh` builds the files under `src/core`, `src/modules`,
`src/reactive`, `src/scheduler`, `src/graph*`, `src/loader`, `src/sys` and
some others. The files of the same names directly under `src/ast`, `src/lexer`,
`src/parser`, `src/typechecker`, `src/optimizer`, `src/interpreter` and most of
`src/vm` are older copies; the `Makefile` still lists them. The files under
`src/core` are the ones modelled.

A program is lexed, parsed and type checked, then compiled for a stack machine,
which has the tree interpreter run the bodies of functions; execution graphs are
drawn from its AST; the scheduler can run the blocks of such a graph in threads.
Imports go through the loader, a registry of native modules and a cache of
compiled modules. Around this core stand libraries that C code calls: the
borrow checker, regions, snapshots, the lazy evaluator, the reactive engine with its
cluster and WebSocket layers, hot reload, agents and the JITs. Only
`scheduler.c` starts threads; `task_module.c` and `agent_module.c` are written to
be shared by threads of the host.

| Part | State | Operations | Meets | What is hard | What makes it correct |
|---|---|---|---|---|---|
| borrow checker `core/memory/ownership.c` | a table of variables, a list of active borrows, scopes, lifetimes, errors | add_var, borrow, borrow_mut, unborrow, move, drop, enter/exit_scope, new_lifetime, lifetime_valid, verify | called for a program in order of its statements | counters and list describe the same thing twice; chains of moves | one exclusive or many shared borrows; a borrowed value stays; one owner |
| scheduler `scheduler/scheduler.c` | queue, tasks, workers, owners of globals, counters | create, build plan, execute, destroy; the worker loop | main.c, execution graph | threads, a mutex and a condition that not everybody uses | every task runs once; execute and destroy return; no use after free |
| channels and tasks `modules/native/task_module.c` | ring buffer, count, closed, mutex, two conditions; states of tasks | send, recv, try_send, try_recv, close; spawn, cancel; lock, unlock | host threads | blocking, wakeups, operations without the mutex | first in first out, nothing lost, nobody sleeps for ever |
| lexer, parser, type checker `core/lexer`, `core/parser`, `core/typechecker` | position, tree, types | next_token, parse, check_node | each other, compiler | precedence, unknown types, errors inside blocks | the tree is the text; what is accepted does not fail on a type |
| optimizer `core/optimizer` | versions of names, last uses | transform, analyze_liveness | compiler | loops and branches | the last use is the last |
| compiler, VM, interpreter `core/vm`, `core/interpreter` | code, stack, registers, environments | compile_node, one opcode each, interpreter_eval | graphs, natives | jumps, locals and globals of one name, calls of natives | both implementations print the same where they mean to do the same; the stack ends empty |
| AST `core/ast/ast.c` | nodes, strings, annotations | constructors, mark_readonly, destroy | parser, type checker, main.c | shared subtrees, copies | each cell is freed once |
| execution graphs `graph/graph.c` | nodes, edges, marks, plan, profile | build, analyze, plan, record | scheduler | marks one analysis leaves to the next | what the graph says of the program is so |
| unified graph and intents `graph/unified_graph.c`, `core/scheduling/intent_based.c` | nodes, versions, intents | record, create/restore version, declare | VM (in comments) | versions restored to a graph that has grown | history and metrics stay sound |
| module cache `modules/cache.c`, files `modules/astm.c` | hash table and LRU list over shared entries, symbol tables, files | get, put, invalidate, evict; compile, save, load | loader, compiler, the editor of the sources | shared pointers, stale times, truncated files | what is cached is found and saved; what is loaded was saved |
| registry and managers `modules/module.c`, `module_interface.c` | modules, references, natives, reactive variables | register, load, import, reload, unload, poll | reactive engine, VM | references, callbacks that unload | no use of an unloaded module |
| loader `loader/loader.c` | runtime, compiled module, error, strings | compile, execute, make_string | all phases | failures in every phase | nothing is left behind |
| reactive engine `reactive/reactive.c` | a graph of nodes, a dirty queue, a transaction | get, set, recompute, invalidate, propagate, begin/commit/rollback, when blocks, dispose, gc | ws_driver.c, module_interface.c | re-entrance, dynamic dependencies | reads are current, effects follow |
| distributed layer `reactive/distributed.c` | cluster nodes, subscriptions | add/remove node, connect, call, subscribe, propagate | reactive engine | records move under pointers | sockets and subscriptions belong to nodes |
| WebSocket driver `reactive/ws_driver.c` | connection states, clients | accept, connect, send, close, poll, stop | reactive engine, sockets | effects that close sockets in the middle of a poll | every client is polled, each descriptor closed once |
| network natives `net_module.c`, `tls_module.c` | tables of handles | listen, accept, connect, recv_all, http(s)_get, close | the system | a failure in each step | handles and descriptors belong together |
| regions `core/memory/region_memory.c` | regions, the current one, tracked values, io buffer | create, alloc, track, begin/finish_io, freeze, destroy | borrow checker (in comments) | alignment, tracking | blocks are disjoint; what is tracked lives |
| minimal runtime `sys/runtime.c` | bump heap, arena, strings, vectors | init, alloc, string_*, vec_*, arena_*, shutdown | programs without libc | growth, the end of the heap | contents are kept, capacities hold |
| snapshots `core/vm/snapshot.c` | a list of versions, current, reference counts | create, restore, destroy, rollback, eviction | VM | branches in a list that has one next | a value a snapshot holds is alive |
| lazy evaluator `core/lazy/lazy.c` | expressions, cached values, dependencies | force, invalidate, speculate, destroy | VM | cycles, dirtiness raised during evaluation | a cached value is current |
| hot reload `core/hotreload/hotreload.c` | handlers, changes | record, apply, apply_all, clear | callbacks | callbacks that record | the newest change stays in force; pointers into arrays that grow |
| tiered JIT, JIT modules `core/jit/tiered_jit.c`, `modules/jit_module.c` | tables of code, mappings, links, type feedback | record, compile, invalidate, link, inline, deoptimize, OSR | VM | code that others point into | only valid code is linked; code memory has one owner |
| agents `modules/native/agent_module.c` | agents, contexts, messages, a shared space | spawn, export, import, merge, publish, receive, get/set | host threads | who frees a context | one owner per context; messages stay |
| distributed and persistent memory `core/memory/holographic.c` | tables of objects, requests, mappings, registered variables | register, borrow_remote, move, map, save, auto_save, restore | reactive engine, snapshots | several tables tell of one object | addresses are found again; what is saved is not dirty |
| sandbox, declarative graph, self-healing, failure analytics, other natives, tools | | | | stubs, input and output | out of scope, see section 7 |

The components that are not modelled, with the reasons, are in
`PROJECT.json`.

## 2. The modules

| Module | Models | Built on |
|---|---|---|
| `Ownership` | variables and borrows of the borrow checker | |
| `BorrowDiscipline` | what it promises: a readers-writer lock per variable on the value it holds | |
| `OwnershipProofs` | the refinement and the theorems about it; those about `Agents` | `Ownership`, `BorrowDiscipline`, `Agents`, `ListLemmas` |
| `Scheduler`, `SchedulerProofs` | the thread pool; its theorems | |
| `Channel`, `MCChannel`, `ChannelProofs` | channels between threads and the queue they implement; instances; theorems, those about `Tasks` too | |
| `Reactive`, `MCReactive`, `ReactiveProofs` | the reactive engine; its instances; its theorems | `ListLemmas` |
| `Syntax` | values and trees of the language; the parser | |
| `Passes` | the type checker, the optimizer passes, the graphs: operators on trees | `Syntax` |
| `Interpreter` | the bodies of functions | `Syntax` |
| `VM` | the compiler; the stack machine, an action per group of opcodes | `Interpreter` |
| `Pipeline` | main.c: the phases after one another; the properties of the language | `VM`, `Passes` |
| `MCPipeline` | the programs TLC runs | `Pipeline` |
| `Lexer`, `SyntaxTrees` | tokens; the memory of trees | |
| `Lifetimes`, `Regions`, `Snapshots`, `Lazy`, `MinimalRuntime`, `Holographic` | memory | |
| `ModuleCache`, `ModuleFiles`, `ModuleRegistry`, `ModuleManager`, `Embedding` | modules | |
| `Cluster`, `WebSockets`, `Sockets`, `Secured` | the network | |
| `Adaptive`, `UnifiedGraph` | plans, profiles, versions and intents | |
| `HotReload`, `JitModules`, `TieredJit` | code that changes at run time | |
| `Agents`, `Tasks` | agents; tasks and mutexes | |
| `ListLemmas` | lists that are appended to, searched and closed up: lemmas | TLAPS |
| `CodeProofs` | the theorems about `HotReload`, `JitModules`, `ModuleCache` | those, `ListLemmas` |
| `DescriptorProofs` | the theorems about `WebSockets`, `Sockets`, `Cluster`, `Secured` | those, `ListLemmas` |
| `SnapshotsProofs` | the theorems about `Snapshots` | `ListLemmas` |
| `MCLibrary` | the instances of the modules from `Lexer` to `Tasks` above | their modules |

Definitions whose names say what is wrong with them ("Faulty variant" in the
comment above) are no part of the model: they are the bugs that the mutants
plant.

### Ownership

One action per call: `AddVar`, `Borrow`, `BorrowMut`, `Move`, `Drop`,
`Unborrow`. `own` is the table of `OwnershipInfo` records and
`active_borrows` the linked list, newest first, as in the code; both are kept,
because the guards read the counters of the table and unborrow walks the list.
A call that the code refuses records an error (`failed`) and changes nothing
else. `owner_id` names the value a variable owns. Line numbers and
messages are left out. `AddVar` gives every variable a fresh id, as the code's
counter does.

`BorrowDiscipline` does not know tables: every variable holds a value or none and
is a lock with readers, or one writer, or neither; it is given a value, or gives its
own up, only when the lock is free, and no value has two holders. `Ownership` reads
the locks off the *list* of regions, so that
the refinement says something about the counters that the guards rely on. One step
of the code is no step of the discipline, a move into a variable that is borrowed
(`ownership.c:238-239`), which replaces the value under the borrow: `OverwritesBorrowed`
names it, and `ImplementsDiscipline` says that every other one is.

In `Lifetimes`, `current_scope` and the depths of the lifetimes are the code's
state. Which scopes contain each other is history that the code does not keep
(`path`, `home`); the properties compare the code's answer with it.

### Scheduler

The state is that of `Scheduler`: queue, `ready` and `completed` of the tasks,
`completed_tasks`, `shutdown`, `var_access_owner`, `conflict_detected`, and
a program counter per worker and one for the main thread. Steps are cut
where the code takes or gives up `queue_mutex`, and, inside the conflict check,
between the read of an owner and its write, since the mutexes held there belong
to two different tasks. `scheduler_destroy` and a failing `scheduler_create`
set `shutdown` without the mutex; that is a step of its own between a worker's
test and its wait. pthread_cond_wait gives up the mutex and waits in one step and
may wake up spuriously. The JIT branch of the worker is left out: a block of a
plan runs once per execution, below the threshold of five (`src/vm/jit.h:7`). `task_count` and
the contents of blocks are constants: what a task accesses is `Accesses`.

### Channel, Tasks

Every access of a thread to the channel is a step, also under the mutex, because
`try_send`, `try_recv` and `close` do not take it. Call number n sends
the value n; `sent` and `received` record what was stored and loaded. Which
thread calls what is the constant set `Programs`, from which a behaviour picks
one. `count` wraps around like `size_t`, at a smaller modulus.

`Tasks` has the mutexes with the flag beside them, written after locking and
before unlocking, and the tasks: a spawned task is done at once, because nothing
runs it, and `g_next_task_id++` is a read and a write.

### Reactive

The engine has one thread, so that an action is a whole call of its API. What
the call does is a sequence of steps on a stack of the calls it makes in turn (`calls` of
`rt`): `Step` looks at the frame on top and does what the C function does from one
call it makes to the next, `Run256` takes steps until the stack is empty, and the
frames say which loop is where: `invalidate` has the dependents it has still to look at
(`todo`), `announce` (the loop of the commit) and `triggers` a position (`at`), a `compute` or
`condition` frame the position among the sources of its node, and every frame what was
being computed when it was made (`prev`). So the nesting of C, an effect that sets
a state in the middle of a propagation that a read began, is kept as it is, without
recursive operators, which the provers could not use. The history `missed` has the effects
that a change passed over because they were just running (`PassOver`, 348). A call of more than 256 steps is
left out; the calls of the instance end long before.

Compute functions belong
to the client and are modelled by what the repository's own callers do: they
read their sources until one is false, so that dependencies change with
values, and an effect may write a state, with what it read or with false (`Resets`). Effects are created dirty and
are never queued before they have run once; a client runs them by
`reactive_recompute` (`RecomputeNow`).

### The language

A program goes through `Pipeline` in the order of main.c: `ParseSource`,
`CheckTypes`, `Optimise`, `CompileAndStart`, then the steps of the machine, then
`BuildGraphs`. The phases before the machine are operators with the names of the
functions they model, recursive over the tree. A source is a sequence of tokens;
`Lexer` has the texts.

`Syntax` keeps numbers as integers counted in halves: the code has doubles, and
what decides about them is whether a literal is an integer. Its parser carries the
position and `had_error` through its functions. In `Passes` the type checker gives a
type and whether an error was reported anywhere below, and the optimizer has the
versions and the last-use marks of ssa.c. The compiler in `VM` emits the instructions with
their operands, jumps patched to instruction numbers and names resolved by the
table of symbols, which depends on the order of the text. the machine has one action per group
of opcodes over `pc`, `stack`, `locals`, `env` and the function table;
`Interpreter` runs the bodies of functions in one step, because the machine calls it and
waits, with `fuel` (`MaxFuel`) counting calls and iterations: a call that uses it up
counts as one that never returns ("diverged"). `Passes` builds the three
graphs as graph.c does, nodes found again by name, and `Pipeline` computes the
same facts from the tree and from what the machine did.

### The library

Each of these modules is a state machine with an action per call of the
component's API; where a callback of the program may call back in the middle of
an operation (lazy evaluation, hot reload, the poll of module managers and of the
WebSocket server) the operation is cut into steps there, with its loop index
(`i`, `cursor`, `stack`) as state, and the calls a callback may make are enabled in between.
Heaps are functions from the ids of what was allocated and not yet freed; what a
component has freed while something else pointed to it is recorded (`broken`,
`astray`, `strayed`, `aborted`), and nothing is claimed of undefined behaviour.

- `ModuleCache`: entries are addresses, and `next` is *one* function for the hash
  chains and the LRU list, as in `cache.h`. A module is known by the time of the
  source it was compiled from. `cache_get` is cut into the lookup and the `cache_put`
  that follows, because an edit may come in between. A double free sets `crashed`.
- `ModuleFiles`: the symbol table with its buckets, exports and imports; a file is
  a header, from which the code computes where its sections are, and the records
  written, which may end anywhere, since no result of fwrite is looked at.
- `ModuleRegistry`: references to native modules, imports, and the table of native
  functions. `ModuleManager`: the list through the modules' own `next`, the name
  table, one manager after another, and the walk of the poll. `Embedding`: the
  phases of a compilation, each of which may fail, and strings that may hold a NUL.
- `Snapshots`: references of the machine and of every snapshot to string objects;
  the list is the code's `prev`/`next`; what a walk along it meets is the least set
  closed under `next`. `Lazy`: a value is the set of the inputs it was
  made from with their versions, so that a stale one can be told. `Regions`: offsets
  and alignment in bytes, in small numbers. `MinimalRuntime`: memory in cells, with the
  strings' and vectors' growth, strings that are asked for with no room at all, and the end of the heap.
- `Cluster`: nodes in an array whose last element fills a gap; `WebSockets`: what recv
  finds is chosen at the call, and effects may close any socket, also while `ws_connect` or
  `ws_server_accept` is between the nodes it sets (`announcing`); descriptors that another was written
  over are in `replaced`; `Sockets` and
  `Secured`: handles, descriptors and every early return; what a peer does is a choice.
- `UnifiedGraph`: addresses that are used again, edges between them, memory in use, versions that may
  be restored in any order, intents and what is rewritten for SIMD. `Adaptive`: the marks the analyses
  leave on the nodes of given graphs, the plan
  made of them, and the profile. `Holographic`: a table of objects per node, requests that
  nothing answers, machines that are made and destroyed, and persistent variables with their dirty
  marks beside the list of the snapshot manager.
- `HotReload`: changes and handlers, and a stack of the calls of `hotreload_apply_change` and
  `hotreload_record_change` that are under way, each with the capacities of the arrays it has pointers
  into; the callbacks in between may apply any recorded change, record, register and unregister.
  `set_back` has the targets to which a callback gave an older change; reading a pointer into an array
  that has moved ends the behaviour (`broken`).
- `JitModules`: codes with their links, inlined copies and feedback. `TieredJit`: mappings, and
  stacks saved for on-stack replacement; freeing a code that nothing has set may unmap any mapping
  (`strayed`).
- `Agents`: who may free a context; symbols and messages.
- `Lexer`: characters are members of a small set; one step per token. `SyntaxTrees`:
  nodes and strings are cells, each with the node it belongs to.

## 3. The runs

| Run | Instance | Shows |
|---|---|---|
| `ownership` | 3 variables, 2 active borrows | all borrow rules, and the refinement but for one named step |
| `ownership_use_after_free` | 2 variables | *violated*: drop, then move (to itself, in the shortest trace) |
| `scheduler` | 2 workers, 3 tasks, 2 executions, 1 spurious wakeup | no task is lost or run twice; execute returns, with every task completed; nothing in use is freed |
| `scheduler_shutdown_hang` | 2 workers | *violated*: a worker misses the shutdown |
| `channel` | capacity 2, 3 sends, 1 spurious wakeup; 2 producers and 1 consumer, 1 and 2, each with a closing thread; or one thread alone | order, end of file, no lost wakeup |
| `channel_close_hang` | 1 consumer, 1 closing thread | *violated*: a consumer misses the close |
| `reactive` | 2 states, 2 derived values (one from the other), 2 effects that write each other's sources, 1 when block, 2 writes per transaction | values follow the states, and effects but for changes that come while they run |
| `reactive_null_call` | 1 state, 1 function of a module | *violated*: a NULL function is called |
| `language` | some ten thousand programs | parser, type checker, compiler, machine and graphs agree with the text, and with each other where they mean to |
| `language_release` | a loop that reads a string | *violated*: a last use that is not the last |
| `language_recursion` | the factorial of `docs/QUICKSTART.md` | *violated*: the recursion does not end |
| `library` | 32 instances of 24 modules | their structures stay sound under every sequence of operations |

### What the properties say

*scheduler*: `TasksRunOnce` joins that no task is run twice or dropped, that the queue
holds what is counted, and that a worker holds what left it; `ReturnsWhenIdle` that
execute returns only with the completed flag of every task set, and that every worker has
ended, or was never started, when what it uses is freed. (A later execution finds flags and
counter as the first one left them and returns at once, with its tasks in the queue, and a worker
that has counted its task may still be on its way back to the queue.) `NoFalseConflict` says that a conflict is reported only where two tasks share a
variable.

*language*: `ParsedIsWritten` writes the tree out again by the rules of precedence and compares it
with the text. `CheckerIsSound` and `VMAgreesWithInterpreter` compare the type checker with
the machine, and the machine with the interpreter, on the programs of which the two
implementations mean to do the same. On others they differ, and `Comparable` leaves those out and says
which: a function named as a value is found by the interpreter only (`interpreter.c:597-640`), which declares
functions as it comes to them, while the machine does before it starts and skips those in a `for`; nil counts as zero in the sums of the interpreter only,
a variable that is read above its declaration is a global of the machine, and natives take what is on the
stack. `GraphsTellThePrograms`
holds the graphs against the tree and against what the machine did.
`ReleasedOnceOutsideLoops` is what is left of `ReleasedOnce`, which `language_release`
refutes. `ProgramsEnd`: what the interpreter gets to the end of, the machine does.

*library*: a property is a conjunction over the components, grouped by what can go wrong
(`ListsAreSound`, `NothingFreedIsUsed`, `DescriptorsAreOwned`, `CountsAreRight`,
`NothingStaleIsUsed`, `NothingIsLost`, `LimitsAreKept`, and the action property
`StepsKeepPromises`); the comment above each conjunct in `MCLibrary` says what it claims
of which lines. Where the code breaks a promise in one known way, the promise is
stated except for that way, and the exception is in section 5.

### Why the bounds are enough

*Ownership*: three variables give chains and would-be cycles of moves, with a
variable that is redeclared; two regions give two readers of one variable, a
reader and a writer, and regions of two variables interleaved in the list. The
proofs have no bound. *Scheduler*: two workers race in every pair of steps of the
worker loop; three tasks make one worker take a second task while the other still
runs its first; two executions queue completed tasks again. *Channel*: capacity 2
and three sends fill the ring, make a sender wait and wrap both indices; two
threads on one side compete for a wakeup. *Reactive*: a derived value
that reads another, an effect that copies one state into the other and one that follows the derived
values and resets the first, so that each changes what the other reads while that one runs,
a second write in a transaction, and a when block that writes. The client disposes of one
effect only (`Disposable`), which both reads and writes states. The
effects of this instance have no user data: one that has is evaluated again by
every `reactive_check_triggers`, which would hide an invalidation that was missed;
`reactive_null_call` has one with.

*Language*: all expressions of up to two operators over a number, a half, a string
and a boolean put every pair of precedences and of operand types side by side.
Programs of three statements declare, use or change, and use again, in every
combination of declaration, assignment, condition, loop, function and
call; those of `Limits` have more names than registers (`NumLocals` is 4; 32 in the code), a native that
takes what the stack holds, and a function as a value. Loops count to three,
so that `MaxFuel` = 30 is met only by what does not end.

*Library*: the components share no state, so that one behaviour is one of one
component: `component` names it, the variables `v1` to `v14` are its own, and the
states of the run are those of the components added up. Hot reload starts with arrays of one element, so that a callback's record or
registration moves them. Two elements of each kind
(nodes, handles, modules, agents) and one more than fits into each table make
every removal from the middle, reuse and overflow happen: for instance two cached
entries with three keys, two of them in one bucket; two kept snapshots of four;
four descriptors for a table of two; a buffer of 4 filled in chunks of 2 by up to 9;
a native table of 3 for functions registered twice. `ModuleCache`, `Lazy`, `TieredJit`,
`MinimalRuntime`, `Agents` and `Holographic` have two instances each, and `UnifiedGraph` three,
since these parts never meet (three keys, and two with edits and expiry up to `MaxTime` = 3; evaluation and
speculation; code and stacks; strings and the arena; contexts and the shared space; the distributed machine and persistent memory; versions,
intents, and metrics with edges).

Bounds on calls (`MaxSends`, `MaxExecutes`, `MaxChanges`, `MaxSpurious`, `MaxTime` and the
constants marked "bound" in each module) are guards of the client's actions, never of
the code's own steps.

### Fairness

Weak fairness is assumed of the steps of threads that have begun a call: the
operating system runs a thread that can run, and a mutex that is free is
eventually taken. In `Channel` consumers are fair in calling `recv`
again, because the documented use is a loop (`docs/STDLIB.md:240-244`); nobody
is assumed to send or to close. In `Scheduler` the workers are fair, and the
main thread within a call. Spurious wakeups are never assumed to come. `Pipeline` assumes
that the machine goes on as long as it can: nothing runs beside it. `MCLibrary` assumes
no fairness and claims no liveness.
`CHECK_DEADLOCK FALSE` is given where the system may stop: a destroyed scheduler,
a channel whose threads have finished or wait, a program that has ended, a
component at its bounds. Liveness
under `EverythingIsReceived` and `SendReturns` is claimed for programs that use
only the blocking operations and as long as nobody closes.

## 4. What is proved

Seven modules of theorems and one of lemmas, for every value of the constants that the
assumptions allow. In each of them the invariants of interest are not inductive, and the part
on a component begins with the invariant that is, which TLC also checked on small
instances; the proof has one lemma per action or per step. A theorem whose name is
not that of the definition it is about has the definition behind it below.

**Borrow checker** (`OwnershipProofs`; any number of variables and borrows; assumed is only
that both are numbers).

- `TypeCorrect`: the type invariant; no counter goes below zero.
- `OneExclusiveOrManyShared`, `CountersAgree`, `NoDanglingBorrow`, `OneOwner`: the
  invariants `ExclusiveBorrow`, `CountsMatchRegions`, `BorrowedIsOwned` and `UniqueOwner`.
- `MovedChains`: `MovedChainEnds`. `BorrowPins`: the action property `BorrowPinsState`.
- `Refinement`: `ImplementsDiscipline`: every step of `Ownership` but `OverwritesBorrowed` is a step of
  `BorrowDiscipline`, or leaves its state alone.

A borrow is granted by a counter, and the rule is
about the list. `IInv` therefore joins the type
invariant with the four rules, and rests on lemmas on what `Append`-like and
`Unlink` steps do to the number of regions of a variable: after `Unborrow` the
counters still count the list because the newest region of an exclusively
borrowed variable is its only one. `UniqueOwner` needs that ids are fresh and
that the source of a move stops owning in the same step. `MovedChains` argues
on sets: a set of moved variables closed under `moved_to` after a move contains
neither the source (whose target owns) nor the target, so it was closed before.
`Refinement` uses `IInv` to translate each guard on counters into a guard on
regions, one step per action.

**Agents** (in `OwnershipProofs`; any bounds, no assumption).

- `EveryContextHasItsOwner`: `ContextsHaveOneOwner`. `SymbolsAreTheirOwners`: the action
  property `SymbolsKeepTheirOwner`.

`AgencyInv` adds that a context given out is a new one; `SpaceInv` that no key is
twice among the symbols, without which the version of a symbol would tell nothing.

**Scheduler** (`SchedulerProofs`; any number of workers, at least one, of tasks and of
executions, and any accesses to globals: `CountsAssumption`, `AccessesAssumption`).

- `TypeCorrect`, and `TasksRunOnceHolds`, `ReturnsWhenIdleHolds`, `NoFalseConflictHolds`: the
  three safety invariants of the run `scheduler`.

`IInv` says by the place of each worker who holds `queue_mutex` and the mutexes of tasks,
that a task has run exactly when it is completed or locked, and, of every task
that was queued, that it is completed, in the queue or in the hands of a worker
(`TasksPlaced`). Without the last one, execute's count of completed tasks would say nothing
about which tasks they are, and a second execution could return early.

**Channel** (`ChannelProofs`; any capacity, number of threads and of values).

- `TypeCorrect`: for every sharing, so that the indices stay inside the buffer also when
  `try_send` and `try_recv`, which take no mutex, race with the others.
- `ChannelIsQueue`, `EofIsFinal`: `FirstInFirstOut` and `EofMeansDrained`, and
  `ChannelImplementsQueue`: the refinement `ImplementsQueue`, when the channel is
  `Disciplined`: shared by threads that use `send`, `recv` and `close`, or used by one thread
  alone. The code offers no more: beside a thread that holds the mutex the other two
  operations lose and duplicate values. That the programs of the run are disciplined is checked
  there (`ProgramsAreDisciplined`).

`IInv` says that one thread at a time is inside the channel, and gives `head`, `tail` and
`count` as functions of the values stored and loaded so far and of the step that thread
is at; that slots of different pending values differ is arithmetic of remainders (the first
lemmas). `EofIsFinal` holds although `close` takes no mutex, because who is about to report the end
has seen the count at zero under it. The refinement maps the buffer to the queue of the values
stored and not yet loaded, read from the slots where they lie: a store is a `Put`, a load a `Take`, and the
steps in between, of indices, count and wakeups, leave the queue as it is.

**Tasks** (in `ChannelProofs`; any threads; the number of tasks is a number).

- `FlagIsTheHolders`: `FlagTellsHolder`. `DoneIsDone`: the action property `TasksStayDone`.

**Reactive engine** (`ReactiveProofs`; any acyclic graph with any functions of the kind of
section 2, any writes of effects and when blocks, any capacity of the queue; assumed is
what `Reactive` assumes of a client, `NodeAssumption`, `ClientAssumption`, `BoundAssumption`).

- `TypeCorrect`: `TypeOK`. `LinksStayAlike`: `LinksAgree`. `DerivedStaysCurrent`: `DerivedCurrent`.
- `RollbackGivesBack` and `OnceIsOneCall`: the action properties `RollbackRestores` and
  `OnceFiresOnce`.

An action is a whole call, and its steps go through states in which hardly anything that
one wants is true: dependents that were not told yet, nodes half computed. `Sound` is what every
*step* keeps; that a call keeps it follows for as many steps as there are (`RunKeeps`). It says
that each frame of the stack fits the one below (`Stacked`): while a derived value or a
condition is being evaluated nothing runs but what evaluates derived values, of ever lower rank, and
so nothing is written, and the function that reads half its sources before and half after a
nested computation reads one state of the graph. It says what is due to which frame
(`Accounted`), and of a derived value that is clean (`Derivation`) that it has, as dependencies that
are clean themselves, the sources up to one that decided it, and the value of that one, unless
invalidation has it still before it or one of them is a state whose change was not
told (`Untold`: the open transaction, the rest of a commit, what a transaction that was aborted
wrote). `LinksAgree` is needed for it, since invalidation goes along the dependents. `DerivedCurrent` follows
by the rank of the values: `Current` is defined by recursion, and both that such a function exists
and that the clean values agree with it are shown by a least counterexample. That the queue
has forgotten a node does no harm to reads, as the node stays dirty.

`Restorable` says what the values and the previous values of the states are during a
transaction; `FiresOnce`, that a when block that has fired is marked or has its mark on the stack, and
that outside a call of `reactive_check_triggers` two of its loops never run inside each other.

**Hot reload** (`CodeProofs`; any targets, handlers and bounds, callbacks nested to any depth, under
`CapacitiesAreNumbers`: the capacities at first are numbers).

- `NewestWins` (`NewestStaysInForce`): only a callback that itself applies an older change than its
  target is at can leave that in force. `FirstRegisteredFirst` (`HandlersKeepTheirOrder`): a
  registration goes to the end of the list, and the handler that is applying a change is the longest
  registered that accepts it. `GrowthMovesArrays` (`BrokenByGrowth`): a kept pointer dangles
  only when an array has grown.

`IInv` adds that the changes are listed in the order of recording, that every call under way is about a
change that was recorded, and that the loop has given
each target at least the newest of the successful changes behind its index, which an append in a
callback does not disturb.

**JIT modules** (in `CodeProofs`; any functions, tiers and bounds, under `CallsAreTyped`: a
call is the types of its arguments and of its result, the bounds are numbers).

- `StableCallsAreAlike` (`StableMeansAlike`), `LinksLeadToCurrentCode` (`LinksAreCurrent`),
  `InlinedCodeIsWatched` (`InlinedIsWatched`).

Stable types are about the calls from the first with arguments on (`seen`): `f()` and then `f(1)` leave `f`
stable. A code never leaves its place in the table, and the first code of a name stays the first, so
that what a link leads to is a matter of that code only: whatever gives it up cuts the links to it.

**Module cache** (in `CodeProofs`; any keys, hash function and times, under `HasRoom`: it has room
for one entry at least, and there is a time).

- `ListHoldsTheEntries` (`LruWellFormed`), `BucketsLeadToEntries` (`NoDanglingBucket`),
  `KeysAloneAreFound` (`LookupIsExact`), `WorkIsNotLost` (`NoLostWork`).

The hash chains and the LRU list share `next`. `CacheInv` has as a witness the order of the LRU
list, from which all its pointers follow, and says of a bucket only which entry it leads to first:
behind that one a walk of the bucket continues in the LRU list. What these walks reach is a recursive
function of the number of steps, whose values along the order are found by induction on it.

**Descriptors** (`DescriptorProofs`). Four components keep tables of sockets, each with an invariant of
its own; the hypothesis of each is about its constants, and `MCLibrary` has TLC evaluate it for
the run's instance.

- *WebSocket driver* (any sockets, clients and descriptors, under `SocketsAreDistinct`: what the
  server accepts is not what the program creates, and descriptors are not negative): `TypeCorrect`,
  `OneSocketPerDescriptor` (`DescriptorsAreOwned`), `NoClientIsLeftOut`
  (`EveryClientIsPolled`), `NodesAreCurrent` (`NodesTellTheState`). An open descriptor has one owner unless
  it was written over, which `ws_connect` and `ws_server_listen` do not look out for; the nodes
  are behind in three cases, which the property names: a failed connection, a client that effects
  closed before its node was told that it is open, and the number of clients after a stop. `NoClientIsLeftOut`
  needs that every client before the index has been polled, which
  a removal keeps because the index then stays and those behind it move up by one.
- *TCP natives* (`Sockets`; tables and buffers of any size, under `TableIsSound`: a piece fits the first
  buffer): `TcpTypeCorrect`, `OneHandlePerDescriptor` (`DescriptorsAreOwned`),
  `NoHandleIsLeftBehind` (`HandlesAreGiven`), `StatsAreOfTheConnection` (`StatsTellTheConnection`),
  `ReceivingIsBounded` (`ReceivingIsTimely` and `ReceivedFits`). `TcpInv` says what a call that waits in the
  middle of `tcp_recv_all` still owes to the table and to its buffer.
- *Cluster* (any ids and sockets, under `ClusterIsSound`: sockets are not negative, and no id is that
  of an outcome): `OneNodePerSocket` (`SocketsAreOwned`),
  `CallsFindTheirNode` (the action property `CallsGetThrough`), `SubscriptionsCount`
  (`SubscriptionsAreCounted`). The last node of the array fills the gap that a removed one leaves, so that
  places say nothing: what must differ, and does, are the ids.
- *TLS* (`Secured`; under `TableIsSound`): `TlsLeaksNothing` (`NothingIsLeaked`), `TlsHandlesAreTheScripts`
  (`HandlesAreGiven`), `TlsAnswerFits` (`AnswerFits`), `TlsIsSecure` (`SecureMeansSession`). `TlsInv` gives
  what an attempt to connect holds as a function of the phase it is in, which is why what a phase
  frees when it fails is all there is.

**Snapshots** (`SnapshotsProofs`; any objects, finitely many locals, any limits, under
`ProgramIsSound`, which `MCLibrary` has TLC evaluate).

- `TypeCorrect`; `CopiesAreCovered`: `HeldIsCounted`; `NothingFreedIsHeld`: the guard with which the
  model stops at undefined behaviour stops nothing as long as no object is RELEASEd more
  often than it is stored.
- `ListStaysSound`: `ListIsSound`; `CurrentCanBeFound`: `CurrentIsListed`.

That a count covers the copies is not inductive: a restore could use up the difference. `IInv`
is an equation: the count of an object is the number of its copies in the locals, on the
stack and in every snapshot of the heap, listed or not, plus the stores not yet RELEASEd. The
copies are counted as a set of places, so that adding and evicting a snapshot are unions
and differences of disjoint sets. `ListInv` names the sequence of the snapshots listed, from which the
pointers and the count follow; what a walk meets is defined as the least set closed under `next`, which
makes it the elements of that sequence.

The theorems about library modules are about conjuncts of the properties of the run `library`
(`Snapshot!HeldIsCounted` in `NothingFreedIsUsed`, for instance), which thereby are proved of every
instance and checked on one; all conjuncts of its `DescriptorsAreOwned` are among them.
`ListLemmas` has what the proofs share: lists that are appended to, searched and closed up.

**Only model-checked.** All liveness (`ExecuteTerminates`, `SendReturns`, `EverythingIsReceived`,
`ProgramsEnd`), since fairness and ENABLED are beyond the prover.
Everything about the language, `Regions` and `SyntaxTrees`: their operators are RECURSIVE, over trees
and lists, and so is everything in the modules that compose the library and the language,
`MCLibrary` and `Pipeline`. `ModuleRegistry`, `ModuleFiles`, `Adaptive` and others that go through
lists with `SelectSeq` or folds, of which the provers know nothing. `EffectsSettled` of `Reactive`: it is
stated of effects that no change has passed over while they ran, and needs a queue with room for
every node (section 5). The
refutations of section 3, which are TLC's. `Lifetimes`, `Lazy`, `TieredJit`,
`MinimalRuntime`, `ModuleManager`, `Holographic`, `UnifiedGraph` and the other modules of the library have no
theorems.

## 5. Known limits of the code, found while modelling

Shown by a run: the six violations of section 3. Also met in the source, and
not given a run; where a property makes an exception for one, its comment says so.

Borrow checker, scheduler, channels and tasks

- `borrow_checker_move` overwrites a target that is borrowed
  (`ownership.c:238`), under the borrow; no code raises `OWN_ERR_MODIFY_WHILE_BORROWED` (`ownership.h:180`).
- `borrow_checker_lifetime_valid` takes sibling scopes of one depth for nested
  ones (353) and a static inner lifetime for valid anywhere (335).
- `borrow_checker_exit_scope` drops nothing, though `ownership.h:12` says a
  value is freed when its owner leaves its scope.
- The scheduler never fills in the dependencies of tasks (`scheduler.c:107-124`);
  `main.c:504` keeps it switched off. Two workers can miss a conflict on a global,
  whose owner is read and written under the mutexes of two tasks (256-263).
- `try_send` and `try_recv` (`task_module.c:255-290`) change `count` beside
  threads that hold the mutex, and `try_send` wakes no consumer.
- `task.spawn` runs nothing and is done at once, so that `cancel` never succeeds.

Modules

- The hash chain and the LRU list of the cache share `entry->next`: a lookup misses
  older entries of a bucket and compiles them again (`cache.c:346`).
- `cache_clear` and `cache_destroy` (`cache.c:393`, 216) follow the LRU list from
  every bucket and free entries twice when two buckets are in use.
- The times that decide whether a module is current are taken after its
  compilation (`cache.c:338`) and at its saving (`astm.c:694`).
- String constants of a compiled module point into the tree that `astm_compile`
  destroys (`compiler.c:130-132`, `astm.c:477`); a loaded module has no symbols and no
  variable names; a short file is accepted when its header is whole; the ninth
  symbol imported from one module goes past its array.
- A module manager overwrites a taken slot of its name table, counts down at each
  unload of an unloaded module and makes one that is reloaded ready without
  listing it; setting a reactive variable after its manager is destroyed uses the
  freed runtime.
- Shutting down the registry takes one reference from modules that are still
  referenced and forgets them; imports never give their reference back; natives
  beyond 256 are dropped while `ASTERON_OK` is returned, and every runtime
  registers the standard library again.
- The loader's `last_error` leaks and stays after a success; `execute` sets no result.

The language

- The type checker takes an unknown `+` for a string, so that `i + 1 < 3` is
  rejected, and treats int against float differently from float against int.
- The parser forgets errors inside blocks (`parser.c:396`) and drops the annotations a
  declarative graph needs (341, 352), against `tests/test_declarative.ast:7-12`.
- A function as a value (`let g = f; g(1)`) works in the interpreter and gives nil in the machine, and
  there are the other differences that `Comparable` names.
- Functions run by the interpreter do not see the machine's locals; parameters overwrite
  variables of the caller; the interpreter has no assignment and no call as a statement.
- A native takes what the stack holds up to its `max_args`: `print(1 + sum(1))`
  stops with an error. Unknown functions and expression statements leave values on the stack.
- `x = 0` makes a global; a `while` that tests it and whose body says
  `let x = x + 1` loops for ever. A return outside functions does nothing.
- More than four parameters or 32 names go past an array or stop the machine.
- Graphs: `let x = 1; print(x)` reports `x` unused; calls inside print, return,
  conditions and assignments are not in the call graph; a second analysis calls
  assigned variables constant (`graph.c:1180`); function bodies lie on the main flow.
- `main.c:357-374` uses names declared at 439-440, and includes a header that is not in
  the repository.
- The lexer does not count a line end escaped in a string. `ast_import` and
  `ast_assignment` copy strings that the parser then leaks.

Reactive engine, cluster, network

- `reactive_transaction_rollback` restores the value before the *last* write of a
  state (`reactive.c:464`) and leaves values derived inside the transaction.
- A change that reaches an effect while it runs, from its own write or what that sets off, does not run it
  again (348): it stays clean with what it saw.
- Effects made without user data never run before somebody calls
  `reactive_recompute`: they start dirty, and only clean nodes are queued (348).
- What a when block's body invalidates waits for the next propagation; a node that
  does not fit into the queue is dropped (352); dispose compacts the array it
  walks over (527).
- The cluster sends nothing yet; subscriptions outlive nodes, and a disconnected local node
  cannot be connected again.
- `ws_connect` on an open socket and `ws_server_listen` on a server that listens write over the
  descriptor, which nothing closes any more (`ws_driver.c:129`, 374).
- A WebSocket whose connection fails leaves its node at CONNECTING; a client that an effect of the number of
  clients closes is announced as open afterwards (449-455); stopping the server from an
  effect during its poll uses freed clients.
- `listen` and `accept` drop the descriptor when the table is full;
  the NUL of `tcp_recv_all` lies one past a buffer that ends exactly full.
- `https_get` leaks its host, its request and every chunk, and has no limit of time.

Memory and code

- A machine restored to before a RELEASE it has run releases twice; STORE_LOCAL
  retains once too often; evicting the oldest snapshot while it is current leaves
  the list without its current one (`snapshot.c:242`).
- A value tracked twice by regions is freed twice; the string of `region_finish_io` is
  freed as an allocation of its own; a destroyed region may stay current.
- An invalidation during an evaluation is lost (`lazy.c:159-162`), and never ends on a
  cycle; speculation followed by destruction frees one value twice.
- In the minimal runtime a new arena block ignores the alignment asked for, a string of
  capacity zero writes its NUL one past its memory, and with `panic_on_oom` off strings and vectors
  write at NULL.
- `hotreload_apply_all` applies again what is still recorded; when the newest change
  fails, its target goes back to an older one. `hotreload_apply_change` takes any change, older ones too. A
  callback that records or registers beyond the capacity moves the array into which its caller has
  pointers (`hotreload.c:109-131`, 207-213).
- Nobody calls the tiered JIT; new entries leave their codes uninitialised (`tiered_jit.c:46-70`), so that freeing
  one unmaps whatever its bytes say (439-454); compiling again loses a mapping, and on-stack replacement restores values without references.
- JIT modules look functions up without the module's name; code compiled at a higher
  tier is never found, nullary functions never count as type-stable, and a first call with arguments makes it
  forget the calls without.
- Removing an agent frees a pointer into an array; `receive` never advances; symbols that are removed and
  set again restart their version.
- Restoring a version of the unified graph reads past it when nodes were added since;
  rebuilding frees nodes that intents point to.

## 6. What could follow

Done: the models of the components listed in section 2, their runs, and the proofs of
section 4. What a next step could be:

1. An abstract pool of tasks that `Scheduler` implements, with the invariants already proved.
2. The library modules without theorems whose operators are not recursive: `Lazy`, `TieredJit`,
   `ModuleManager`, `Holographic`, `UnifiedGraph`.
3. A proof of `EffectsSettled` under the assumption that the queue holds every node.
4. Scopes composed with variables: `Lifetimes` beside `Ownership`.
5. `Reactive`: `reactive_gc`, disposal of nodes with dependents; its
   composition with `ModuleManager`, which is its client.

## 7. What is not modelled, and why

- Floating point numbers as such: prediction models, scores, times.
- Of holographic memory: serialized addresses, the cache of remote objects, and the network
  callbacks, which nothing sets.
- Of the unified graph: the models that predict load (`create_prediction_model` writes through NULL and
  nothing calls it) and the schedule, which change no state that anything reads.
- Machine code: `core/jit/jit.c`, and what the JITs' code does once it is mapped.
- Wrappers of single calls of the system: files, processes, clocks, mathematics.
- Components that are stubs or that nothing can reach: the sandbox's `enter` and `exit` copy
  a pointer; the declarative graph finds no annotations; `self_healing.c` does not
  compile; the detectors of failure analytics return nothing.
- Output: printing, the visual debugger, servers for tools, statistics.
- The arena at `ownership.c:390-487`, prefetching, `reactive_gc`, and array growth that
  only keeps what is there.
- Failing allocation, except in `MinimalRuntime` and for threads in `Scheduler`.
