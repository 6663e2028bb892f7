--------------------------- MODULE ModuleRegistry ---------------------------
(***************************************************************************)
(* The registry of native modules (modules/module.c) and the table of      *)
(* native functions it imports them into (loader.c:289-314 and             *)
(* vm.c:48-68).  Loading a module that is loaded adds a reference, giving  *)
(* up the last one runs its cleanup and frees it, and an import loads and  *)
(* keeps its reference.  Both tables are global: a new runtime registers   *)
(* the standard library behind everything registered before.               *)
(***************************************************************************)
EXTENDS Integers, Sequences, SequencesExt, FiniteSets

CONSTANTS
    Modules,            \* names of the native modules a program registers
    Exports,            \* Exports[m]: the functions of module m, in their order
    Stdlib,             \* the functions every runtime registers, in their order
    MAX_NATIVE_FUNCS,   \* 256
    MaxInstances,       \* bound: modules loaded
    MaxReferences       \* bound: references to one module

VARIABLES
    builtins,       \* registered modules
    modules,        \* the list: instances, the one loaded last first
    instances,      \* from the instances not freed to [name, ref_count]
    module_count,
    created,        \* history: instances so far
    given, kept,    \* history: references that callers of module_load have, and imports
    started,        \* history: inits less cleanups of each module
    orphans,        \* history: instances that a shutdown left allocated
    strayed,        \* history: an orphan was unloaded
    natives,        \* g_native_funcs: [symbol, module]
    imported        \* history: what imports reported as done

holding   == <<created, given, kept, started, orphans, strayed>>
registry  == <<builtins, modules, instances, module_count, holding>>
functions == <<natives, imported>>
vars      == <<registry, functions>>

Core == "core"
None == [i \in 1 .. MaxInstances |-> 0]
ModuleInstance == [name : Modules, ref_count : 1 .. MaxReferences]

Init ==
    /\ builtins = {} /\ modules = << >> /\ module_count = 0
    /\ instances = [i \in {} |-> {}]
    /\ created = 0 /\ given = None /\ kept = None
    /\ started = [m \in Modules |-> 0]
    /\ orphans = {} /\ strayed = FALSE
    /\ natives = << >> /\ imported = {}

----------------------------------------------------------------------------
(* The table of functions                                                  *)

\* Faulty variant: what does not fit takes the place of the last entry.
RegisterOverLast(table, entry) ==
    IF Len(table) < MAX_NATIVE_FUNCS THEN Append(table, entry)
    ELSE [table EXCEPT ![Len(table)] = entry]

\* What does not fit is dropped without a word.
vm_register_native(table, entry) ==
    IF Len(table) < MAX_NATIVE_FUNCS THEN Append(table, entry) ELSE table

\* Entries of module m for some symbols, one after the other.
asteron_register_native(symbols, m) ==
    natives' = FoldLeft(LAMBDA table, s : vm_register_native(table, [symbol |-> s, module |-> m]),
                        natives, symbols)

\* The first entry of a name is the one that is found.
vm_find_native(symbol) == SelectInSeq(natives, LAMBDA f : f.symbol = symbol)

\* With a full table there is nothing left that a new runtime would change.
asteron_runtime_create ==
    /\ Len(natives) < MAX_NATIVE_FUNCS
    /\ asteron_register_native(Stdlib, Core)
    /\ UNCHANGED <<registry, imported>>

----------------------------------------------------------------------------
(* The registry                                                            *)

\* A module registered before is left as it is.
module_register_builtin(m) ==
    /\ builtins' = builtins \cup {m}
    /\ UNCHANGED <<modules, instances, module_count, holding, functions>>

Loaded(m) == {i \in ToSet(modules) : instances[i].name = m}

LoadAgain(i) ==
    /\ instances[i].ref_count < MaxReferences
    /\ instances' = [instances EXCEPT ![i].ref_count = @ + 1]
    /\ UNCHANGED <<modules, module_count, created, started>>

\* The module's init succeeds; one that fails leaves nothing behind.
LoadBuiltin(i, m) ==
    /\ m \in builtins /\ i <= MaxInstances
    /\ instances' = [j \in DOMAIN instances \cup {i} |->
                        IF j = i THEN [name |-> m, ref_count |-> 1] ELSE instances[j]]
    /\ modules' = <<i>> \o modules
    /\ module_count' = module_count + 1
    /\ created' = i
    /\ started' = [started EXCEPT ![m] = @ + 1]

\* What module_load returns for m.
Instance(m) == IF Loaded(m) # {} THEN CHOOSE i \in Loaded(m) : TRUE ELSE created + 1

load(m) ==
    /\ IF Loaded(m) # {} THEN LoadAgain(Instance(m)) ELSE LoadBuiltin(Instance(m), m)
    /\ UNCHANGED <<builtins, orphans, strayed>>

module_load(m) ==
    /\ load(m)
    /\ given' = [given EXCEPT ![Instance(m)] = @ + 1]
    /\ UNCHANGED <<kept, functions>>

\* All functions of the module, or one; of an unknown one only the reference
\* to the module is left.
module_import(m) ==
    /\ load(m)
    /\ kept' = [kept EXCEPT ![Instance(m)] = @ + 1]
    /\ \E symbols \in {Exports[m], << >>} \cup {<<s>> : s \in ToSet(Exports[m])} :
          /\ asteron_register_native(symbols, m)
          /\ imported' = imported \cup {[symbol |-> s, module |-> m] : s \in ToSet(symbols)}
    /\ UNCHANGED given

IsLast(i) == instances[i].ref_count = 1

\* What giving up one reference to each of some instances leaves.
Dropped(some) ==
    [i \in {j \in DOMAIN instances : j \in some => ~IsLast(j)} |->
        IF i \in some THEN [instances[i] EXCEPT !.ref_count = @ - 1] ELSE instances[i]]

Ended(some) ==
    /\ instances' = Dropped(some)
    /\ started' = [m \in Modules |-> started[m] -
                     Cardinality({i \in some : IsLast(i) /\ instances[i].name = m})]

\* An orphan is in no list, but counted off.
module_unload(i) ==
    /\ i \in DOMAIN instances /\ given[i] > 0
    /\ Ended({i})
    /\ IF IsLast(i)
       THEN /\ modules' = SelectSeq(modules, LAMBDA j : j # i)
            /\ module_count' = module_count - 1
            /\ strayed' = (strayed \/ i \in orphans)
       ELSE UNCHANGED <<modules, module_count, strayed>>
    /\ given' = [given EXCEPT ![i] = @ - 1]
    /\ UNCHANGED <<builtins, created, kept, orphans, functions>>

\* Every module loses one reference, and the registry forgets them all.
module_system_shutdown ==
    /\ Ended(ToSet(modules))
    /\ orphans' = orphans \cup {i \in ToSet(modules) : ~IsLast(i)}
    /\ LET Left(references) == [i \in 1 .. MaxInstances |->
                  IF i \in ToSet(modules) /\ IsLast(i) THEN 0 ELSE references[i]]
       IN  given' = Left(given) /\ kept' = Left(kept)
    /\ builtins' = {} /\ modules' = << >> /\ module_count' = 0 /\ strayed' = FALSE
    /\ UNCHANGED <<created, functions>>

Next ==
    \/ \E m \in Modules : module_register_builtin(m) \/ module_load(m) \/ module_import(m)
    \/ \E i \in 1 .. created : module_unload(i)
    \/ module_system_shutdown
    \/ asteron_runtime_create

Spec == Init /\ [][Next]_vars

----------------------------------------------------------------------------
(* Properties                                                              *)

\* Every variable holds a value of its C type, within the bounds.
TypeOK ==
    /\ builtins \subseteq Modules
    /\ instances \in [DOMAIN instances -> ModuleInstance]
    /\ module_count \in Int /\ strayed \in BOOLEAN
    /\ Len(natives) <= MAX_NATIVE_FUNCS

\* A module is there as long as somebody has a reference to it, an import or a
\* caller, and goes with the last of them; only shutdown takes a reference
\* from those who have it (module.c:110-115, 223-256).
ReferencesAreCounted ==
    \A i \in 1 .. created :
        LET references == given[i] + kept[i] - (IF i \in orphans THEN 1 ELSE 0)
        IN  references = IF i \in DOMAIN instances THEN instances[i].ref_count ELSE 0

\* The list holds the instances no shutdown has left behind, each name once,
\* and it is counted, until one that was left behind is unloaded.  A module
\* has been initialized and not cleaned up once for each of its instances.
RegistryIsSound ==
    /\ ToSet(modules) = DOMAIN instances \ orphans /\ IsInjective(modules)
    /\ \A m \in Modules :
          /\ Cardinality(Loaded(m)) <= 1
          /\ started[m] = Cardinality({i \in DOMAIN instances : instances[i].name = m})
    /\ ~strayed => module_count = Len(modules)

\* What was imported is in the table, until the table is full: from then on
\* imports succeed without any effect (vm.c:48-56).
ImportsArrive ==
    Len(natives) < MAX_NATIVE_FUNCS => imported \subseteq ToSet(natives)

\* In every step: a name that means a function goes on to mean that function,
\* whatever modules and runtimes register or unload (vm.c:48-68).
NamesKeepTheirMeaning ==
    \A k \in DOMAIN natives : vm_find_native(natives[k].symbol) = k =>
        k \in DOMAIN natives' /\ natives'[k] = natives[k]
=============================================================================
