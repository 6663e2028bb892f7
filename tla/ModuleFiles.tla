---------------------------- MODULE ModuleFiles -----------------------------
(***************************************************************************)
(* Compiled modules and their files (modules/astm.c): the table of the     *)
(* symbols a source declares, exports and imports, and the sections of a   *)
(* .astm file, whose places the header computes from counts.  A record of  *)
(* a file is one cell, and writing may end at any of them: no result of    *)
(* fwrite is looked at.                                                    *)
(***************************************************************************)
EXTENDS Integers, Sequences, SequencesExt, FiniteSets, TLC

CONSTANTS
    Names,          \* of symbols
    Hash,           \* Hash[n]: the bucket of a name
    Sources,        \* each a sequence of declarations in the order of the tree
    MaxReferences   \* bound: references to one module

VARIABLES
    module,     \* the compiled module, as the table of symbols and the code
    file,       \* the .astm file: a header and its sections, or empty
    loaded,     \* the module read from the file
    saved       \* history: the code that the file was last written from, if it was to the end

vars == <<module, file, loaded, saved>>

Buckets == {Hash[n] : n \in Names}

\* Constant strings point into the tree, which is destroyed before the module is returned.
Dangling == "dangling"
Unread   == "unread"

----------------------------------------------------------------------------
(* Symbols                                                                 *)

Listed(table) == UNION {ToSet(table.buckets[b]) : b \in Buckets}

SymbolEntry == [type : {"variable", "function"}, public : BOOLEAN]

SymbolTable(table) ==
    /\ table.buckets \in [Buckets -> Seq(Names)]
    /\ table.entries \in [Listed(table) -> SymbolEntry]
    /\ ToSet(table.exports) \subseteq Listed(table)

symbol_table_create ==
    [buckets |-> [b \in Buckets |-> << >>], entries |-> [n \in {} |-> {}],
     entry_count |-> 0, exports |-> << >>, imports |-> << >>]

symbol_table_lookup(table, n) == \E i \in DOMAIN table.buckets[Hash[n]] : table.buckets[Hash[n]][i] = n

\* A name that is there keeps its entry and its type, whatever is declared.
symbol_table_add(table, n, type) ==
    IF symbol_table_lookup(table, n) THEN table
    ELSE [table EXCEPT !.buckets[Hash[n]] = <<n>> \o @,
                       !.entries = (n :> [type |-> type, public |-> FALSE]) @@ @,
                       !.entry_count = @ + 1]

symbol_table_export(table, n) ==
    IF ~symbol_table_lookup(table, n) THEN table
    ELSE [table EXCEPT !.entries[n].public = TRUE,
                       !.exports = IF Contains(@, n) THEN @ ELSE Append(@, n)]

\* One entry for each module, with every symbol asked of it, as often as it is.
symbol_table_add_import(table, m, symbols) ==
    LET i == SelectInSeq(table.imports, LAMBDA import : import.module = m)
    IN  IF i = 0 THEN [table EXCEPT !.imports = Append(@, [module |-> m, symbols |-> symbols])]
        ELSE [table EXCEPT !.imports[i].symbols = @ \o symbols]

collect_symbols_from_ast(source) ==
    FoldLeft(LAMBDA table, d :
                 IF d.kind = "import" THEN symbol_table_add_import(table, d.name, d.symbols)
                 ELSE symbol_table_add(table, d.name, d.kind),
             symbol_table_create, source)

----------------------------------------------------------------------------
(* Modules and files                                                       *)

NoModule == [symbols |-> symbol_table_create, instructions |-> << >>, constants |-> << >>,
             ref_count |-> 0]

\* The code of a source: an instruction and a constant for each variable.
Variables(source) == SelectSeq(source, LAMBDA d : d.kind = "variable")

astm_compile(source) ==
    [symbols      |-> collect_symbols_from_ast(source),
     instructions |-> [i \in DOMAIN Variables(source) |-> Variables(source)[i].name],
     constants    |-> [i \in DOMAIN Variables(source) |->
                          IF Variables(source)[i].value = "string" THEN Dangling
                          ELSE Variables(source)[i].value],
     ref_count    |-> 1]

\* The symbols in the order of the buckets, of which only the count is ever read.
SymbolCells(table) == FlattenSeq(SetToSeq({table.buckets[b] : b \in Buckets}))

Sections(m) ==
    LET symbols == [symbol_offset |-> 1, symbol_count |-> m.symbols.entry_count]
        code    == [bytecode_offset |-> 1 + symbols.symbol_count,
                    bytecode_size |-> Len(m.instructions)]
    IN  symbols @@ code @@ [const_offset |-> code.bytecode_offset + code.bytecode_size,
                            const_count |-> Len(m.constants)]

Written(m) == <<Sections(m)>> \o SymbolCells(m.symbols) \o m.instructions \o m.constants

\* The header is a cell like the others: without it nothing can be loaded.
astm_save(m, cells) ==
    /\ file' = SubSeq(Written(m), 1, cells)
    /\ saved' = IF cells = Len(Written(m)) THEN <<m.instructions, m.constants>> ELSE << >>

\* What is missing at the end stays what it was in fresh memory.
Section(offset, count) ==
    [i \in 1 .. count |-> IF offset + i <= Len(file) THEN file[offset + i] ELSE Unread]

\* Symbols are skipped: a loaded module declares nothing.
astm_load ==
    /\ loaded.ref_count = 0 /\ file # << >>
    /\ loaded' = [symbols      |-> symbol_table_create,
                  instructions |-> Section(file[1].bytecode_offset, file[1].bytecode_size),
                  constants    |-> Section(file[1].const_offset, file[1].const_count),
                  ref_count    |-> 1]
    /\ UNCHANGED <<module, file, saved>>

astm_free(m) == IF m.ref_count > 1 THEN [m EXCEPT !.ref_count = @ - 1] ELSE NoModule

----------------------------------------------------------------------------
(* Operations                                                              *)

Init == module = NoModule /\ loaded = NoModule /\ file = << >> /\ saved = << >>

\* With a path for its output the module is saved at once.
Compile ==
    \E source \in Sources :
        /\ module.ref_count = 0
        /\ module' = astm_compile(source)
        /\ \/ UNCHANGED <<file, saved>>
           \/ \E cells \in 0 .. Len(Written(astm_compile(source))) :
                  astm_save(astm_compile(source), cells)
        /\ UNCHANGED loaded

Save ==
    /\ module.ref_count > 0
    /\ \E cells \in 0 .. Len(Written(module)) : astm_save(module, cells)
    /\ UNCHANGED <<module, loaded>>

Load == astm_load

Export ==
    /\ module.ref_count > 0
    /\ \E n \in Names : module' = [module EXCEPT !.symbols = symbol_table_export(@, n)]
    /\ UNCHANGED <<file, loaded, saved>>

\* A module of the cache has a reference from it, and one from each user (cache.c:318).
Share ==
    /\ module.ref_count \in 1 .. MaxReferences - 1
    /\ module' = [module EXCEPT !.ref_count = @ + 1]
    /\ UNCHANGED <<file, loaded, saved>>

Free ==
    /\ \/ module.ref_count > 0 /\ module' = astm_free(module) /\ UNCHANGED loaded
       \/ loaded.ref_count > 0 /\ loaded' = astm_free(loaded) /\ UNCHANGED module
    /\ UNCHANGED <<file, saved>>

Next == Compile \/ Save \/ Load \/ Export \/ Share \/ Free

Spec == Init /\ [][Next]_vars

----------------------------------------------------------------------------
(* Properties                                                              *)

TypeOK ==
    /\ module.ref_count \in 0 .. MaxReferences /\ loaded.ref_count \in 0 .. 1
    /\ SymbolTable(module.symbols) /\ SymbolTable(loaded.symbols)
    /\ file # << >> => DOMAIN file[1] = DOMAIN Sections(module)

(* Each name is once in the table, in its bucket, and the count that the   *)
(* sections of the file are placed by is that of the entries; what is      *)
(* exported is public, and once on the list (astm.c:104-188).              *)
TableIsSound ==
    LET table == module.symbols IN
    /\ \A b \in Buckets : IsInjective(table.buckets[b]) /\ \A n \in ToSet(table.buckets[b]) : Hash[n] = b
    /\ table.entry_count = Cardinality(Listed(table)) /\ DOMAIN table.entries = Listed(table)
    /\ IsInjective(table.exports)
    /\ ToSet(table.exports) = {n \in Listed(table) : table.entries[n].public}
    /\ IsInjective([i \in DOMAIN table.imports |-> table.imports[i].module])

(* In every step: a module that is loaded from a file written to its end   *)
(* has the code and constants of the one that was saved (astm.c:482-652).  *)
LoadedIsSaved ==
    astm_load /\ saved # << >> => saved = <<loaded'.instructions, loaded'.constants>>
=============================================================================
