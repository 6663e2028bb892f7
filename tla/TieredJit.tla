----------------------------- MODULE TieredJit ------------------------------
(***************************************************************************)
(* The tiered compiler (core/jit/tiered_jit.c): its table of functions     *)
(* with the executable code made for them, and on-stack replacement, which *)
(* saves the locals and the stack of a machine and puts them back.  What   *)
(* the code does is abstracted to the memory it is mapped in.              *)
(***************************************************************************)
EXTENDS Integers, Sequences, FiniteSets, FiniteSetsExt

CONSTANTS
    Functions,      \* their names
    BASELINE_HOT_THRESHOLD,     \* 3
    MaxCalls,       \* bound: calls recorded for a function
    MaxMappings,    \* bound: mappings made
    Objects,        \* the strings a program makes
    Locals,         \* the locals in use, of 32
    MaxStack, MaxReferences     \* bounds

VARIABLES
    jit_functions,  \* from the functions recorded to their JitFunctionInfo
    mapped,         \* the mappings that are there
    mappings,       \* how many were made
    overwritten,    \* history: mappings whose entry was compiled again, or reset
    strayed,        \* history: mappings unmapped by freeing a code that had another address
    locals, stack,  \* of the machine
    refs,           \* ref_count of the strings; zero before and after their life
    made,           \* history: the strings made so far
    frame,          \* an OSRFrame, or NoFrame
    surplus         \* history: references to a string that no place accounts for

tableVars   == <<jit_functions, mapped, mappings, overwritten, strayed>>
machineVars == <<locals, stack, refs, made, frame, surplus>>

Interpreted == 0
Baseline    == 1
Optimizing  == 2
Tiers       == {Baseline, Optimizing}

NoCode  == 0
Unknown == -1       \* is_valid of an entry that malloc left non-zero
NoFrame == [locals |-> << >>]
NIL     == "nil"

----------------------------------------------------------------------------
(* The table.                                                              *)

\* A new entry sets everything but its codes.
FunctionInfo(codes) ==
    [call_count |-> 0, is_hot |-> FALSE, is_type_stable |-> FALSE,
     needs_recompilation |-> FALSE, current_tier |-> Interpreted, code |-> codes]

CodesOf(functions) == {jit_functions[c[1]].code[c[2]] : c \in functions \X Tiers}

\* The table with an entry for f.
create_function_entry(f, codes) ==
    [g \in DOMAIN jit_functions \cup {f} |->
        IF g \in DOMAIN jit_functions THEN jit_functions[g] ELSE FunctionInfo(codes)]

tiered_jit_record_call(f) ==
    /\ f \in DOMAIN jit_functions => jit_functions[f].call_count < MaxCalls
    /\ \E codes \in [Tiers -> {NoCode, Unknown}] :
          LET entries == create_function_entry(f, codes)
              count == entries[f].call_count + 1
          IN  jit_functions' = [entries EXCEPT
                  ![f].call_count = count,
                  ![f].is_hot = @ \/ count >= BASELINE_HOT_THRESHOLD]
    /\ UNCHANGED <<mapped, mappings, overwritten, strayed>>

\* Compiled into the entry that get_function_info returned, whatever code
\* the entry had.
tiered_jit_compile(f, tier) ==
    /\ f \in DOMAIN jit_functions /\ mappings < MaxMappings
    /\ mappings' = mappings + 1
    /\ mapped' = mapped \cup {mappings + 1}
    /\ overwritten' = overwritten \cup ({jit_functions[f].code[tier]} \cap mapped)
    /\ jit_functions' = [jit_functions EXCEPT ![f].code[tier] = mappings + 1]
    /\ UNCHANGED strayed

\* A code that was never made, of an entry that malloc left non-zero, is
\* unmapped like any other: at whatever address it has, where anything may be.
\* So is one whose mapping is no longer there.
tiered_jit_free(codes) ==
    \E hit \in SUBSET (mapped \ codes) :
        /\ codes \subseteq mapped \cup {NoCode} => hit = {}
        /\ mapped' = mapped \ (codes \cup hit)
        /\ strayed' = strayed \cup hit

tiered_jit_invalidate(f) ==
    /\ f \in DOMAIN jit_functions
    /\ tiered_jit_free(CodesOf({f}))
    /\ jit_functions' = [jit_functions EXCEPT
          ![f].code = [tier \in Tiers |-> NoCode], ![f].current_tier = Interpreted,
          ![f].needs_recompilation = TRUE, ![f].call_count = 0]
    /\ UNCHANGED <<mappings, overwritten>>

tiered_jit_cleanup ==
    /\ tiered_jit_free(CodesOf(DOMAIN jit_functions))
    /\ jit_functions' = << >>
    /\ UNCHANGED <<mappings, overwritten>>

\* init again, on a table in use, forgets it.
tiered_jit_init ==
    /\ overwritten' = overwritten \cup (mapped \cap CodesOf(DOMAIN jit_functions))
    /\ jit_functions' = << >>
    /\ UNCHANGED <<mapped, mappings, strayed>>

TableStep ==
    \/ \E f \in Functions :
          \/ tiered_jit_record_call(f) \/ tiered_jit_invalidate(f)
          \/ \E tier \in Tiers : tiered_jit_compile(f, tier)
    \/ tiered_jit_cleanup \/ tiered_jit_init

----------------------------------------------------------------------------
(* The machine: see VM for the instructions.                               *)

Times(o, values)   == Cardinality({k \in DOMAIN values : values[k] = o})
Retained(r, values) == [o \in Objects |-> r[o] + Times(o, values)]
Released(r, values) == [o \in Objects |-> r[o] - Times(o, values)]
Top   == stack[Len(stack)]
Below == SubSeq(stack, 1, Len(stack) - 1)

LoadConst ==
    /\ Len(stack) < MaxStack
    /\ \E o \in Objects \ made :
          /\ made' = made \cup {o}
          /\ refs' = Retained(refs, <<o>>) /\ stack' = Append(stack, o)
    /\ UNCHANGED <<locals, frame, surplus>>

LoadLocal ==
    /\ Len(stack) < MaxStack
    /\ \E k \in Locals : refs' = Retained(refs, <<locals[k]>>) /\ stack' = Append(stack, locals[k])
    /\ UNCHANGED <<locals, made, frame, surplus>>

\* It keeps the stack's reference and takes another.
StoreLocal ==
    /\ stack # << >>
    /\ Top \in Objects => surplus[Top] < MaxReferences
    /\ \E k \in Locals :
          /\ refs' = Retained(Released(refs, <<locals[k]>>), <<Top>>)
          /\ locals' = [locals EXCEPT ![k] = Top]
    /\ surplus' = Retained(surplus, <<Top>>)
    /\ stack' = Below
    /\ UNCHANGED <<made, frame>>

Pop ==
    /\ stack # << >>
    /\ refs' = Released(refs, <<Top>>) /\ stack' = Below
    /\ UNCHANGED <<locals, made, frame, surplus>>

----------------------------------------------------------------------------
(* On-stack replacement.  The stack is saved with references of its own,   *)
(* the locals without.                                                     *)

tiered_jit_prepare_osr ==
    /\ frame = NoFrame
    /\ frame' = [locals |-> locals, stack |-> stack]
    /\ refs' = Retained(refs, stack)
    /\ UNCHANGED <<locals, stack, made, surplus>>

\* An empty stack was not saved, and is not restored either.
tiered_jit_perform_osr ==
    /\ frame # NoFrame
    /\ \A o \in Objects : surplus[o] + Times(o, locals) <= MaxReferences
    /\ locals' = frame.locals
    /\ surplus' = Released(Retained(surplus, locals), frame.locals)
    /\ IF frame.stack = << >> THEN UNCHANGED <<refs, stack>>
       ELSE /\ refs' = Retained(Released(refs, stack), frame.stack)
            /\ stack' = frame.stack
    /\ UNCHANGED <<made, frame>>

tiered_jit_free_osr_frame ==
    /\ frame # NoFrame
    /\ refs' = Released(refs, frame.stack)
    /\ frame' = NoFrame
    /\ UNCHANGED <<locals, stack, made, surplus>>

MachineStep ==
    \/ LoadConst \/ LoadLocal \/ StoreLocal \/ Pop
    \/ tiered_jit_prepare_osr \/ tiered_jit_perform_osr \/ tiered_jit_free_osr_frame

----------------------------------------------------------------------------
\* Using a freed string is undefined: the machine goes no further.
Places(o) == Times(o, locals) + Times(o, stack)
               + IF frame = NoFrame THEN 0 ELSE Times(o, frame.stack)
Usable    == \A o \in Objects : Places(o) > 0 => refs[o] > 0

Init ==
    /\ jit_functions = << >> /\ mapped = {} /\ mappings = 0
    /\ overwritten = {} /\ strayed = {}
    /\ locals = [k \in Locals |-> NIL] /\ stack = << >> /\ frame = NoFrame
    /\ refs = [o \in Objects |-> 0] /\ surplus = [o \in Objects |-> 0] /\ made = {}

Next ==
    \/ TableStep /\ UNCHANGED machineVars
    \/ Usable /\ MachineStep /\ UNCHANGED tableVars

Spec == Init /\ [][Next]_<<tableVars, machineVars>>

TypeOK ==
    /\ \A f \in DOMAIN jit_functions :
          /\ jit_functions[f].call_count \in 0 .. MaxCalls
          /\ jit_functions[f].code \in [Tiers -> {NoCode, Unknown} \cup 1 .. mappings]
    /\ {mapped, overwritten, strayed} \subseteq SUBSET (1 .. mappings)
    /\ stack \in Seq(Objects \cup {NIL}) /\ refs \in [Objects -> Int]

\* What is mapped for code is that of one entry, or was overwritten by the next
\* compilation of its function: nothing is unmapped under a function that still
\* has it, and a function given up leaves nothing mapped.  But what a code that
\* was never made happened to point at may go with it (tiered_jit.c:439-454):
\* nothing initializes the codes of an entry.
Codes == {<<f, tier>> \in (DOMAIN jit_functions) \X Tiers : jit_functions[f].code[tier] > 0}
Made  == CodesOf(DOMAIN jit_functions) \ {NoCode, Unknown}

CodeIsOwned ==
    /\ mapped = (overwritten \cup Made) \ strayed
    /\ Made \cap overwritten = {} /\ Cardinality(Made) = Cardinality(Codes)

\* A value on the stack, or on the stack of a saved frame, has a reference of
\* its own there, however often the frame is put back.  Only the locals are put
\* back without: a string is freed early when that outweighs what its stores
\* have left over.
StacksAreCounted == \A o \in Objects : surplus[o] >= 0 => refs[o] >= Places(o)
=============================================================================
