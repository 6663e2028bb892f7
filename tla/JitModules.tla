----------------------------- MODULE JitModules -----------------------------
(***************************************************************************)
(* The table of compiled functions of all modules                          *)
(* (modules/jit_module.c): what their calls were like, which code has      *)
(* others inlined or linked, and what has to be given up when a function   *)
(* or a module changes.  A code is its position in the table; nothing is   *)
(* ever taken out of it, and what is looked up by name is the first.       *)
(*                                                                         *)
(* Left out: sizes (all placeholder code is small enough to be inlined),   *)
(* the count of executions, and statistics.                                *)
(***************************************************************************)
EXTENDS Integers, Sequences, SequencesExt, FiniteSets

CONSTANTS
    Functions,          \* pairs of a module and the name of a function in it
    Tiers,
    Signatures,         \* of calls: [args, result]
    MaxCodes,           \* bound: codes in the table
    MaxLinks,           \* bound: links of one code
    MaxDeopts           \* bound: deoptimizations of one code

VARIABLES
    functions,      \* the table: [name, tier, compiled, args, result, type_stable,
                    \*   needs_deopt, links, deopts, seen], of which deopts and seen are
                    \*   histories: how often the code was given up, and the calls it
                    \*   has recorded since, from the first with arguments on
    changed         \* history: how often each module was invalidated

vars == <<functions, changed>>

\* A call is known by the types of its arguments and its result.
CallsAreTyped ==
    /\ \A call \in Signatures : call = [args |-> call.args, result |-> call.result]
    /\ MaxDeopts \in Nat /\ MaxLinks \in Nat

Nil == "nil"

JitLink ==
    [type : {"call", "inline"}, target : Functions, is_valid : BOOLEAN,
     version : [deopts : 0 .. MaxDeopts, changed : 0 .. MaxDeopts]]
JitFunctionCode ==
    [name : {f[2] : f \in Functions}, tier : Tiers \cup {0}, compiled : BOOLEAN,
     args : {<< >>} \cup {s.args : s \in Signatures}, result : {Nil} \cup {s.result : s \in Signatures},
     type_stable : BOOLEAN, needs_deopt : BOOLEAN, links : Seq(JitLink),
     deopts : 0 .. MaxDeopts, seen : SUBSET Signatures]

Init ==
    /\ functions = << >>
    /\ changed = [m \in {f[1] : f \in Functions} |-> 0]

\* The module is not looked at.
jit_module_lookup(name) == SelectInSeq(functions, LAMBDA code : code.name = name)

create_function_code(name, tier) ==
    [name |-> name, tier |-> tier, compiled |-> TRUE, args |-> << >>, result |-> Nil,
     type_stable |-> FALSE, needs_deopt |-> FALSE, links |-> << >>, deopts |-> 0, seen |-> {}]

\* A code of that name that is at least of that tier is what is returned, also
\* one that was given up; any other stays where lookups find it.
jit_module_compile(f, tier) ==
    LET existing == jit_module_lookup(f[2])
    IN  /\ existing # 0 => functions[existing].tier < tier
        /\ Len(functions) < MaxCodes
        /\ functions' = Append(functions, create_function_code(f[2], tier))
        /\ UNCHANGED changed

----------------------------------------------------------------------------
(* Links                                                                   *)

\* What a link must not outlive: the state of its target when it was made.
Version(f) == [deopts |-> functions[jit_module_lookup(f[2])].deopts, changed |-> changed[f[1]]]

\* The newest link comes first.
jit_module_add_link(k, type, f) ==
    /\ Len(functions[k].links) < MaxLinks
    /\ functions' = [functions EXCEPT ![k].links =
          <<[type |-> type, target |-> f, is_valid |-> TRUE, version |-> Version(f)]>> \o @]
    /\ UNCHANGED changed

\* For a call, of a function that has been compiled.
LinkCall(k, f) ==
    /\ jit_module_lookup(f[2]) # 0
    /\ jit_module_add_link(k, "call", f)

\* Smaller than the limit it is anyway.
MayInline(code) == code.type_stable

jit_module_try_inline(k, f) ==
    /\ jit_module_lookup(f[2]) # 0
    /\ MayInline(functions[jit_module_lookup(f[2])])
    /\ jit_module_add_link(k, "inline", f)

\* Links up to the first that is known to be invalid are looked at.
jit_module_validate_links(k) ==
    LET links == functions[k].links
        Sound(l) == LET target == jit_module_lookup(links[l].target[2])
                    IN  target # 0 /\ ~functions[target].needs_deopt
        Seen(l) == \A j \in 1 .. l : links[j].is_valid
    IN  /\ functions' = [functions EXCEPT ![k].links =
              [l \in DOMAIN links |-> [links[l] EXCEPT !.is_valid = @ /\ (Seen(l) => Sound(l))]]]
        /\ UNCHANGED changed

\* What is left of the table when the links to functions that are gone are cut.
Cut(table, gone, k) ==
    [j \in DOMAIN table |->
        LET links == table[j].links
            Spared(l) == j = k \/ links[l].target \notin gone
        IN  [table[j] EXCEPT
                !.links = [l \in DOMAIN links |->
                              [links[l] EXCEPT !.is_valid = @ /\ Spared(l)]],
                !.needs_deopt = @ \/ \E l \in DOMAIN links : ~Spared(l)]]

\* The codes of the module itself are not touched.
jit_module_invalidate(m) ==
    /\ changed[m] < MaxDeopts
    /\ functions' = Cut(functions, {f \in Functions : f[1] = m}, 0)
    /\ changed' = [changed EXCEPT ![m] = @ + 1]

----------------------------------------------------------------------------
(* Types                                                                   *)

\* A call without arguments never counts as the first, and those before it are
\* forgotten: what they returned is compared with what is left of the code.
Observed(code, call) ==
    IF code.args = << >> /\ call.args # << >>
    THEN [code EXCEPT !.args = call.args, !.result = call.result, !.type_stable = TRUE]
    ELSE IF code.args = call.args /\ code.result = call.result THEN code
    ELSE [code EXCEPT !.type_stable = FALSE, !.needs_deopt = TRUE]

Recorded(code, call) ==
    [Observed(code, call) EXCEPT !.seen = IF code.args = << >> /\ call.args = << >>
                                       THEN @ ELSE @ \cup {call}]

jit_module_record_types(f, call) ==
    LET k == jit_module_lookup(f[2])
    IN  /\ k # 0
        /\ functions' = [functions EXCEPT ![k] = Recorded(@, call)]
        /\ UNCHANGED changed

\* The type of the result is not reset.
GivenUp(code) ==
    [code EXCEPT !.compiled = FALSE, !.tier = 0, !.needs_deopt = FALSE, !.args = << >>,
                 !.type_stable = FALSE, !.deopts = @ + 1, !.seen = {}]

jit_module_deoptimize(f) ==
    LET k == jit_module_lookup(f[2])
    IN  /\ k # 0 /\ functions[k].deopts < MaxDeopts
        /\ functions' = Cut([functions EXCEPT ![k] = GivenUp(@)], {f}, k)
        /\ UNCHANGED changed

Next ==
    \/ \E f \in Functions :
          \/ \E tier \in Tiers : jit_module_compile(f, tier)
          \/ \E k \in DOMAIN functions : LinkCall(k, f) \/ jit_module_try_inline(k, f)
          \/ \E call \in Signatures : jit_module_record_types(f, call)
          \/ jit_module_deoptimize(f)
    \/ \E k \in DOMAIN functions : jit_module_validate_links(k)
    \/ \E m \in DOMAIN changed : jit_module_invalidate(m)

Spec == Init /\ [][Next]_vars

----------------------------------------------------------------------------
(* Properties                                                              *)

\* Every variable holds a value of its C type, within the bounds.
TypeOK ==
    functions \in Seq(JitFunctionCode) /\ Len(functions) <= MaxCodes

\* A function is taken for one of stable types only while all calls recorded
\* from the first with arguments on, since its code was last given up, were
\* alike; one without arguments that comes later ends it too.  Of those before
\* the first nothing is promised: a call f() and then a call f(1) leave f stable
\* (jit_module.c:322-364).
StableMeansAlike ==
    \A k \in DOMAIN functions : functions[k].type_stable =>
        functions[k].seen = {[args |-> functions[k].args, result |-> functions[k].result]}

\* The name is that of one function only; the table mixes up the others.
Own(f) == \A g \in Functions : g[2] = f[2] => g = f

\* As long as code is in use and a link of it counts as valid, what it links
\* to has not been given up or changed since (jit_module.c:209-225, 397-425).
LinksAreCurrent ==
    \A k \in DOMAIN functions : functions[k].compiled =>
        \A l \in DOMAIN functions[k].links :
            LET link == functions[k].links[l]
            IN  link.is_valid /\ Own(link.target) => link.version = Version(link.target)

\* What has been inlined is a function of stable types, or the next validation
\* of the code that has it inlined will find that it no longer is one
\* (jit_module.c:255-275, 287-320).
InlinedIsWatched ==
    \A k \in DOMAIN functions : functions[k].compiled =>
        \A l \in DOMAIN functions[k].links :
            LET link   == functions[k].links[l]
                target == functions[jit_module_lookup(link.target[2])]
            IN  link.is_valid /\ link.type = "inline" /\ Own(link.target)
                    => target.type_stable \/ target.needs_deopt
=============================================================================
