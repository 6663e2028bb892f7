-------------------------------- MODULE Lazy --------------------------------
(***************************************************************************)
(* The lazy evaluator (core/lazy/lazy.c): expressions that keep the value  *)
(* they were last evaluated to, the invalidation of those that depend on a *)
(* changed one, and speculation.                                           *)
(*                                                                         *)
(* What an expression evaluates to is up to rt->evaluator, which is given  *)
(* by the program: here it reads an input of the expression and gets the   *)
(* values of those in Reads, one after the other.  A value is the set of   *)
(* the inputs it was made from, each with its version; nil is the empty    *)
(* set.  The program, and so the evaluator, may change inputs at any time. *)
(***************************************************************************)
EXTENDS Integers, Sequences, FiniteSets

CONSTANTS
    Exprs,              \* the expressions of a program
    Speculative,        \* those the program enables speculation for
    Reads,              \* pairs of an expression and one whose value it is made from
    max_speculative,    \* 4
    MaxVersion          \* bound: changes of one input

VARIABLES
    exprs,      \* from the expressions not destroyed to their LazyExpr
    dependents, \* from expressions to those to be invalidated with them
    version,    \* of the input of each expression
    stack,      \* calls of lazy_evaluate that have not returned, the last one innermost:
                \*   [expr, input, got, speculating]
    current_speculative,
    interrupted,    \* history: an expression was invalidated while it was evaluated
    broken      \* an expression was used after it was destroyed

vars == <<exprs, dependents, version, stack, current_speculative, interrupted, broken>>

nil == {}

create_lazy_expr ==
    [state |-> "unevaluated", is_valid |-> FALSE, is_dirty |-> FALSE, cached_value |-> nil,
     enabled |-> FALSE, confident |-> FALSE]

Init ==
    /\ exprs = [e \in {} |-> {}]
    /\ dependents = [e \in Exprs |-> {}]
    /\ version = [e \in Exprs |-> 1]
    /\ stack = << >>
    /\ current_speculative = 0
    /\ interrupted = FALSE
    /\ broken = FALSE

Live == DOMAIN exprs

\* After those its value is made from.
lazy_create_expr(e) ==
    /\ \A d \in Exprs : <<e, d>> \in Reads => d \in Live \cup {e}
    /\ e \notin Live /\ dependents[e] = {} /\ version[e] = 1
    /\ \A d \in Exprs : e \notin dependents[d]
    /\ exprs' = [d \in Live \cup {e} |-> IF d = e THEN create_lazy_expr ELSE exprs[d]]
    /\ UNCHANGED <<dependents, version, stack, current_speculative, interrupted, broken>>

lazy_add_dependency(expr, dep) ==
    /\ {expr, dep} \subseteq Live /\ <<expr, dep>> \in Reads /\ expr # dep
    /\ dependents' = [dependents EXCEPT ![dep] = @ \cup {expr}]
    /\ UNCHANGED <<exprs, version, stack, current_speculative, interrupted, broken>>

\* Those whose values nothing that lives is made from; the expressions it
\* depends on still list it.
lazy_destroy_expr(e) ==
    /\ stack = << >> /\ e \in Live
    /\ \A d \in Live \ {e} : <<d, e>> \notin Reads
    /\ exprs' = [d \in Live \ {e} |-> exprs[d]]
    /\ UNCHANGED <<dependents, version, stack, current_speculative, interrupted, broken>>

----------------------------------------------------------------------------
(* Evaluation                                                              *)

Cached(e) == exprs[e].is_valid /\ ~exprs[e].is_dirty

\* The innermost call wants the value of an expression next, or is done with
\* what it reads.
Top == stack[Len(stack)]
Wants == {d \in Exprs : <<Top.expr, d>> \in Reads} \ DOMAIN Top.got

\* Dependencies are declared before anything is evaluated, but for that of an
\* expression on itself: with a cycle lazy_invalidate would not end.
Declared == \A r \in Reads : r[1] \in Live /\ r[1] # r[2] => r[1] \in dependents[r[2]]

\* A value is returned at once: to the innermost call, if there is one.
Returned(e, value, frames) ==
    IF frames = << >> THEN << >>
    ELSE [frames EXCEPT ![Len(frames)].got =
             [d \in DOMAIN @ \cup {e} |-> IF d = e THEN value ELSE @[d]]]

Hit(e) ==
    /\ stack' = Returned(e, exprs[e].cached_value, stack)
    /\ UNCHANGED <<exprs, current_speculative, interrupted>>

\* An expression that is being evaluated is nil.
Cycle(e) ==
    /\ stack' = Returned(e, nil, stack)
    /\ UNCHANGED <<exprs, current_speculative, interrupted>>

Enter(e, speculating) ==
    /\ exprs' = [exprs EXCEPT ![e].state = "evaluating"]
    /\ stack' = Append(stack, [expr |-> e, input |-> version[e], got |-> [d \in {} |-> nil],
                               speculating |-> speculating])
    /\ interrupted' = interrupted

lazy_evaluate(e, speculating) ==
    \/ exprs[e].state = "evaluated" /\ Cached(e) /\ Hit(e)
    \/ exprs[e].state = "evaluating" /\ Cycle(e)
    \/ /\ exprs[e].state # "evaluating" /\ ~(exprs[e].state = "evaluated" /\ Cached(e))
       /\ Enter(e, speculating)
       /\ current_speculative' = current_speculative + (IF speculating THEN 1 ELSE 0)

\* The evaluator asks for values with it, and so does the program.  Whether
\* the cache is valid is looked at twice, with the same result: only an
\* evaluated expression has one.
lazy_get_value(e) ==
    /\ e \in Live /\ Declared
    /\ stack # << >> => e \in Wants
    /\ lazy_evaluate(e, FALSE)
    /\ UNCHANGED <<dependents, version, broken>>

\* The end of the innermost lazy_evaluate, and of the lazy_speculate it is in.
Value(frame) == {<<frame.expr, frame.input>>} \cup UNION {frame.got[d] : d \in DOMAIN frame.got}

Finish ==
    LET frame == Top
        value == Value(frame)
    IN  /\ stack # << >> /\ Wants = {}
        /\ exprs' = [exprs EXCEPT ![frame.expr] =
              [@ EXCEPT !.state = "evaluated", !.is_valid = TRUE, !.is_dirty = FALSE,
                        !.cached_value = value]]
        /\ stack' = Returned(frame.expr, value, SubSeq(stack, 1, Len(stack) - 1))
        /\ current_speculative' = current_speculative - (IF frame.speculating THEN 1 ELSE 0)
        /\ UNCHANGED <<dependents, version, interrupted, broken>>

----------------------------------------------------------------------------
(* Invalidation                                                            *)

\* The expressions lazy_invalidate comes to: dependents of dependents.
Invalidated(e) ==
    LET reach[n \in 0 .. Cardinality(Exprs)] ==
            IF n = 0 THEN {e} ELSE reach[n - 1] \cup UNION {dependents[d] : d \in reach[n - 1]}
    IN  reach[Cardinality(Exprs)]

\* An input changes, and the expression it is an input of is invalidated.
lazy_invalidate(e) ==
    LET reached == Invalidated(e)
    IN  /\ e \in Live /\ Declared /\ version[e] < MaxVersion
        /\ version' = [version EXCEPT ![e] = @ + 1]
        /\ IF reached \subseteq Live
           THEN /\ exprs' = [d \in Live |->
                       IF d \in reached THEN [exprs[d] EXCEPT !.is_dirty = TRUE, !.is_valid = FALSE]
                       ELSE exprs[d]]
                /\ interrupted' = (interrupted \/ \E d \in reached : exprs[d].state = "evaluating")
                /\ UNCHANGED broken
           ELSE broken' = TRUE /\ UNCHANGED <<exprs, interrupted>>
        /\ UNCHANGED <<dependents, stack, current_speculative>>

lazy_clear_all_caches ==
    /\ exprs' = [e \in Live |-> [exprs[e] EXCEPT !.is_valid = FALSE]]
    /\ UNCHANGED <<dependents, version, stack, current_speculative, interrupted, broken>>

----------------------------------------------------------------------------
(* Speculation                                                             *)

\* confident: the confidence is at least spec_config.threshold.
lazy_enable_speculation(e) ==
    /\ e \in Speculative \cap Live
    /\ exprs' = [exprs EXCEPT ![e].enabled = TRUE, ![e].confident = TRUE]
    /\ UNCHANGED <<dependents, version, stack, current_speculative, interrupted, broken>>

\* Speculation may go on below speculation, up to max_speculative deep.
MaySpeculate(e) ==
    /\ exprs[e].enabled /\ exprs[e].confident
    /\ current_speculative < max_speculative

lazy_speculate(e) ==
    /\ e \in Live /\ Declared
    /\ stack # << >> => e \in Wants
    /\ MaySpeculate(e)
    /\ lazy_evaluate(e, TRUE)
    /\ UNCHANGED <<dependents, version, broken>>

\* What was predicted turns out right, and the confidence grows, or wrong, and
\* it shrinks: either may take it over the threshold.
lazy_verify_speculation(e) ==
    /\ e \in Live /\ exprs[e].enabled
    /\ \E match \in BOOLEAN : exprs' = [exprs EXCEPT ![e].confident = match]
    /\ UNCHANGED <<dependents, version, stack, current_speculative, interrupted, broken>>

Next ==
    /\ ~broken
    /\ \/ \E e \in Exprs :
             \/ lazy_create_expr(e) \/ lazy_destroy_expr(e)
             \/ lazy_get_value(e) \/ lazy_invalidate(e) \/ lazy_speculate(e)
             \/ lazy_enable_speculation(e) \/ lazy_verify_speculation(e)
             \/ \E d \in Exprs : lazy_add_dependency(e, d)
       \/ Finish \/ lazy_clear_all_caches

Spec == Init /\ [][Next]_vars

----------------------------------------------------------------------------
(* Properties                                                              *)

Values == SUBSET (Exprs \X (1 .. MaxVersion))

LazyExpr ==
    [state : {"unevaluated", "evaluating", "evaluated"}, is_valid : BOOLEAN,
     is_dirty : BOOLEAN, cached_value : Values, enabled : BOOLEAN, confident : BOOLEAN]

\* Every variable holds a value of its C type, within the bounds; only the
\* expressions of the stack are marked as being evaluated.
TypeOK ==
    /\ Live \subseteq Exprs
    /\ exprs \in [Live -> LazyExpr]
    /\ dependents \in [Exprs -> SUBSET Exprs]
    /\ version \in [Exprs -> 1 .. MaxVersion]
    /\ {stack[i].expr : i \in DOMAIN stack} = {e \in Live : exprs[e].state = "evaluating"}
    /\ interrupted \in BOOLEAN /\ broken \in BOOLEAN

Sources(e) ==
    LET reach[n \in 0 .. Cardinality(Exprs)] ==
            IF n = 0 THEN {e}
            ELSE reach[n - 1] \cup {r[2] : r \in {q \in Reads : q[1] \in reach[n - 1]}}
    IN  reach[Cardinality(Exprs)]

\* A cached value that would be returned is the value the expression has now,
\* through every expression it is made from, unless an invalidation came while
\* the expression was being evaluated: lazy_evaluate then takes the dirty mark
\* back and keeps the old value (lazy.c:159-162).
CacheIsCurrent ==
    ~interrupted /\ ~broken =>
        \A e \in Live : Cached(e) =>
            exprs[e].cached_value = {<<d, version[d]>> : d \in Sources(e)}

\* Speculations are counted while they run and only then, however deep and
\* whether they find the value in the cache: the count never stays behind and
\* keeps later ones out (lazy.c:251-264).
SpeculationIsCounted ==
    /\ current_speculative = Cardinality({i \in DOMAIN stack : stack[i].speculating})
    /\ current_speculative <= max_speculative

=============================================================================
