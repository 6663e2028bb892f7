----------------------------- MODULE HotReload ------------------------------
(***************************************************************************)
(* The hot reload manager (core/hotreload/hotreload.c).  Changes of the    *)
(* program are recorded, each with what is new about its target, and stay  *)
(* recorded until they are cleared; handlers the embedding program has     *)
(* registered apply them, and may fail.  A change is its number here, and  *)
(* "running" is the embedding program: the change each target is at.       *)
(*                                                                         *)
(* Handlers and the callbacks of the manager are code of the embedding     *)
(* program, which may record changes, apply one, and add or take away      *)
(* handlers: every call of hotreload_apply_change and                      *)
(* hotreload_record_change that is not through is in `calls`, the          *)
(* innermost last.  They hold pointers into the arrays of changes and      *)
(* handlers, which move when they grow; reading one then is undefined, and *)
(* the model goes no further.                                              *)
(***************************************************************************)
EXTENDS Integers, Sequences, SequencesExt

CONSTANTS
    Targets,
    Handlers,           \* names of handlers
    Accepts,            \* pairs of a handler and a target its can_reload accepts
    InitialChanges,     \* change_capacity and handler_capacity at first: 32 and 8
    InitialHandlers,
    MaxChanges,         \* bound: changes recorded
    MaxRegistrations,   \* bound: handlers registered
    MaxDepth            \* bound: calls in callbacks of calls

VARIABLES
    changes,            \* recorded and not cleared: [id, target]
    change_capacity,
    handlers,           \* [name, registered]
    handler_capacity,
    enabled, auto_apply,
    successful,         \* history: the changes that were applied when they were last
                        \*   tried since hotreload_apply_all was last called
    i,                  \* the loop of hotreload_apply_all, after the current; 0: not running
    calls,              \* [change, phase, from, registered, changes, handlers]
    running,            \* the change every target is at, 0 at first
    set_back,           \* history: targets that a callback gave an older change
    broken,             \* history: a pointer into an array that moved was read
    recorded,           \* history: the changes so far
    registrations       \* history: handlers registered so far

recordVars == <<changes, change_capacity, recorded>>
settingVars == <<handlers, handler_capacity, registrations, enabled, auto_apply>>
outcomeVars == <<running, successful, set_back>>
vars == <<recordVars, settingVars, outcomeVars, i, calls, broken>>

CapacitiesAreNumbers == InitialChanges \in Nat /\ InitialHandlers \in Nat

ReloadChange  == [id : 1 .. MaxChanges, target : Targets]
ReloadHandler == [name : Handlers, registered : 1 .. MaxRegistrations]

Init ==
    /\ changes = << >> /\ change_capacity = InitialChanges /\ recorded = 0
    /\ handlers = << >> /\ handler_capacity = InitialHandlers /\ registrations = 0
    /\ enabled = TRUE /\ auto_apply = FALSE
    /\ successful = {} /\ i = 0 /\ calls = << >>
    /\ running = [t \in Targets |-> 0] /\ set_back = {}
    /\ broken = FALSE

\* The embedding program is at work, by itself or in a callback.
Client == i = 0 \/ calls # << >>

Grown(capacity, count) == IF count >= capacity THEN 2 * capacity ELSE capacity

----------------------------------------------------------------------------
(* One change                                                              *)

Accepting(t) == {k \in DOMAIN handlers : <<handlers[k].name, t>> \in Accepts}

\* A call with pointers to its change and, if it is not 0, the handler of that
\* registration: they hold as long as the arrays stay where they are.
Call(change, phase, from, registered) ==
    [change |-> change, phase |-> phase, from |-> from, registered |-> registered,
     changes |-> change_capacity, handlers |-> handler_capacity]

\* Up to the callback: the first handler that accepts the change is to apply
\* it; without one on_reload_failure is called.  The statistics are left out.
hotreload_apply_change(change, from, below) ==
    \/ /\ ~enabled
       /\ calls' = below /\ successful' = successful \ {change.id}
    \/ /\ enabled /\ Accepting(change.target) = {}
       /\ calls' = Append(below, Call(change, "told", from, 0))
       /\ successful' = successful \ {change.id}
    \/ /\ enabled
       /\ \E k \in Accepting(change.target) :
             /\ \A j \in Accepting(change.target) : k <= j
             /\ calls' = Append(below, Call(change, "applying", from, handlers[k].registered))
       /\ UNCHANGED successful

Innermost == calls[Len(calls)]

Breaks == broken' = TRUE /\ UNCHANGED <<recordVars, settingVars, outcomeVars, i, calls>>

\* What the handler did to the target of its change, for good or not at all.
TakesEffect(c) ==
    LET t == c.change.target IN
    /\ running' = [running EXCEPT ![t] = c.change.id]
    /\ successful' = successful \cup {c.change.id}
    /\ set_back' = IF c.from = "loop" THEN set_back \ {t}
                   ELSE IF c.change.id < running[t] THEN set_back \cup {t}
                   ELSE set_back

\* apply_change of the handler returns, and handler->on_success or on_failure
\* is read.  If handlers moved up in the array it is that of another.
HandlerReturns ==
    /\ calls # << >> /\ Innermost.phase = "applying"
    /\ \/ Innermost.handlers # handler_capacity /\ Breaks
       \/ /\ \/ TakesEffect(Innermost)
             \/ /\ successful' = successful \ {Innermost.change.id}
                /\ UNCHANGED <<running, set_back>>
          /\ calls' = [calls EXCEPT ![Len(calls)].phase = "told"]
          /\ UNCHANGED <<recordVars, settingVars, i, broken>>

\* The callbacks that tell of it are through; on_reload_success and
\* on_reload_failure are given change->target after those of the handler ran.
EndCall ==
    /\ calls # << >> /\ Innermost.phase = "told"
    /\ \/ Innermost.registered # 0 /\ Innermost.changes # change_capacity /\ Breaks
       \/ /\ calls' = Front(calls)
          /\ UNCHANGED <<recordVars, settingVars, outcomeVars, i, broken>>

\* By the program, or by a callback: any change that is recorded.
ApplyByHand(k) ==
    /\ Client /\ Len(calls) < MaxDepth
    /\ k \in DOMAIN changes
    /\ hotreload_apply_change(changes[k], "call", calls)
    /\ UNCHANGED <<recordVars, settingVars, running, set_back, i, broken>>

----------------------------------------------------------------------------
(* Changes                                                                 *)

\* Up to on_change_detected.  Also of a node of the graph, by
\* hotreload_update_node.
hotreload_record_change(t) ==
    /\ Client /\ Len(calls) < MaxDepth
    /\ enabled /\ recorded < MaxChanges
    /\ LET change == [id |-> recorded + 1, target |-> t]
           capacity == Grown(change_capacity, Len(changes))
       IN  /\ changes' = Append(changes, change)
           /\ change_capacity' = capacity
           /\ calls' = Append(calls, [Call(change, "detected", "call", 0)
                                         EXCEPT !.changes = capacity])
    /\ recorded' = recorded + 1
    /\ UNCHANGED <<settingVars, outcomeVars, i, broken>>

\* The rest of it: the pointer to the change is the one from before the callback.
Detected ==
    /\ calls # << >> /\ Innermost.phase = "detected"
    /\ \/ auto_apply /\ Innermost.changes # change_capacity /\ Breaks
       \/ /\ IF auto_apply THEN hotreload_apply_change(Innermost.change, "call", Front(calls))
             ELSE calls' = Front(calls) /\ UNCHANGED successful
          /\ UNCHANGED <<recordVars, settingVars, running, set_back, i, broken>>

\* Not from inside a callback: what is called would go on with what has been
\* freed.
hotreload_clear_changes ==
    /\ i = 0 /\ calls = << >>
    /\ changes' = << >>
    /\ UNCHANGED <<change_capacity, recorded, settingVars, outcomeVars, i, calls, broken>>

----------------------------------------------------------------------------
(* hotreload_apply_all, not from inside a callback                         *)

ApplyAll ==
    /\ i = 0 /\ calls = << >> /\ enabled
    /\ i' = 1 /\ successful' = {} /\ set_back' = {}
    /\ UNCHANGED <<recordVars, settingVars, running, calls, broken>>

\* Faulty variant: the newest change is applied first.
Backwards == changes[Len(changes) + 1 - i]

Current == changes[i]

ApplyNext ==
    /\ i \in DOMAIN changes /\ calls = << >>
    /\ hotreload_apply_change(Current, "loop", << >>)
    /\ i' = i + 1
    /\ UNCHANGED <<recordVars, settingVars, running, set_back, broken>>

Finished == i > Len(changes) /\ calls = << >>

ReturnFromAll ==
    /\ Finished
    /\ i' = 0
    /\ UNCHANGED <<recordVars, settingVars, outcomeVars, calls, broken>>

----------------------------------------------------------------------------
(* Handlers and settings                                                   *)

\* At the end, also if there is one of that name.
hotreload_register_handler(name) ==
    /\ Client /\ registrations < MaxRegistrations
    /\ handlers' = Append(handlers, [name |-> name, registered |-> registrations + 1])
    /\ handler_capacity' = Grown(handler_capacity, Len(handlers))
    /\ registrations' = registrations + 1
    /\ UNCHANGED <<recordVars, enabled, auto_apply, outcomeVars, i, calls, broken>>

Position(name) == SelectInSeq(handlers, LAMBDA h : h.name = name)

\* The first of that name goes.
hotreload_unregister_handler(name) ==
    /\ Client /\ Position(name) # 0
    /\ handlers' = RemoveAt(handlers, Position(name))
    /\ UNCHANGED <<recordVars, handler_capacity, registrations, enabled, auto_apply>>
    /\ UNCHANGED <<outcomeVars, i, calls, broken>>

\* hotreload_enable, hotreload_disable, and the field auto_apply.
Switch ==
    /\ Client
    /\ enabled' \in BOOLEAN /\ auto_apply' \in BOOLEAN
    /\ UNCHANGED <<recordVars, handlers, handler_capacity, registrations>>
    /\ UNCHANGED <<outcomeVars, i, calls, broken>>

Next ==
    /\ ~broken
    /\ \/ \E t \in Targets : hotreload_record_change(t)
       \/ \E k \in DOMAIN changes : ApplyByHand(k)
       \/ HandlerReturns \/ EndCall \/ Detected
       \/ hotreload_clear_changes
       \/ ApplyAll \/ ApplyNext \/ ReturnFromAll
       \/ \E name \in Handlers :
             hotreload_register_handler(name) \/ hotreload_unregister_handler(name)
       \/ Switch

Spec == Init /\ [][Next]_vars

----------------------------------------------------------------------------
(* Properties                                                              *)

ReloadCall ==
    [change : ReloadChange, phase : {"detected", "applying", "told"}, from : {"loop", "call"},
     registered : 0 .. MaxRegistrations, changes : Nat, handlers : Nat]

\* Every variable holds a value of its C type, within the bounds.
TypeOK ==
    /\ changes \in Seq(ReloadChange) /\ handlers \in Seq(ReloadHandler)
    /\ {change_capacity, handler_capacity} \subseteq Nat
    /\ {enabled, auto_apply, broken} \subseteq BOOLEAN
    /\ successful \subseteq 1 .. recorded /\ set_back \subseteq Targets
    /\ i \in 0 .. Len(changes) + 1
    /\ calls \in Seq(ReloadCall)
    /\ running \in [Targets -> 0 .. recorded]

\* When hotreload_apply_all is through, every target is at the newest of its
\* changes that could be applied: older ones, which are applied again each
\* time, do not stay in force, also when callbacks record and apply changes in
\* between.  Only if a callback itself applied one that is older than what its
\* target was at does that stay in force, until the loop applies another to it:
\* nothing refuses it (hotreload.c:87-144, 183-215).
NewestStaysInForce ==
    Finished => \A k \in DOMAIN changes :
        changes[k].id \in successful =>
           \/ running[changes[k].target] >= changes[k].id
           \/ changes[k].target \in set_back

\* The handlers are in the order in which they were registered: unregistering
\* one leaves the others in their order.  So the handler that applies a change
\* is, as long as it does, the longest registered of those in the list that
\* accept it, whatever is registered and unregistered meanwhile
\* (hotreload.c:90-98, 150-177).
HandlersKeepTheirOrder ==
    /\ \A j, k \in DOMAIN handlers : j < k => handlers[j].registered < handlers[k].registered
    /\ \A n \in DOMAIN calls : calls[n].phase = "applying" =>
          \A k \in Accepting(calls[n].change.target) :
             handlers[k].registered >= calls[n].registered

\* A pointer is read after its array has moved only if one of the arrays has
\* grown: up to 32 changes and 8 handlers callbacks may add what they like
\* (hotreload.c:109-126, 153-158, 187-213).
BrokenByGrowth ==
    broken => change_capacity > InitialChanges \/ handler_capacity > InitialHandlers
=============================================================================
