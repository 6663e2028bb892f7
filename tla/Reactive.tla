------------------------------ MODULE Reactive ------------------------------
(***************************************************************************)
(* The reactive runtime, src/reactive/reactive.c: state variables, values  *)
(* derived from them, effects and "when" blocks, invalidated by pushing    *)
(* along the graph and recomputed by pulling.  The runtime has one thread, *)
(* so that an action is a whole call of its API: the calls that it makes   *)
(* in turn are kept on a stack, and Run takes their steps until the stack  *)
(* is empty.  Operators take the runtime and return it changed.            *)
(*                                                                         *)
(* The compute functions are the client's.  Here they read their sources   *)
(* one after the other until one is false, so that what a node depends on  *)
(* changes with the values; the value is the last one read.  An effect may *)
(* then write it into a state, as on_connected of examples/call_session.c  *)
(* writes, or reset the state, and returns nil.                            *)
(*                                                                         *)
(* Callbacks are not set; versions, statistics and the previous values of  *)
(* computed nodes, which nothing in the runtime reads, are left out, and   *)
(* so are contexts (fields that depend on a node that never changes) and   *)
(* the removal of nodes by reactive_gc.                                    *)
(***************************************************************************)
EXTENDS Integers, Sequences, FiniteSets, SequencesExt

CONSTANTS
  State, Derived, Effect, When,  \* the nodes, by what created them
  Created,        \* rt->nodes: the nodes in order of creation
  Reads,          \* Reads[n]: the sources that n's compute function reads;
                  \* <<>> if the function is NULL
  Writes,         \* Writes[n]: the state that effect or when block n writes
  Nowhere,        \* ... if it writes one
  Resets,         \* the effects that write False whatever they have read
  Once,           \* the when blocks with the flag "once"
  UserData,       \* the effects that were created with user data
  Disposable,     \* the effects and when blocks the client disposes of
  BatchSize,      \* REACTIVE_BATCH_SIZE, the capacity of the dirty queue
  MaxChanges      \* bound: writes in one transaction

Node     == State \cup Derived \cup Effect \cup When
Computed == Derived \cup Effect \cup When
Sink     == Effect \cup When

ASSUME NodeAssumption ==
  /\ State \cap Computed = {} /\ Derived \cap Sink = {} /\ Effect \cap When = {}
  /\ Created \in Seq(Node) /\ ToSet(Created) = Node /\ IsInjective(Created)
\* A derived value has a function, and does not depend on itself.
ASSUME ClientAssumption ==
  /\ Reads \in [Computed -> Seq(State \cup Derived)]
  /\ \A d \in Derived : Reads[d] # <<>>
  /\ \E rank \in [State \cup Derived -> 0 .. Len(Created)] :
       \A d \in Derived : \A m \in ToSet(Reads[d]) : rank[m] < rank[d]
  /\ Writes \in [Sink -> State \cup {Nowhere}]
  /\ Nowhere \notin Node
  /\ Resets \subseteq Effect
  /\ Disposable \subseteq Sink
  /\ Once \subseteq When
  /\ UserData \subseteq Effect
ASSUME BoundAssumption == BatchSize \in Nat /\ MaxChanges \in Nat

VARIABLES
  rt,           \* the runtime and its nodes
  saved,        \* history: the values of the states at the begin of the
                \* transaction that is open
  unannounced   \* history: states changed by a transaction that did not
                \* invalidate their dependents, and not written since

vars == <<rt, saved, unannounced>>

False == 0
True  == 1
Nil   == -1
Value == {False, True, Nil}

NotSaved == [x \in State |-> Nil]

(* A call in progress: what it is a call of, the node it is about, its     *)
(* position in a loop, the nodes that invalidation has still to look at,   *)
(* and what was being computed when it was made.                           *)
Frame ==
  [op : {"invalidate", "announce", "propagate", "drain", "triggers", "settle",
         "compute", "return", "condition", "mark", "commit"},
   node : Node \cup {Nowhere}, at : Nat \ {0}, todo : Seq(Computed),
   prev : Computed \cup {Nowhere}]

(* The runtime; the fields of the nodes are functions of them.             *)
ReactiveRuntime ==
  [value : [Node -> Value], prev_value : [State -> Value],
   state : [Node -> {"clean", "dirty", "computing"}],
   deps : [Node -> Seq(State \cup Derived)], dependents : [Node -> Seq(Computed)],
   disposed : SUBSET Sink, triggered : [When -> BOOLEAN], fired : [When -> 0 .. 2],
   seen : [Effect -> Value], ran : SUBSET Effect, missed : SUBSET Effect,
   queue : Seq(Computed),
   computing : Computed \cup {Nowhere}, is_propagating : BOOLEAN,
   in_transaction : BOOLEAN, changes : Seq(State), crashed : BOOLEAN,
   calls : Seq(Frame)]

TypeOK ==
  /\ rt \in ReactiveRuntime
  /\ Len(rt.queue) <= BatchSize
  /\ rt.calls = <<>>
  /\ rt.crashed \/ /\ \A n \in Node : rt.state[n] # "computing"
                   /\ rt.computing = Nowhere
                   /\ ~rt.is_propagating
  /\ saved \in [State -> Value]
  /\ unannounced \subseteq State

-----------------------------------------------------------------------------
(* The stack of calls.                                                     *)

NewCall(r, op, node, todo) ==
  [op |-> op, node |-> node, at |-> 1, todo |-> todo, prev |-> r.computing]

Top(r)       == Last(r.calls)
Push(r, c)   == [r EXCEPT !.calls = Append(r.calls, c)]
Pop(r)       == [r EXCEPT !.calls = Front(r.calls)]
Resume(r, c) == Push(Pop(r), c)
NextRound(r) == Resume(r, [Top(r) EXCEPT !.at = Top(r).at + 1])

-----------------------------------------------------------------------------
(* Dependencies.                                                           *)

(* The loops that take a node out of a list remove it once.                *)
Without(seq, n) ==
  IF n \in ToSet(seq) THEN RemoveAt(seq, CHOOSE i \in DOMAIN seq : seq[i] = n) ELSE seq

AddDep(r, n, dep) ==
  IF dep \in ToSet(r.deps[n]) THEN r
  ELSE [r EXCEPT !.deps[n] = Append(r.deps[n], dep),
                 !.dependents[dep] = Append(r.dependents[dep], n)]

(* Faulty variant: the sources are not told.                               *)
ClearDepsOneWay(r, n) == [r EXCEPT !.deps[n] = <<>>]

ClearDeps(r, n) ==
  [r EXCEPT !.deps[n] = <<>>,
            !.dependents = [m \in Node |->
               IF m \in ToSet(r.deps[n]) THEN Without(r.dependents[m], n)
               ELSE r.dependents[m]]]

-----------------------------------------------------------------------------
(* Invalidation, computation and propagation.                              *)

(* reactive_invalidate goes from a node through its dependents, and from   *)
(* each one that was clean through its own, before it goes on: todo holds  *)
(* what is left of the loops, from the innermost on.                       *)
Told(r, n) == IF n \in r.disposed THEN <<>> ELSE r.dependents[n]

Invalidate(r, n) == Push(r, NewCall(r, "invalidate", n, Told(r, n)))

Enqueue(r, n) ==
  [r EXCEPT !.state[n] = "dirty",
            !.queue = IF Len(r.queue) < BatchSize THEN Append(r.queue, n) ELSE r.queue]

(* Faulty variant: only the direct dependents are invalidated.             *)
InvalidateShallow(r) ==
  LET todo == Top(r).todo
      rest == [Top(r) EXCEPT !.todo = Tail(todo)]
  IN IF todo = <<>> THEN Pop(r)
     ELSE IF r.state[Head(todo)] = "clean" THEN Resume(Enqueue(r, Head(todo)), rest)
     ELSE Resume(r, rest)

(* A node that is being computed is passed over like a dirty one (348),    *)
(* although it may have read its sources already; missed is the history of *)
(* the effects that this happened to in their last run.                    *)
PassOver(r, n) ==
  IF n \in Effect /\ r.state[n] = "computing" THEN [r EXCEPT !.missed = @ \cup {n}] ELSE r

InvalidateNext(r) ==
  LET todo == Top(r).todo
      left(more) == [Top(r) EXCEPT !.todo = more \o Tail(todo)]
  IN IF todo = <<>> THEN Pop(r)
     ELSE IF r.state[Head(todo)] = "clean"
       THEN Resume(Enqueue(r, Head(todo)), left(Told(r, Head(todo))))
     ELSE Resume(PassOver(r, Head(todo)), left(<<>>))

(* reactive_set                                                            *)
SetValue(r, x, val) ==
  IF r.value[x] = val THEN r
  ELSE LET written == [r EXCEPT !.prev_value[x] = r.value[x], !.value[x] = val]
       IN IF r.in_transaction THEN [written EXCEPT !.changes = Append(r.changes, x)]
          ELSE Invalidate(Push(written, NewCall(r, "propagate", x, <<>>)), x)

(* reactive_recompute, up to the call of the compute function ...          *)
Begun(r, n) ==
  [ClearDeps(r, n) EXCEPT !.state[n] = "computing", !.computing = n, !.missed = @ \ {n}]

Recompute(r, n) ==
  IF Reads[n] = <<>> THEN r ELSE Push(Begun(r, n), NewCall(r, "compute", n, <<>>))

(* Faulty variant: the state is not set.                                   *)
EndedDirty(r, n, val) ==
  [r EXCEPT !.value[n] = val,
            !.ran = IF n \in Effect THEN r.ran \cup {n} ELSE r.ran]

(* ... and after it.                                                       *)
Ended(r, n, val) ==
  [r EXCEPT !.value[n] = val,
            !.state[n] = "clean",
            !.ran = IF n \in Effect THEN r.ran \cup {n} ELSE r.ran]

Return(r, val) == Ended([Pop(r) EXCEPT !.computing = Top(r).prev], Top(r).node, val)

(* reactive_get, which leaves the value in node n.                         *)
Track(r, n) == IF r.computing \in {Nowhere, n} THEN r ELSE AddDep(r, r.computing, n)

MustCompute(r, n) == n \in Derived /\ r.state[n] = "dirty" /\ Reads[n] # <<>>

Get(r, n) ==
  IF MustCompute(Track(r, n), n) THEN Recompute(Track(r, n), n) ELSE Track(r, n)

(* What an effect, or the body of a when block, does in the end.           *)
Act(r, n, val) ==
  IF Writes[n] = Nowhere THEN r
  ELSE SetValue(r, Writes[n], IF n \in Resets THEN False ELSE val)

(* A when block fires; only after its body is it marked as triggered.      *)
Fire(r, w) ==
  Act([Resume(r, NewCall(r, "mark", w, <<>>)) EXCEPT !.fired[w] =
         IF r.fired[w] < 2 THEN r.fired[w] + 1 ELSE 2],
      w, True)

(* Faulty variant: the mark is forgotten.                                  *)
MarkNot(r) == Pop(r)

Mark(r) == [Pop(r) EXCEPT !.triggered[Top(r).node] = TRUE]

(* The compute function of node n has read its sources and got val.        *)
HasRead(r, val) ==
  LET n == Top(r).node IN
  CASE n \in Effect /\ Top(r).op = "compute" ->
         Act([Resume(r, [Top(r) EXCEPT !.op = "return"]) EXCEPT !.seen[n] = val], n, val)
    [] n \in Effect /\ Top(r).op = "condition" ->
         Act([Pop(r) EXCEPT !.seen[n] = val], n, val)
    [] n \notin Effect /\ Top(r).op = "compute" -> Return(r, val)
    [] n \notin Effect /\ Top(r).op = "condition" /\ val = True -> Fire(r, n)
    [] OTHER -> [Pop(r) EXCEPT !.triggered[n] = r.triggered[n] /\ n \in Once]

(* The compute function reads its next source; once a derived source has   *)
(* been computed, it goes on with it.                                      *)
ReadNext(r) ==
  LET n      == Top(r).node
      source == Reads[n][Top(r).at]
      read   == Track(r, source)
      val    == r.value[source]
  IN IF MustCompute(r, source) THEN Get(r, source)
     ELSE IF val = False \/ Top(r).at = Len(Reads[n]) THEN HasRead(read, val)
     ELSE NextRound(read)

(* The loop of reactive_propagate: the newest entry first.                 *)
DrainNext(r) ==
  LET n     == Last(r.queue)
      taken == [r EXCEPT !.queue = Front(r.queue)]
  IN IF r.queue = <<>> THEN Pop(r)
     ELSE IF r.state[n] # "dirty" \/ n \in r.disposed THEN taken
     ELSE Recompute(taken, n)

(* A NULL pointer has been called: nothing of the call is left.            *)
Crashed(r) == [r EXCEPT !.crashed = TRUE, !.calls = <<>>, !.computing = Nowhere]

(* The loop of reactive_check_triggers, which takes every effect with user *)
(* data for a when block and evaluates its function.                       *)
TriggersNext(r) ==
  LET w == Created[Top(r).at] IN
  IF Top(r).at > Len(Created) THEN Pop(r)
  ELSE IF \/ w \notin When \cup UserData \/ w \in r.disposed
          \/ w \in Once /\ r.triggered[w]
    THEN NextRound(r)
  ELSE IF Reads[w] = <<>> THEN Crashed(r)
  ELSE Push(NextRound(r), NewCall(r, "condition", w, <<>>))

CheckTriggers(r) == Push(r, NewCall(r, "triggers", Nowhere, <<>>))

(* reactive_propagate                                                      *)
Propagate(r) ==
  IF r.is_propagating THEN r
  ELSE LET settling == Push([r EXCEPT !.is_propagating = TRUE],
                            NewCall(r, "settle", Nowhere, <<>>))
       IN Push(CheckTriggers(settling), NewCall(r, "drain", Nowhere, <<>>))

(* The loop of reactive_transaction_commit.                                *)
AnnounceNext(r) ==
  IF Top(r).at > Len(r.changes) THEN Pop(r)
  ELSE Invalidate(NextRound(r), r.changes[Top(r).at])

Step(r) ==
  CASE Top(r).op = "invalidate" -> InvalidateNext(r)
    [] Top(r).op = "announce"   -> AnnounceNext(r)
    [] Top(r).op = "propagate"  -> Propagate(Pop(r))
    [] Top(r).op = "drain"      -> DrainNext(r)
    [] Top(r).op = "triggers"   -> TriggersNext(r)
    [] Top(r).op = "settle"     -> [Pop(r) EXCEPT !.is_propagating = FALSE]
    [] Top(r).op = "return"     -> Return(r, Nil)
    [] Top(r).op = "mark"       -> Mark(r)
    [] Top(r).op = "commit"     -> [Pop(r) EXCEPT !.changes = <<>>]
    [] OTHER                    -> ReadNext(r)

(* The steps of a call; a longer call, and one that never ends, is left    *)
(* out: MaxSteps = 256.                                                    *)
Over(r) == r.calls = <<>>

FourTimes(Do(_), r) == IF Over(r) THEN r ELSE Do(Do(Do(Do(r))))

Run1(r)   == IF Over(r) THEN r ELSE Step(r)
Run4(r)   == FourTimes(Run1, r)
Run16(r)  == FourTimes(Run4, r)
Run64(r)  == FourTimes(Run16, r)
Run256(r) == FourTimes(Run64, r)

Runs(r) ==
  /\ rt' = Run256(r)
  /\ Over(rt')

-----------------------------------------------------------------------------
(* The API.                                                                *)

(* reactive_runtime_create, and the creation of every node.                *)
Init ==
  /\ rt = [value |-> [n \in Node |-> IF n \in State THEN False ELSE Nil],
           prev_value |-> [x \in State |-> False],
           state |-> [n \in Node |-> IF n \in State THEN "clean" ELSE "dirty"],
           deps |-> [n \in Node |-> <<>>],
           dependents |-> [n \in Node |-> <<>>],
           disposed |-> {},
           triggered |-> [w \in When |-> FALSE],
           fired |-> [w \in When |-> 0],
           seen |-> [e \in Effect |-> Nil],
           ran |-> {},
           missed |-> {},
           crashed |-> FALSE,
           queue |-> <<>>,
           computing |-> Nowhere,
           is_propagating |-> FALSE,
           in_transaction |-> FALSE,
           changes |-> <<>>,
           calls |-> <<>>]
  /\ saved = NotSaved
  /\ unannounced = {}

Written(x) == x \in ToSet(rt.changes)

(* reactive_set by the client.                                             *)
Set(x, val) ==
  /\ Len(rt.changes) < MaxChanges
  /\ Runs(SetValue(rt, x, val))
  /\ unannounced' = IF rt.value[x] = val \/ rt.in_transaction THEN unannounced
                    ELSE unannounced \ {x}
  /\ UNCHANGED saved

(* reactive_get of a derived value by the client.                          *)
Read(d) ==
  /\ Runs(Get(rt, d))
  /\ UNCHANGED <<saved, unannounced>>

(* reactive_recompute, "Forca re-computacao de um no": an effect runs for  *)
(* the first time by it.                                                   *)
RecomputeNow(n) ==
  /\ n \notin rt.disposed
  /\ Len(rt.changes) < MaxChanges
  /\ Runs(Recompute(rt, n))
  /\ UNCHANGED <<saved, unannounced>>

(* reactive_add_dep, as ws_driver.c:589 calls it for the state an effect   *)
(* reads first.                                                            *)
Declare(e) ==
  /\ e \notin rt.disposed
  /\ Reads[e] # <<>>
  /\ rt' = AddDep(rt, e, Reads[e][1])
  /\ UNCHANGED <<saved, unannounced>>

(* reactive_transaction_begin; inside a transaction it forgets what was    *)
(* written so far.                                                         *)
Begin ==
  /\ rt' = [rt EXCEPT !.in_transaction = TRUE, !.changes = <<>>]
  /\ saved' = [x \in State |-> rt.value[x]]
  /\ unannounced' = unannounced \cup ToSet(rt.changes)

(* Faulty variant: what was written is not invalidated.                    *)
CommitSilently ==
  /\ rt.in_transaction
  /\ LET open == [rt EXCEPT !.in_transaction = FALSE]
         rest == Push(open, NewCall(open, "commit", Nowhere, <<>>))
     IN Runs(Push(rest, NewCall(open, "propagate", Nowhere, <<>>)))
  /\ saved' = NotSaved
  /\ unannounced' = unannounced \ ToSet(rt.changes)

(* reactive_transaction_commit invalidates what was written, propagates,   *)
(* and only then forgets it.                                               *)
Commit ==
  /\ rt.in_transaction
  /\ LET open == [rt EXCEPT !.in_transaction = FALSE]
         rest == Push(Push(open, NewCall(open, "commit", Nowhere, <<>>)),
                      NewCall(open, "propagate", Nowhere, <<>>))
     IN Runs(Push(rest, NewCall(open, "announce", Nowhere, <<>>)))
  /\ saved' = NotSaved
  /\ unannounced' = unannounced \ ToSet(rt.changes)

(* Faulty variant: only the last write is undone.                          *)
RollbackLast ==
  /\ rt.in_transaction
  /\ rt' = [rt EXCEPT
       !.value = [n \in Node |-> IF rt.changes # <<>> /\ n = Last(rt.changes)
                                   THEN rt.prev_value[n] ELSE rt.value[n]],
       !.in_transaction = FALSE,
       !.changes = <<>>]
  /\ saved' = NotSaved
  /\ unannounced' = unannounced \cup ToSet(rt.changes)

(* reactive_transaction_rollback                                           *)
Rollback ==
  /\ rt.in_transaction
  /\ rt' = [rt EXCEPT
       !.value = [n \in Node |-> IF Written(n) THEN rt.prev_value[n] ELSE rt.value[n]],
       !.in_transaction = FALSE,
       !.changes = <<>>]
  /\ saved' = NotSaved
  /\ unannounced' = unannounced \cup ToSet(rt.changes)

(* reactive_check_triggers by the client, outside a propagation.           *)
Check ==
  /\ Len(rt.changes) < MaxChanges
  /\ Runs(CheckTriggers(rt))
  /\ UNCHANGED <<saved, unannounced>>

(* reactive_propagate by the client (module_interface.c:276).              *)
Poll ==
  /\ Len(rt.changes) < MaxChanges
  /\ Runs(Propagate(rt))
  /\ UNCHANGED <<saved, unannounced>>

(* reactive_dispose of a node that nobody reads.                           *)
Dispose(n) ==
  /\ rt' = ClearDeps([rt EXCEPT !.disposed = rt.disposed \cup {n}], n)
  /\ UNCHANGED <<saved, unannounced>>

Call ==
  \/ \E x \in State, val \in {False, True} : Set(x, val)
  \/ \E d \in Derived : Read(d)
  \/ \E e \in Effect : RecomputeNow(e) \/ Declare(e)
  \/ \E n \in Disposable : Dispose(n)
  \/ Begin \/ Commit \/ Rollback \/ Check \/ Poll

Next == ~rt.crashed /\ Call

Spec == Init /\ [][Next]_vars

-----------------------------------------------------------------------------
(* Properties.                                                             *)

(* What a function that reads the sources of n gets, if f are the values:  *)
(* the first one that is false, or the last.                               *)
ReadOf(f, n) ==
  LET end == CHOOSE k \in DOMAIN Reads[n] :
               /\ \A j \in 1 .. k - 1 : f[Reads[n][j]] # False
               /\ f[Reads[n][k]] = False \/ k = Len(Reads[n])
  IN f[Reads[n][end]]

(* The value of every state, and what every derived value would be if it   *)
(* were computed from the states now.                                      *)
Current[n \in State \cup Derived] ==
  IF n \in State THEN rt.value[n] ELSE ReadOf(Current, n)

(* The states that n depends on, directly or not.                          *)
Closed(S) == \A m \in S \cap Computed : ToSet(Reads[m]) \subseteq S

Sources ==
  [n \in Node |-> {x \in State : \A S \in SUBSET Node : (n \in S /\ Closed(S)) => x \in S}]

Announced(n) == \A x \in unannounced : x \notin Sources[n]

(* The graph is known from both ends: a node lists a source exactly if the *)
(* source lists the node, once.                                            *)
LinksAgree ==
  \A m, n \in Node :
    Cardinality({i \in DOMAIN rt.deps[n] : rt.deps[n][i] = m})
      = Cardinality({i \in DOMAIN rt.dependents[m] : rt.dependents[m][i] = n})

(* "Mudancas propagam automaticamente pelo grafo" (reactive.h:22): outside *)
(* a transaction, a derived value that is not dirty, which is what a read  *)
(* returns without computing, is the one its sources have now, whatever    *)
(* sources it happened to read last time.  What an aborted transaction     *)
(* wrote is excepted: rollback invalidates nothing.                        *)
DerivedCurrent ==
  ~rt.in_transaction =>
    \A d \in Derived :
      (rt.state[d] = "clean" /\ Announced(d)) => rt.value[d] = Current[d]

EffectsSeeChanges ==
  (~rt.in_transaction /\ rt.queue = <<>>) =>
    \A e \in rt.ran \ (rt.disposed \cup rt.missed) :
      Announced(e) => rt.state[e] = "clean" /\ rt.seen[e] = ReadOf(Current, e)

OnlyTriggersLeaveWork ==
  \A i \in DOMAIN rt.queue :
    \E w \in When \cup UserData : Writes[w] \in Sources[rt.queue[i]]

(* An effect that has run once runs again after every change of what it    *)
(* reads: when nothing is queued and no transaction is open, its last run  *)
(* has seen the current values, unless the change came while that run was  *)
(* on, from its own write or from what that write has set off:             *)
(* then it is passed over (reactive.c:348) and keeps, clean, what it saw.  *)
(* And a propagation leaves nothing in the queue but what when blocks, and *)
(* the effects that are taken for such, have invalidated after its loop.   *)
EffectsSettled == EffectsSeeChanges /\ OnlyTriggersLeaveWork

WrittenOnce(x) ==
  \A i, j \in DOMAIN rt.changes : (rt.changes[i] = x /\ rt.changes[j] = x) => i = j

(* "Aborta transacao (descarta mudancas)": rollback gives a state that was *)
(* written once since begin its value back.  (One that was written more    *)
(* often gets the value before the last write.)                            *)
RollbackRestores ==
  [][Rollback =>
       \A x \in State : WrittenOnce(x) => rt'.value[x] = saved[x]]_vars

(* A when block with the flag "once" fires in one call at most.  Within a  *)
(* call of reactive_check_triggers it may fire twice: it is marked after   *)
(* its body, and a write in the body propagates.                           *)
OnceFiresOnce ==
  [][\A w \in Once : rt'.fired[w] # rt.fired[w] =>
       /\ rt.fired[w] = 0
       /\ rt'.fired[w] = 1 \/ Check]_vars

(* reactive.c:493 skips the nodes that are not when blocks ("Nao e when    *)
(* block"), so that what it calls are conditions: never a function pointer *)
(* that is NULL.                                                           *)
OnlyConditionsAreCalled == ~rt.crashed
==============================================================================
