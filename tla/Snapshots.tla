----------------------------- MODULE Snapshots ------------------------------
(***************************************************************************)
(* The snapshot manager (core/vm/snapshot.c) beside the machine whose      *)
(* locals and stack it saves and puts back.  A value of interest is a      *)
(* string object with a reference count: the machine and every snapshot    *)
(* own references, and an object whose count reaches zero is freed.        *)
(*                                                                         *)
(* A snapshot is its id, a pointer to one is an id or NULL, and "snaps"    *)
(* is the heap: its domain holds the snapshots not yet freed.  The program *)
(* counter is abstracted to "due": the locals whose RELEASE instruction is *)
(* still to be run.                                                        *)
(***************************************************************************)
EXTENDS Integers, Sequences, FiniteSets

CONSTANTS
  Objects,        (* bound: the string objects a program makes *)
  Slots,          (* the locals in use                         *)
  max_snapshots,  (* snapshots kept, 100 in the code           *)
  MaxStack,       (* bound: values on the stack                *)
  MaxStores,      (* bound: surplus references of one object   *)
  MaxSnapshots    (* bound: snapshots ever created             *)

VARIABLES
  refs,       (* ref_count of the objects; zero before and after their life *)
  made,       (* history: the objects made so far                           *)
  locals, stack, due,
  snaps, snapshots, current, next_id,
  surplus,    (* history: stores of each object less its RELEASEs           *)
  astray      (* history: the oldest snapshot was destroyed as the current  *)

machine == <<refs, made, locals, stack, due, surplus>>
manager == <<snaps, snapshots, current, next_id, astray>>
vars == <<machine, manager>>

NIL  == "nil"
NULL == 0
Value == Objects \cup {NIL}

\* An object is not NIL, and a program has finitely many locals.
ProgramIsSound ==
  NIL \notin Objects /\ IsFiniteSet(Slots) /\ MaxSnapshots \in Nat /\ max_snapshots \in Nat

\* What a snapshot keeps of the machine, and its neighbours in the list.
CompleteSnapshot ==
  [locals : [Slots -> Value], stack : Seq(Value), due : SUBSET Slots,
   prev : 0 .. MaxSnapshots, next : 0 .. MaxSnapshots]

----------------------------------------------------------------------------
(* Reference counts                                                        *)

Times(o, values) == Cardinality({i \in DOMAIN values : values[i] = o})

value_retain(r, values)  == [o \in Objects |-> r[o] + Times(o, values)]
value_release(r, values) == [o \in Objects |-> r[o] - Times(o, values)]

\* A snapshot owns one reference for each of its copies.
Release(r, snap) == value_release(value_release(r, snap.stack), snap.locals)

\* The copies of a value in a snapshot, and in all of the heap.
Copies(o, i, snap) ==
  {<<i, "locals", k>> : k \in {k \in Slots : snap.locals[k] = o}}
    \cup {<<i, "stack", k>> : k \in {k \in DOMAIN snap.stack : snap.stack[k] = o}}
Saved(o, s) == UNION {Copies(o, i, s[i]) : i \in DOMAIN s}

Holders(o) == Times(o, locals) + Times(o, stack) + Cardinality(Saved(o, snaps))

\* Using a freed object is undefined: the model goes no further.
Sound == \A o \in Objects : Holders(o) > 0 => refs[o] > 0

----------------------------------------------------------------------------
(* The list                                                                *)

Pointer == {NULL} \cup DOMAIN snaps

\* What a walk along next does not leave.
ClosedUnderNext(s, S) == \A k \in S : s[k].next \in DOMAIN s => s[k].next \in S

\* What a walk from snapshot i along next meets: what is in every such set.
Reachable(s, i) ==
  {j \in DOMAIN s : \A S \in SUBSET DOMAIN s :
      ClosedUnderNext(s, S) /\ (i \in DOMAIN s => i \in S) => j \in S}

Listed == Reachable(snaps, snapshots)

\* There is a first snapshot to evict, and one too many.
Overfull(s, first) == first \in DOMAIN s /\ Cardinality(Reachable(s, first)) > max_snapshots

Set(s, i, field, j) == IF i = NULL THEN s ELSE [s EXCEPT ![i][field] = j]
Without(s, i) == [j \in DOMAIN s \ {i} |-> s[j]]

Init ==
  /\ refs = [o \in Objects |-> 0] /\ made = {}
  /\ locals = [k \in Slots |-> NIL] /\ stack = << >> /\ due = {}
  /\ snaps = [i \in {} |-> {}] /\ snapshots = NULL /\ current = NULL /\ next_id = 1
  /\ surplus = [o \in Objects |-> 0] /\ astray = FALSE

----------------------------------------------------------------------------
(* Instructions of the machine                                             *)

\* A literal string: obj_string_create gives it the stack's reference.
LoadConst ==
  /\ Len(stack) < MaxStack
  /\ \E o \in Objects \ made :
       /\ made' = made \cup {o}
       /\ refs' = [refs EXCEPT ![o] = 1]
       /\ stack' = Append(stack, o)
  /\ UNCHANGED <<locals, due, surplus, manager>>

\* The popped reference would do; the value is retained once more, and it is
\* RELEASE that gives the surplus back.
StoreLocal ==
  /\ stack # << >>
  /\ \E k \in Slots :
       LET value == stack[Len(stack)]
       IN  /\ surplus[value] < MaxStores
           /\ refs' = value_retain(value_release(refs, <<locals[k]>>), <<value>>)
           /\ locals' = [locals EXCEPT ![k] = value]
           /\ due' = due \cup {k}
           /\ surplus' = value_retain(surplus, <<value>>)
  /\ stack' = SubSeq(stack, 1, Len(stack) - 1)
  /\ UNCHANGED <<made, manager>>

Pop ==
  /\ stack # << >>
  /\ refs' = value_release(refs, <<stack[Len(stack)]>>)
  /\ stack' = SubSeq(stack, 1, Len(stack) - 1)
  /\ UNCHANGED <<made, locals, due, surplus, manager>>

\* The local keeps its value.
ReleaseLocal ==
  /\ \E k \in due :
       /\ refs' = value_release(refs, <<locals[k]>>)
       /\ due' = due \ {k}
       /\ surplus' = value_release(surplus, <<locals[k]>>)
  /\ UNCHANGED <<made, locals, stack, manager>>

----------------------------------------------------------------------------
(* Operations of the manager                                               *)

\* The new snapshot goes behind the current one, whatever followed that.
snapshot_create ==
  /\ next_id <= MaxSnapshots
  /\ LET snap == [locals |-> locals, stack |-> stack, due |-> due,
                  prev |-> IF snapshots = NULL THEN NULL ELSE current, next |-> NULL]
         linked == Set([i \in DOMAIN snaps \cup {next_id} |->
                          IF i = next_id THEN snap ELSE snaps[i]],
                       IF snapshots = NULL THEN NULL ELSE current, "next", next_id)
         first == IF snapshots = NULL THEN next_id ELSE snapshots
         held == value_retain(value_retain(refs, locals), stack)
     IN  \* At most one snapshot is over the limit after each creation.
         IF ~Overfull(linked, first)
           THEN /\ snaps' = linked
                /\ snapshots' = first
                /\ current' = next_id
                /\ refs' = held
           ELSE /\ snapshots' = linked[first].next
                /\ snaps' = Without(Set(linked, linked[first].next, "prev", NULL), first)
                /\ current' = IF first = next_id THEN NULL ELSE next_id
                /\ refs' = Release(held, linked[first])
  /\ next_id' = next_id + 1
  /\ UNCHANGED <<made, locals, stack, due, surplus, astray>>

\* Faulty variant: the values put back are not retained.
RestoreWithoutRetain(i) ==
  /\ refs' = value_release(value_release(refs, locals), stack)
  /\ locals' = snaps[i].locals
  /\ stack' = snaps[i].stack
  /\ due' = snaps[i].due
  /\ current' = i
  /\ astray' = FALSE
  /\ UNCHANGED <<made, surplus, snaps, snapshots, next_id>>

\* Every local is released and replaced; the stack is emptied and refilled.
Restore(i) ==
  /\ refs' = value_retain(value_retain(
               value_release(value_release(refs, locals), stack),
               snaps[i].locals), snaps[i].stack)
  /\ locals' = snaps[i].locals
  /\ stack' = snaps[i].stack
  /\ due' = snaps[i].due
  /\ current' = i
  /\ astray' = FALSE
  /\ UNCHANGED <<made, surplus, snaps, snapshots, next_id>>

snapshot_restore == \E i \in Listed : Restore(i)

\* Fails when the previous one cannot be found in the list.
snapshot_rollback ==
  /\ current # NULL
  /\ snaps[current].prev \in Listed
  /\ Restore(snaps[current].prev)

snapshot_destroy ==
  /\ \E i \in Listed :
       LET snap == snaps[i]
       IN  /\ snapshots' = IF snap.prev = NULL THEN snap.next ELSE snapshots
           /\ snaps' = Without(Set(Set(snaps, snap.prev, "next", snap.next),
                                   snap.next, "prev", snap.prev), i)
           /\ current' = IF current = i THEN snap.prev ELSE current
           /\ astray' = (astray \/ (current = i /\ snap.prev = NULL /\ snap.next # NULL))
           /\ refs' = Release(refs, snap)
  /\ UNCHANGED <<made, locals, stack, due, surplus, next_id>>

Next ==
  /\ Sound
  /\ \/ LoadConst \/ StoreLocal \/ Pop \/ ReleaseLocal
     \/ snapshot_create \/ snapshot_restore \/ snapshot_rollback \/ snapshot_destroy

Spec == Init /\ [][Next]_vars

----------------------------------------------------------------------------

(* The types: no count is negative by construction, and an id names a      *)
(* snapshot that has been created.                                         *)
TypeOK ==
  /\ made \subseteq Objects
  /\ refs \in [Objects -> Int]
  /\ locals \in [Slots -> Value]
  /\ stack \in Seq(Value)
  /\ due \subseteq Slots
  /\ next_id \in 1 .. MaxSnapshots + 1
  /\ DOMAIN snaps \subseteq 1 .. next_id - 1
  /\ \A i \in DOMAIN snaps : snaps[i] \in CompleteSnapshot
  /\ {snapshots, current} \subseteq 0 .. next_id - 1

(* No object is freed under the machine or under a snapshot: every copy of *)
(* a value is covered by a reference of its own, whatever is saved, put    *)
(* back, evicted and destroyed in between.  The one exception is an object *)
(* that was RELEASEd more often than it was stored (vm.c:260-272 and       *)
(* 494-521), which takes a machine that was put back to before a RELEASE   *)
(* it had run.                                                             *)
HeldIsCounted == \A o \in Objects : surplus[o] >= 0 => refs[o] >= Holders(o)

(* A walk over the list meets live snapshots only, the oldest first, and   *)
(* the two directions agree, so that eviction frees the oldest and         *)
(* rollback goes to an earlier one; the pointers a later call will follow  *)
(* are not dangling.                                                       *)
ListIsSound ==
  /\ snapshots \in Pointer /\ current \in Pointer
  /\ snapshots # NULL => snaps[snapshots].prev = NULL
  /\ \A i \in Listed :
       /\ snaps[i].next \in Pointer
       /\ snaps[i].next # NULL => snaps[i].next > i /\ snaps[snaps[i].next].prev = i
  /\ current # NULL => snaps[current].prev \in Pointer
  /\ Cardinality(Listed) <= max_snapshots

(* The current snapshot can be found again: it is in the list.  Only the   *)
(* destruction of the oldest snapshot while it is the current one breaks   *)
(* it, because its successor does not become the current one               *)
(* (snapshot.c:242), and what is created then is out of the list until     *)
(* the next restore.                                                       *)
CurrentIsListed ==
  ~astray => IF snapshots = NULL THEN current = NULL ELSE current \in Listed

=============================================================================
