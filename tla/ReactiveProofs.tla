--------------------------- MODULE ReactiveProofs ---------------------------
(***************************************************************************)
(* The reactive runtime, whatever its graph, its functions and the calls   *)
(* of its client.                                                          *)
(***************************************************************************)
EXTENDS Reactive, ListLemmas

-----------------------------------------------------------------------------
(* The inductive invariant.                                                *)

(* A rank of the values that falls from each one to what it is made from.  *)
Ranks(rank) ==
  /\ rank \in [State \cup Derived -> Nat]
  /\ \A n \in State \cup Derived : rank[n] <= Len(Created)
  /\ \A d \in Derived : \A m \in ToSet(Reads[d]) : rank[m] < rank[d]

Rank == CHOOSE rank : Ranks(rank)

(* The frames.  A derived value is being computed, or a condition: while   *)
(* this lasts, nothing runs but what computes derived values.              *)
Deriving(c) == c.op = "compute" /\ c.node \in Derived
Reading(c)  == Deriving(c) \/ c.op = "condition"

ReadsOn(c) == Reads[c.node] # <<>> /\ c.at \in 1 .. Len(Reads[c.node])

FrameSound(c) ==
  /\ c.op = "compute" => c.node \in Computed /\ ReadsOn(c)
  /\ c.op = "condition" => c.node \in Sink /\ ReadsOn(c)
  /\ c.op = "return" => c.node \in Effect
  /\ c.op = "mark" => c.node \in When

Typed(r) ==
  /\ r \in ReactiveRuntime
  /\ Len(r.queue) <= BatchSize
  /\ \A k \in DOMAIN r.calls : FrameSound(r.calls[k])

(* Both ends of the graph.                                                 *)
Linked(deps, dependents) ==
  \A m \in Node, n \in Node :
    /\ IsInjective(deps[n]) /\ IsInjective(dependents[m])
    /\ m \in ToSet(deps[n]) <=> n \in ToSet(dependents[m])

(* What is being computed while frame c is the top one.                    *)
After(c) == IF c.op \in {"compute", "return"} THEN c.node ELSE c.prev

Bottom(c) == c.prev = Nowhere /\ c.op \notin {"condition", "mark"}

(* Frame d stands directly on frame c.                                     *)
StandsOn(d, c) ==
  /\ d.prev = After(c)
  /\ d.op \in {"condition", "mark"} => c.op = "triggers"
  /\ c.op = "announce" => d.op = "invalidate"
  /\ c.op # "invalidate"

(* Frame d stands somewhere over frame c.                                  *)
StandsOver(d, c) ==
  /\ Reading(c) => Deriving(d)
  /\ Deriving(c) => Rank[d.node] < Rank[c.node]
  /\ c.op = "settle" => d.op # "settle"

Stacked(calls, computing) ==
  /\ computing = IF calls = <<>> THEN Nowhere ELSE After(Last(calls))
  /\ calls # <<>> => Bottom(calls[1])
  /\ \A k \in 1 .. Len(calls) - 1 : StandsOn(calls[k + 1], calls[k])
  /\ \A k \in DOMAIN calls : \A j \in 1 .. k - 1 : StandsOver(calls[k], calls[j])

(* What the runtime says of itself is due to a call in progress.           *)
Due(calls, state) ==
  \A n \in Node : state[n] = "computing" =>
    \E k \in DOMAIN calls : calls[k].op \in {"compute", "return"} /\ calls[k].node = n

Settling(calls) == \E k \in DOMAIN calls : calls[k].op = "settle"
Closing(calls)  == \E k \in DOMAIN calls : calls[k].op \in {"announce", "commit"}

Accounted(r) ==
  /\ r.crashed => r.calls = <<>>
  /\ ~r.crashed => Due(r.calls, r.state) /\ (r.is_propagating <=> Settling(r.calls))
  /\ Closing(r.calls) => ~r.in_transaction

(* The nodes that invalidation has still to look at, and the states whose  *)
(* dependents it has not been told of.                                     *)
Pending(calls) ==
  IF calls # <<>> /\ Last(calls).op = "invalidate" THEN ToSet(Last(calls).todo) ELSE {}

Open(calls, in_transaction, i) ==
  in_transaction \/ \E k \in DOMAIN calls : calls[k].op = "announce" /\ i >= calls[k].at

Untold(calls, in_transaction, changes, secret) ==
  secret \cup {changes[i] : i \in {j \in DOMAIN changes : Open(calls, in_transaction, j)}}

(* The first k sources of d are its dependencies, and clean.               *)
Relies(d, k, deps, state) ==
  \A j \in 1 .. k : Reads[d][j] \in ToSet(deps[d]) /\ state[Reads[d][j]] = "clean"

(* The function of d reads its first k sources, and gets this value.       *)
Gets(d, k, value) ==
  /\ \A j \in 1 .. k - 1 : value[Reads[d][j]] # False
  /\ value[Reads[d][k]] = False \/ k = Len(Reads[d])

Holds(d, k, value, untold) ==
  \/ \E j \in 1 .. k : Reads[d][j] \in untold
  \/ Gets(d, k, value) /\ value[d] = value[Reads[d][k]]

Supported(d, deps, state, value, untold) ==
  \E k \in DOMAIN Reads[d] : Relies(d, k, deps, state) /\ Holds(d, k, value, untold)

Progress(c, deps, state, value) ==
  /\ state[c.node] = "computing"
  /\ Relies(c.node, c.at - 1, deps, state)
  /\ \A j \in 1 .. c.at - 1 : value[Reads[c.node][j]] # False

Derivation(calls, deps, state, value, untold) ==
  /\ \A x \in State : state[x] = "clean"
  /\ \A k \in DOMAIN calls : Deriving(calls[k]) => Progress(calls[k], deps, state, value)
  /\ \A d \in Derived : state[d] = "clean" =>
       d \in Pending(calls) \/ Supported(d, deps, state, value, untold)

Sound(r, secret) ==
  /\ Typed(r)
  /\ Linked(r.deps, r.dependents)
  /\ Stacked(r.calls, r.computing)
  /\ Accounted(r)
  /\ Derivation(r.calls, r.deps, r.state, r.value,
                Untold(r.calls, r.in_transaction, r.changes, secret))

(* What rollback needs.                                                    *)
Once1(changes, x) ==
  \A i, j \in DOMAIN changes : (changes[i] = x /\ changes[j] = x) => i = j

Restorable(r, old) ==
  r.in_transaction =>
    \A x \in State :
      IF x \in ToSet(r.changes) THEN Once1(r.changes, x) => r.prev_value[x] = old[x]
      ELSE r.value[x] = old[x]

(* The when blocks that fire once.                                         *)
FiresOnce(r, first, check) ==
  /\ \A w \in Once :
       /\ ~r.crashed /\ r.fired[w] > 0 =>
            \/ r.triggered[w]
            \/ \E k \in DOMAIN r.calls : r.calls[k].op = "mark" /\ r.calls[k].node = w
       /\ first[w] > 0 => r.triggered[w] /\ r.fired[w] = first[w]
       /\ ~check => r.fired[w] \in {first[w], 1}
  /\ \A k \in DOMAIN r.calls :
       r.calls[k].op = "condition" /\ r.calls[k].node \in Once => ~r.triggered[r.calls[k].node]
  /\ ~check => \A k \in DOMAIN r.calls : r.calls[k].op = "triggers" =>
       k > 1 /\ r.calls[k - 1].op = "settle"

-----------------------------------------------------------------------------
(* The stack.                                                              *)

(* What a call puts on the stack.                                          *)
LEMMA PushElements ==
  ASSUME NEW S, NEW s \in Seq(S), NEW c \in S
  PROVE  /\ Append(s, c) \in Seq(S) /\ Len(Append(s, c)) = Len(s) + 1
         /\ DOMAIN Append(s, c) = 1 .. Len(s) + 1
         /\ \A k \in 1 .. Len(s) : Append(s, c)[k] = s[k]
         /\ Append(s, c)[Len(s) + 1] = c /\ Last(Append(s, c)) = c
         /\ Append(s, c) # <<>> /\ DOMAIN s = 1 .. Len(s) /\ Len(s) \in Nat
<1>1. /\ Append(s, c) \in Seq(S) /\ Len(Append(s, c)) = Len(s) + 1
      /\ DOMAIN Append(s, c) = 1 .. Len(s) + 1
      /\ \A k \in 1 .. Len(s) : Append(s, c)[k] = s[k]
      /\ Append(s, c)[Len(s) + 1] = c
  BY AppendElements
<1>2. DOMAIN s = 1 .. Len(s) /\ Len(s) \in Nat
  BY LenProperties
<1>3. Append(s, c) # <<>>
  BY <1>1, <1>2, EmptySeq
<1>4. Last(Append(s, c)) = c
  BY <1>1 DEF Last
<1>. QED
  BY <1>1, <1>2, <1>3, <1>4

(* A frame may be put on a stack.                                          *)
Fits(c, calls) ==
  /\ c.op \in {"condition", "mark"} => calls # <<>> /\ Last(calls).op = "triggers"
  /\ calls # <<>> =>
       /\ Last(calls).op # "invalidate"
       /\ Last(calls).op = "announce" => c.op = "invalidate"
       /\ Reading(Last(calls)) => Deriving(c)
       /\ Deriving(Last(calls)) => Rank[c.node] < Rank[Last(calls).node]
  /\ c.op = "settle" => ~Settling(calls)

(* A frame may take the place of another one.                              *)
Replaces(c, d) ==
  /\ c.prev = d.prev
  /\ c.op \in {"condition", "mark"} => d.op \in {"condition", "mark"}
  /\ d.op = "invalidate" => c.op = "invalidate"
  /\ Deriving(d) => Deriving(c) /\ c.node = d.node
  /\ c.op # "settle"

(* The ranks are there.                                                    *)
LEMMA RankIsRank == Ranks(Rank)
<1>1. PICK rank \in [State \cup Derived -> 0 .. Len(Created)] :
        \A d \in Derived : \A m \in ToSet(Reads[d]) : rank[m] < rank[d]
  BY ClientAssumption
<1>2. Len(Created) \in Nat
  BY NodeAssumption, LenProperties
<1>3. rank \in [State \cup Derived -> Nat] /\ \A n \in State \cup Derived : rank[n] <= Len(Created)
  BY <1>2
<1>4. Ranks(rank)
  BY <1>1, <1>3 DEF Ranks
<1>. QED
  BY <1>4 DEF Rank

LEMMA StackPush ==
  ASSUME NEW calls \in Seq(Frame), NEW c \in Frame, NEW computing,
         Stacked(calls, computing), c.prev = computing, Fits(c, calls)
  PROVE  Stacked(Append(calls, c), After(c))
<1> DEFINE l == Len(calls)
           t == Append(calls, c)
<1>1. /\ t \in Seq(Frame) /\ Len(t) = l + 1 /\ DOMAIN t = 1 .. l + 1
      /\ \A k \in 1 .. l : t[k] = calls[k]
      /\ t[l + 1] = c /\ Last(t) = c /\ t # <<>>
      /\ DOMAIN calls = 1 .. l /\ l \in Nat
  BY PushElements
<1>2. ASSUME calls # <<>> PROVE l > 0 /\ Last(calls) = calls[l] /\ l \in 1 .. l /\ calls[l] \in Frame
  <2>1. l \in Nat \ {0} /\ Last(calls) = calls[l] /\ Last(calls) \in Frame
    BY <1>2, FrontElements
  <2>. QED
    BY <2>1
<1>3. calls = <<>> => l = 0
  BY <1>1
<1> HIDE DEF t, l
<1>4. Bottom(t[1])
  <2>1. CASE calls = <<>>
    <3>1. t[1] = c
      BY <1>1, <1>3, <2>1
    <3>. QED
      BY <2>1, <3>1 DEF Bottom, Fits, Stacked
  <2>2. CASE calls # <<>>
    <3>1. t[1] = calls[1]
      BY <1>1, <1>2, <2>2
    <3>. QED
      BY <2>2, <3>1 DEF Stacked
  <2>. QED
    BY <2>1, <2>2
<1>5. ASSUME NEW k \in 1 .. l PROVE StandsOn(t[k + 1], t[k])
  <2>1. CASE k < l
    <3>1. k \in 1 .. l - 1 /\ t[k] = calls[k] /\ t[k + 1] = calls[k + 1]
      BY <1>1, <2>1
    <3>. QED
      BY <3>1 DEF Stacked, l
  <2>2. CASE k = l
    <3>1. calls # <<>> /\ t[k] = Last(calls) /\ t[k + 1] = c
      BY <1>1, <1>2, <1>3, <2>2
    <3>. QED
      BY <3>1 DEF StandsOn, Fits, Stacked
  <2>. QED
    BY <1>1, <2>1, <2>2
<1>6. ASSUME NEW j \in 1 .. l PROVE StandsOver(c, calls[j])
  <2>1. calls # <<>>
    BY <1>1, <1>3
  <2>2. CASE j = l
    BY <1>1, <1>2, <2>1, <2>2 DEF StandsOver, Fits, Settling
  <2>3. CASE j < l
    <3>1. l \in DOMAIN calls /\ j \in 1 .. l - 1
      BY <1>1, <1>2, <2>1, <2>3
    <3>2. StandsOver(Last(calls), calls[j])
      BY <1>2, <2>1, <3>1 DEF Stacked
    <3>3. Reading(calls[j]) => Deriving(c)
      BY <2>1, <3>2 DEF StandsOver, Fits, Reading
    <3>4. ASSUME Deriving(calls[j]) PROVE Rank[c.node] < Rank[calls[j].node]
      <4>1. Deriving(Last(calls)) /\ Deriving(c)
        BY <2>1, <3>2, <3>3, <3>4 DEF StandsOver, Reading
      <4>2. Rank[c.node] < Rank[Last(calls).node] /\ Rank[Last(calls).node] < Rank[calls[j].node]
        BY <2>1, <3>2, <3>4, <4>1 DEF StandsOver, Fits
      <4>3. Rank[c.node] \in Nat /\ Rank[Last(calls).node] \in Nat /\ Rank[calls[j].node] \in Nat
        BY <3>4, <4>1, RankIsRank DEF Ranks, Deriving
      <4>. QED
        BY <4>2, <4>3
    <3>5. calls[j].op = "settle" => c.op # "settle"
      BY <1>1 DEF Fits, Settling
    <3>. QED
      BY <3>3, <3>4, <3>5 DEF StandsOver
  <2>. QED
    BY <1>1, <2>2, <2>3
<1>7. ASSUME NEW k \in 1 .. l + 1, NEW j \in 1 .. k - 1 PROVE StandsOver(t[k], t[j])
  <2>1. CASE k = l + 1
    <3>1. j \in 1 .. l /\ t[k] = c /\ t[j] = calls[j]
      BY <1>1, <2>1
    <3>. QED
      BY <1>6, <3>1
  <2>2. CASE k < l + 1
    <3>1. k \in DOMAIN calls /\ t[k] = calls[k] /\ t[j] = calls[j]
      BY <1>1, <2>2
    <3>. QED
      BY <3>1 DEF Stacked
  <2>. QED
    BY <1>1, <2>1, <2>2
<1>8. Len(t) - 1 = l
  BY <1>1
<1>. QED
  BY <1>1, <1>4, <1>5, <1>7, <1>8 DEF Stacked, t

LEMMA StackPop ==
  ASSUME NEW calls \in Seq(Frame), NEW computing, Stacked(calls, computing), calls # <<>>
  PROVE  Stacked(Front(calls), Last(calls).prev)
<1> DEFINE l == Len(calls)
           f == Front(calls)
<1>1. /\ f \in Seq(Frame) /\ Len(f) = l - 1 /\ DOMAIN f = 1 .. l - 1
      /\ \A k \in 1 .. l - 1 : f[k] = calls[k]
      /\ Last(calls) = calls[l] /\ l \in Nat \ {0} /\ DOMAIN calls = 1 .. l
  BY FrontElements
<1> HIDE DEF f, l
<1>2. CASE l = 1
  <2>1. f = <<>> /\ Last(calls) = calls[1] /\ 1 .. Len(f) - 1 = {} /\ DOMAIN f = {}
    BY <1>1, <1>2, EmptySeq
  <2>. QED
    BY <2>1 DEF Stacked, Bottom, f
<1>3. CASE l > 1
  <2>1. f # <<>> /\ Last(f) = calls[l - 1] /\ l - 1 \in 1 .. l - 1 /\ f[1] = calls[1]
    BY <1>1, <1>3, EmptySeq DEF Last
  <2>2. StandsOn(calls[l - 1 + 1], calls[l - 1])
    BY <2>1 DEF Stacked, l
  <2>3. Last(calls).prev = After(Last(f))
    BY <1>1, <2>1, <2>2 DEF StandsOn
  <2>4. \A k \in 1 .. Len(f) - 1 : k \in 1 .. Len(calls) - 1 /\ f[k] = calls[k] /\ f[k + 1] = calls[k + 1]
    BY <1>1 DEF l
  <2>5. \A k \in DOMAIN f : \A j \in 1 .. k - 1 :
          k \in DOMAIN calls /\ f[k] = calls[k] /\ f[j] = calls[j]
    BY <1>1
  <2>. QED
    BY <2>1, <2>3, <2>4, <2>5 DEF Stacked, f
<1>. QED
  BY <1>1, <1>2, <1>3

LEMMA StackReplace ==
  ASSUME NEW calls \in Seq(Frame), NEW computing, Stacked(calls, computing), calls # <<>>,
         NEW c \in Frame, Replaces(c, Last(calls))
  PROVE  Stacked(Append(Front(calls), c), After(c))
<1> DEFINE l == Len(calls)
           f == Front(calls)
<1>1. /\ f \in Seq(Frame) /\ Len(f) = l - 1 /\ DOMAIN f = 1 .. l - 1
      /\ \A k \in 1 .. l - 1 : f[k] = calls[k]
      /\ Last(calls) = calls[l] /\ l \in Nat \ {0} /\ DOMAIN calls = 1 .. l
  BY FrontElements
<1>2. Stacked(f, c.prev)
  BY StackPop DEF Replaces
<1> HIDE DEF f, l
<1>3. CASE f = <<>>
  <2>1. l = 1 /\ Last(calls) = calls[1] /\ DOMAIN f = {}
    BY <1>1, <1>3
  <2>2. Fits(c, f)
    BY <1>3, <2>1 DEF Fits, Stacked, Bottom, Replaces, Settling
  <2>. QED
    BY <1>1, <1>2, <2>2, StackPush DEF f
<1>4. CASE f # <<>>
  <2>1. l - 1 \in 1 .. l - 1 /\ Last(f) = calls[l - 1] /\ l \in DOMAIN calls
    BY <1>1, <1>4, EmptySeq DEF Last
  <2>2. StandsOn(calls[l - 1 + 1], calls[l - 1]) /\ StandsOver(calls[l], calls[l - 1])
    BY <2>1 DEF Stacked, l
  <2>3. StandsOn(Last(calls), Last(f)) /\ StandsOver(Last(calls), Last(f))
    BY <1>1, <2>1, <2>2
  <2>4. Fits(c, f)
    BY <1>4, <2>3 DEF Fits, StandsOn, StandsOver, Replaces, Reading
  <2>. QED
    BY <1>1, <1>2, <2>4, StackPush DEF f
<1>. QED
  BY <1>3, <1>4

-----------------------------------------------------------------------------
(* The moves that a step is made of, and that the invariant is kept.       *)

LEMMA FieldTypes ==
  ASSUME NEW r \in ReactiveRuntime
  PROVE  /\ r.value \in [Node -> Value] /\ r.prev_value \in [State -> Value]
         /\ r.state \in [Node -> {"clean", "dirty", "computing"}]
         /\ r.deps \in [Node -> Seq(State \cup Derived)]
         /\ r.dependents \in [Node -> Seq(Computed)]
         /\ r.disposed \in SUBSET Sink /\ r.triggered \in [When -> BOOLEAN]
         /\ r.fired \in [When -> 0 .. 2] /\ r.seen \in [Effect -> Value]
         /\ r.ran \in SUBSET Effect /\ r.missed \in SUBSET Effect /\ r.queue \in Seq(Computed)
         /\ r.computing \in Computed \cup {Nowhere}
         /\ r.is_propagating \in BOOLEAN /\ r.in_transaction \in BOOLEAN
         /\ r.changes \in Seq(State) /\ r.crashed \in BOOLEAN /\ r.calls \in Seq(Frame)
BY DEF ReactiveRuntime

LEMMA Groups ==
  /\ State \subseteq Node /\ Derived \subseteq Computed /\ Sink \subseteq Computed
  /\ Effect \subseteq Sink /\ When \subseteq Sink /\ Computed \subseteq Node
  /\ Node = State \cup Computed /\ Computed = Derived \cup Sink
  /\ Sink = Effect \cup When
  /\ State \cap Computed = {} /\ Derived \cap Sink = {} /\ Effect \cap When = {}
BY NodeAssumption DEF Node, Computed, Sink

(* A move that leaves the graph, the values, the stack and the transaction *)
(* alone.                                                                  *)
SameCore(r, s) ==
  /\ s.calls = r.calls /\ s.deps = r.deps /\ s.dependents = r.dependents
  /\ s.computing = r.computing /\ s.crashed = r.crashed /\ s.state = r.state
  /\ s.is_propagating = r.is_propagating /\ s.in_transaction = r.in_transaction
  /\ s.value = r.value /\ s.changes = r.changes

LEMMA SameSound ==
  ASSUME NEW r, NEW s \in ReactiveRuntime, NEW secret, Sound(r, secret), SameCore(r, s),
         Len(s.queue) <= BatchSize
  PROVE  Sound(s, secret)
<1>1. Typed(s)
  BY DEF Sound, Typed, SameCore
<1>2. Accounted(s)
  BY DEF Sound, Accounted, SameCore
<1>. QED
  BY <1>1, <1>2 DEF Sound, SameCore

(* More may be promised, and what no promise speaks of be forgotten.       *)
LEMMA DerivationGrows ==
  ASSUME NEW calls, NEW new, NEW deps, NEW state, NEW value, NEW untold, NEW more,
         Derivation(calls, deps, state, value, untold),
         \A d \in Derived : state[d] = "clean" /\ d \in Pending(calls) => d \in Pending(new),
         untold \subseteq more,
         \A k \in DOMAIN new : Deriving(new[k]) => Progress(new[k], deps, state, value)
  PROVE  Derivation(new, deps, state, value, more)
<1>1. ASSUME NEW d \in Derived, state[d] = "clean"
      PROVE  d \in Pending(new) \/ Supported(d, deps, state, value, more)
  <2>1. CASE d \in Pending(calls)
    BY <1>1, <2>1
  <2>2. CASE Supported(d, deps, state, value, untold)
    <3>1. PICK k \in DOMAIN Reads[d] : Relies(d, k, deps, state) /\ Holds(d, k, value, untold)
      BY <2>2 DEF Supported
    <3>2. Holds(d, k, value, more)
      BY <3>1 DEF Holds
    <3>. QED
      BY <3>1, <3>2 DEF Supported
  <2>. QED
    BY <1>1, <2>1, <2>2 DEF Derivation
<1>. QED
  BY <1>1 DEF Derivation

(* A state is untold only by a call that is open.                          *)
LEMMA UntoldGrows ==
  ASSUME NEW calls, NEW new, NEW in_transaction, NEW changes, NEW secret,
         \A i \in DOMAIN changes :
           Open(calls, in_transaction, i) => Open(new, in_transaction, i)
  PROVE  Untold(calls, in_transaction, changes, secret)
           \subseteq Untold(new, in_transaction, changes, secret)
BY DEF Untold

(* The stack alone changes.                                                *)
LEMMA StackMove ==
  ASSUME NEW r, NEW secret, Sound(r, secret), ~r.crashed,
         NEW new \in Seq(Frame), \A k \in DOMAIN new : FrameSound(new[k]),
         Stacked(new, r.computing), Due(new, r.state),
         Settling(new) <=> Settling(r.calls), Closing(new) => ~r.in_transaction,
         \A d \in Derived : r.state[d] = "clean" /\ d \in Pending(r.calls) => d \in Pending(new),
         \A i \in DOMAIN r.changes :
           Open(r.calls, r.in_transaction, i) => Open(new, r.in_transaction, i),
         \A k \in DOMAIN new : Deriving(new[k]) => Progress(new[k], r.deps, r.state, r.value)
  PROVE  Sound([r EXCEPT !.calls = new], secret)
<1> DEFINE s == [r EXCEPT !.calls = new]
<1>1. r \in ReactiveRuntime
  BY DEF Sound, Typed
<1>2. /\ s \in ReactiveRuntime /\ s.calls = new
      /\ s.queue = r.queue /\ s.deps = r.deps /\ s.dependents = r.dependents
      /\ s.computing = r.computing /\ s.crashed = r.crashed /\ s.state = r.state
      /\ s.is_propagating = r.is_propagating /\ s.in_transaction = r.in_transaction
      /\ s.value = r.value /\ s.changes = r.changes
  BY <1>1 DEF ReactiveRuntime
<1> HIDE DEF s
<1>3. Typed(s)
  BY <1>2 DEF Typed, Sound
<1>4. Accounted(s)
  BY <1>2 DEF Accounted, Sound
<1>5. Untold(r.calls, r.in_transaction, r.changes, secret)
        \subseteq Untold(new, r.in_transaction, r.changes, secret)
  BY UntoldGrows
<1>6. Derivation(new, r.deps, r.state, r.value, Untold(new, r.in_transaction, r.changes, secret))
  BY <1>5, DerivationGrows DEF Sound
<1>7. Sound(s, secret)
  BY <1>2, <1>3, <1>4, <1>6 DEF Sound
<1>. QED
  BY <1>7 DEF s

(* The top frame is done with.                                             *)
LEMMA PopSound ==
  ASSUME NEW r, NEW secret, Sound(r, secret), r.calls # <<>>,
         Top(r).op \notin {"compute", "return", "settle"},
         Top(r).op = "invalidate" => Top(r).todo = <<>>,
         Top(r).op = "announce" => Top(r).at > Len(r.changes)
  PROVE  Sound(Pop(r), secret)
<1> DEFINE calls == r.calls
           l == Len(calls)
           new == Front(calls)
<1>1. r \in ReactiveRuntime /\ ~r.crashed /\ calls \in Seq(Frame) /\ calls # <<>>
  BY FieldTypes DEF Sound, Typed, Accounted
<1>2. /\ new \in Seq(Frame) /\ DOMAIN new = 1 .. l - 1
      /\ \A k \in 1 .. l - 1 : new[k] = calls[k]
      /\ Last(calls) = calls[l] /\ l \in Nat \ {0} /\ DOMAIN calls = 1 .. l
      /\ Last(calls) \in Frame
  BY <1>1, FrontElements
<1>3. Top(r) = calls[l]
  BY <1>2 DEF Top
<1> HIDE DEF new, l
<1>4. \A k \in DOMAIN new : k \in DOMAIN calls /\ new[k] = calls[k]
  BY <1>2
<1>5. \A k \in DOMAIN calls : k = l \/ (k \in DOMAIN new /\ new[k] = calls[k])
  BY <1>2
<1>6. Stacked(calls, r.computing) /\ Stacked(new, Last(calls).prev)
  BY <1>1, StackPop DEF Sound, new
<1>7. r.computing = Last(calls).prev
  BY <1>1, <1>6 DEF Stacked, After, Top
<1>8. Pending(calls) = {}
  BY DEF Pending, Top, ToSet
<1>9. ASSUME NEW i \in DOMAIN r.changes, Open(calls, r.in_transaction, i)
      PROVE  Open(new, r.in_transaction, i)
  <2>1. i \in 1 .. Len(r.changes) /\ Len(r.changes) \in Nat
    BY <1>1, FieldTypes, LenProperties
  <2>2. Top(r).op = "announce" => ~(i >= Top(r).at)
    BY <1>2, <2>1 DEF Top, Frame
  <2>. QED
    BY <1>3, <1>5, <1>9, <2>2 DEF Open
<1>10. Due(new, r.state)
  BY <1>1, <1>3, <1>5 DEF Due, Sound, Accounted
<1>11. Settling(new) <=> Settling(calls)
  BY <1>3, <1>4, <1>5 DEF Settling
<1>12. Closing(new) => ~r.in_transaction
  BY <1>4 DEF Closing, Sound, Accounted
<1>13. /\ \A k \in DOMAIN new : FrameSound(new[k])
       /\ \A k \in DOMAIN new : Deriving(new[k]) => Progress(new[k], r.deps, r.state, r.value)
  BY <1>4 DEF Sound, Typed, Derivation
<1> HIDE DEF calls
<1>14. Sound([r EXCEPT !.calls = new], secret)
  BY <1>1, <1>2, <1>6, <1>7, <1>8, <1>9, <1>10, <1>11, <1>12, <1>13, StackMove DEF calls
<1>. QED
  BY <1>14 DEF Pop, new, calls

(* Another frame takes the place of the top one.                           *)
LEMMA ResumeSound ==
  ASSUME NEW r, NEW secret, Sound(r, secret), r.calls # <<>>,
         NEW c \in Frame, FrameSound(c), Replaces(c, Top(r)),
         Top(r).op \notin {"settle", "invalidate", "announce"},
         c.op \notin {"invalidate", "announce", "commit"},
         c.op \in {"compute", "return"} <=> Top(r).op \in {"compute", "return"},
         c.op \in {"compute", "return"} => c.node = Top(r).node,
         Deriving(c) => Progress(c, r.deps, r.state, r.value)
  PROVE  Sound(Resume(r, c), secret)
<1> DEFINE calls == r.calls
           l == Len(calls)
           f == Front(calls)
           new == Append(f, c)
<1>1. r \in ReactiveRuntime /\ ~r.crashed /\ calls \in Seq(Frame) /\ calls # <<>>
  BY FieldTypes DEF Sound, Typed, Accounted
<1>2. /\ f \in Seq(Frame) /\ DOMAIN f = 1 .. l - 1 /\ Len(f) = l - 1
      /\ \A k \in 1 .. l - 1 : f[k] = calls[k]
      /\ Last(calls) = calls[l] /\ l \in Nat \ {0} /\ DOMAIN calls = 1 .. l
      /\ Last(calls) \in Frame
  BY <1>1, FrontElements
<1>3. /\ new \in Seq(Frame) /\ DOMAIN new = 1 .. Len(f) + 1
      /\ \A k \in 1 .. Len(f) : new[k] = f[k]
      /\ new[Len(f) + 1] = c /\ Last(new) = c /\ new # <<>>
  BY <1>2, PushElements
<1>4. Top(r) = calls[l] /\ Top(r) = Last(calls)
  BY <1>2 DEF Top
<1> HIDE DEF new, f, l
<1>5. /\ DOMAIN new = 1 .. l /\ new[l] = c
      /\ \A k \in DOMAIN new : k = l \/ (k \in DOMAIN calls /\ new[k] = calls[k])
      /\ \A k \in DOMAIN calls : k = l \/ (k \in DOMAIN new /\ new[k] = calls[k])
      /\ l \in DOMAIN calls /\ l \in DOMAIN new
  BY <1>2, <1>3
<1>6. Stacked(new, After(c))
  BY <1>1, <1>4, StackReplace DEF Sound, new, f
<1>7. r.computing = After(c)
  BY <1>1, <1>4 DEF Sound, Stacked, After, Replaces
<1>8. Pending(calls) = {}
  BY <1>4 DEF Pending
<1>9. ASSUME NEW i \in DOMAIN r.changes, Open(calls, r.in_transaction, i)
      PROVE  Open(new, r.in_transaction, i)
  BY <1>4, <1>5, <1>9 DEF Open
<1>10. Due(new, r.state)
  <2>1. ASSUME NEW n \in Node, r.state[n] = "computing"
        PROVE  \E k \in DOMAIN new : new[k].op \in {"compute", "return"} /\ new[k].node = n
    <3>1. PICK k \in DOMAIN calls : calls[k].op \in {"compute", "return"} /\ calls[k].node = n
      BY <1>1, <2>1 DEF Due, Sound, Accounted
    <3>2. CASE k = l
      <4>1. new[l].op \in {"compute", "return"} /\ new[l].node = n
        BY <1>4, <1>5, <3>1, <3>2
      <4>. QED
        BY <1>5, <4>1
    <3>3. CASE k # l
      BY <1>5, <3>1, <3>3
    <3>. QED
      BY <3>2, <3>3
  <2>. QED
    BY <2>1 DEF Due
<1>11. Settling(new) <=> Settling(calls)
  BY <1>4, <1>5 DEF Settling, Replaces
<1>12. Closing(new) => ~r.in_transaction
  BY <1>4, <1>5 DEF Closing, Sound, Accounted
<1>13. /\ \A k \in DOMAIN new : FrameSound(new[k])
       /\ \A k \in DOMAIN new : Deriving(new[k]) => Progress(new[k], r.deps, r.state, r.value)
  BY <1>5 DEF Sound, Typed, Derivation
<1> HIDE DEF calls
<1>14. Sound([r EXCEPT !.calls = new], secret)
  BY <1>1, <1>3, <1>6, <1>7, <1>8, <1>9, <1>10, <1>11, <1>12, <1>13, StackMove DEF calls
<1>15. [r EXCEPT !.calls = new] = Resume(r, c)
  BY <1>1 DEF Resume, Push, Pop, new, f, calls, ReactiveRuntime
<1>. QED
  BY <1>14, <1>15

(* A frame is put on the stack.                                            *)
LEMMA PushSound ==
  ASSUME NEW r, NEW secret, Sound(r, secret), ~r.crashed,
         NEW c \in Frame, FrameSound(c), c.prev = r.computing, Fits(c, r.calls),
         c.op \notin {"compute", "return", "settle"},
         c.op \in {"announce", "commit"} => ~r.in_transaction
  PROVE  Sound(Push(r, c), secret)
<1> DEFINE calls == r.calls
           l == Len(calls)
           new == Append(calls, c)
<1>1. r \in ReactiveRuntime /\ calls \in Seq(Frame)
  BY FieldTypes DEF Sound, Typed
<1>2. /\ new \in Seq(Frame) /\ DOMAIN new = 1 .. l + 1
      /\ \A k \in 1 .. l : new[k] = calls[k]
      /\ new[l + 1] = c /\ Last(new) = c /\ new # <<>>
      /\ DOMAIN calls = 1 .. l /\ l \in Nat
  BY <1>1, PushElements
<1>3. Stacked(calls, r.computing)
  BY DEF Sound
<1>4. Stacked(new, After(c))
  BY <1>1, <1>3, StackPush
<1>5. After(c) = r.computing
  BY DEF After
<1> HIDE DEF new, l
<1>6. /\ \A k \in DOMAIN new : k = l + 1 \/ (k \in DOMAIN calls /\ new[k] = calls[k])
      /\ \A k \in DOMAIN calls : k \in DOMAIN new /\ new[k] = calls[k]
      /\ l + 1 \in DOMAIN new
  BY <1>2
<1>7. Pending(calls) = {}
  BY DEF Pending, Fits
<1>8. ASSUME NEW i \in DOMAIN r.changes, Open(calls, r.in_transaction, i)
      PROVE  Open(new, r.in_transaction, i)
  BY <1>6, <1>8 DEF Open
<1>9. Due(new, r.state)
  BY <1>6 DEF Due, Sound, Accounted
<1>10. Settling(new) <=> Settling(calls)
  BY <1>2, <1>6 DEF Settling
<1>11. Closing(new) => ~r.in_transaction
  BY <1>2, <1>6 DEF Closing, Sound, Accounted
<1>12. /\ \A k \in DOMAIN new : FrameSound(new[k])
       /\ \A k \in DOMAIN new : Deriving(new[k]) => Progress(new[k], r.deps, r.state, r.value)
  BY <1>2, <1>6 DEF Sound, Typed, Derivation, Deriving
<1> HIDE DEF calls
<1>13. Sound([r EXCEPT !.calls = new], secret)
  BY <1>1, <1>2, <1>4, <1>5, <1>7, <1>8, <1>9, <1>10, <1>11, <1>12, StackMove DEF calls
<1>. QED
  BY <1>13 DEF Push, new, calls

(* A dependency is added.                                                  *)
LinkAdd(deps, dependents, n, dep, ds, ts) ==
  /\ deps \in [Node -> Seq(State \cup Derived)] /\ dependents \in [Node -> Seq(Computed)]
  /\ n \in Computed /\ dep \in State \cup Derived /\ dep \notin ToSet(deps[n])
  /\ \A m \in Node : ds[m] = IF m = n THEN Append(deps[n], dep) ELSE deps[m]
  /\ \A m \in Node : ts[m] = IF m = dep THEN Append(dependents[dep], n) ELSE dependents[m]

LEMMA LinkAdded ==
  ASSUME NEW deps, NEW dependents, NEW n, NEW dep, NEW ds, NEW ts,
         LinkAdd(deps, dependents, n, dep, ds, ts), Linked(deps, dependents)
  PROVE  Linked(ds, ts) /\ ToSet(ds[n]) = ToSet(deps[n]) \cup {dep}
<1> DEFINE a == Append(deps[n], dep)
           b == Append(dependents[dep], n)
<1>. USE DEF LinkAdd
<1>1. n \in Node /\ dep \in Node /\ n \in Computed /\ dep \in State \cup Derived
  BY Groups
<1>2. n \notin ToSet(dependents[dep]) /\ IsInjective(deps[n]) /\ IsInjective(dependents[dep])
  BY <1>1 DEF Linked
<1>3. IsInjective(a) /\ ToSet(a) = ToSet(deps[n]) \cup {dep}
  BY <1>1, <1>2, AppendNew
<1>4. IsInjective(b) /\ ToSet(b) = ToSet(dependents[dep]) \cup {n}
  BY <1>1, <1>2, AppendNew
<1>. HIDE DEF a, b, LinkAdd
<1>5. /\ \A m \in Node : ds[m] = IF m = n THEN a ELSE deps[m]
      /\ \A m \in Node : ts[m] = IF m = dep THEN b ELSE dependents[m]
  BY DEF LinkAdd, a, b
<1>6. ASSUME NEW m \in Node, NEW k \in Node
      PROVE  /\ IsInjective(ds[k]) /\ IsInjective(ts[m])
             /\ m \in ToSet(ds[k]) <=> k \in ToSet(ts[m])
  <2>1. IsInjective(ds[k]) /\ IsInjective(ts[m])
    BY <1>3, <1>4, <1>5 DEF Linked
  <2>2. m \in ToSet(ds[k]) <=> (m \in ToSet(deps[k]) \/ (k = n /\ m = dep))
    BY <1>3, <1>5
  <2>3. k \in ToSet(ts[m]) <=> (k \in ToSet(dependents[m]) \/ (k = n /\ m = dep))
    BY <1>4, <1>5
  <2>. QED
    BY <2>1, <2>2, <2>3 DEF Linked
<1>7. Linked(ds, ts)
  BY <1>6 DEF Linked
<1>. QED
  BY <1>1, <1>3, <1>5, <1>7

(* The runtime but for the dependencies.                                   *)
SameButLinks(r, s) ==
  /\ s.calls = r.calls /\ s.computing = r.computing /\ s.crashed = r.crashed
  /\ s.state = r.state /\ s.value = r.value /\ s.prev_value = r.prev_value
  /\ s.is_propagating = r.is_propagating /\ s.in_transaction = r.in_transaction
  /\ s.changes = r.changes /\ s.queue = r.queue /\ s.triggered = r.triggered
  /\ s.fired = r.fired /\ s.disposed = r.disposed

LEMMA ReliesOnMore ==
  ASSUME NEW deps, NEW more, NEW state,
         \A n \in Computed : ToSet(deps[n]) \subseteq ToSet(more[n])
  PROVE  \A n \in Computed : \A k : Relies(n, k, deps, state) => Relies(n, k, more, state)
BY DEF Relies

LEMMA AddDepSound ==
  ASSUME NEW r, NEW secret, Sound(r, secret),
         NEW n \in Computed, NEW dep \in State \cup Derived
  PROVE  /\ Sound(AddDep(r, n, dep), secret)
         /\ SameButLinks(r, AddDep(r, n, dep))
         /\ dep \in ToSet(AddDep(r, n, dep).deps[n])
         /\ \A m \in Node : ToSet(r.deps[m]) \subseteq ToSet(AddDep(r, n, dep).deps[m])
<1> DEFINE s == AddDep(r, n, dep)
           a == Append(r.deps[n], dep)
           b == Append(r.dependents[dep], n)
<1>1. r \in ReactiveRuntime /\ n \in Node /\ dep \in Node
  BY Groups DEF Sound, Typed
<1>2. r.deps \in [Node -> Seq(State \cup Derived)] /\ r.dependents \in [Node -> Seq(Computed)]
  BY <1>1, FieldTypes
<1>3. CASE dep \in ToSet(r.deps[n])
  <2>1. AddDep(r, n, dep) = r
    BY <1>3 DEF AddDep
  <2>. QED
    BY <1>3, <2>1 DEF SameButLinks
<1>4. CASE dep \notin ToSet(r.deps[n])
  <2>1. a \in Seq(State \cup Derived) /\ b \in Seq(Computed)
    BY <1>1, <1>2, AppendElements
  <2>2. s = [r EXCEPT !.deps = [r.deps EXCEPT ![n] = a],
                      !.dependents = [r.dependents EXCEPT ![dep] = b]]
    BY <1>1, <1>4 DEF AddDep, ReactiveRuntime
  <2> HIDE DEF a, b, s
  <2>3. /\ s \in ReactiveRuntime
        /\ s.deps = [r.deps EXCEPT ![n] = a]
        /\ s.dependents = [r.dependents EXCEPT ![dep] = b]
        /\ SameButLinks(r, s)
    BY <1>1, <2>1, <2>2 DEF ReactiveRuntime, SameButLinks
  <2>4. /\ Linked(s.deps, s.dependents) /\ ToSet(a) = ToSet(r.deps[n]) \cup {dep}
    <3>1. Linked(r.deps, r.dependents)
      BY DEF Sound
    <3>2. LinkAdd(r.deps, r.dependents, n, dep, s.deps, s.dependents)
      BY <1>2, <1>4, <2>3 DEF a, b, LinkAdd
    <3>. QED
      <4>1. Linked(s.deps, s.dependents) /\ ToSet(s.deps[n]) = ToSet(r.deps[n]) \cup {dep}
        BY <3>1, <3>2, LinkAdded
      <4>. QED
        BY <1>1, <1>2, <2>3, <4>1
  <2>5. s.deps[n] = a /\ \A m \in Node : s.deps[m] = IF m = n THEN a ELSE r.deps[m]
    BY <1>1, <1>2, <2>3
  <2>6. \A m \in Node : ToSet(r.deps[m]) \subseteq ToSet(s.deps[m])
    BY <2>4, <2>5
  <2>7. Typed(s) /\ Accounted(s) /\ Stacked(s.calls, s.computing)
    BY <2>3 DEF Sound, Typed, Accounted, SameButLinks
  <2>8. \A m \in Computed : \A k : Relies(m, k, r.deps, s.state) => Relies(m, k, s.deps, s.state)
    BY <2>6, Groups, ReliesOnMore
  <2>9. Derivation(s.calls, s.deps, s.state, s.value,
                   Untold(s.calls, s.in_transaction, s.changes, secret))
    <3>1. Derivation(s.calls, r.deps, s.state, s.value,
                   Untold(s.calls, s.in_transaction, s.changes, secret))
      BY <2>3 DEF Sound, SameButLinks
    <3>2. ASSUME NEW k \in DOMAIN s.calls, Deriving(s.calls[k])
          PROVE  Progress(s.calls[k], s.deps, s.state, s.value)
      <4>1. s.calls[k].node \in Computed
        BY <3>2, Groups DEF Deriving
      <4>. QED
        BY <2>8, <3>1, <3>2, <4>1 DEF Derivation, Progress
    <3>3. ASSUME NEW d \in Derived, NEW untold, Supported(d, r.deps, s.state, s.value, untold)
          PROVE  Supported(d, s.deps, s.state, s.value, untold)
      BY <2>8, <3>3, Groups DEF Supported
    <3>. QED
      BY <3>1, <3>2, <3>3 DEF Derivation
  <2>. QED
    BY <2>3, <2>4, <2>5, <2>6, <2>7, <2>9 DEF Sound, s
<1>. QED
  BY <1>3, <1>4

LEMMA TrackSound ==
  ASSUME NEW r, NEW secret, Sound(r, secret), NEW n \in State \cup Derived
  PROVE  /\ Sound(Track(r, n), secret)
         /\ SameButLinks(r, Track(r, n))
         /\ r.computing \notin {Nowhere, n} => n \in ToSet(Track(r, n).deps[r.computing])
         /\ \A m \in Node : ToSet(r.deps[m]) \subseteq ToSet(Track(r, n).deps[m])
<1>1. r.computing \in Computed \cup {Nowhere}
  BY FieldTypes DEF Sound, Typed
<1>2. CASE r.computing \in {Nowhere, n}
  BY <1>2 DEF Track, SameButLinks
<1>3. CASE r.computing \notin {Nowhere, n}
  <2>1. Track(r, n) = AddDep(r, r.computing, n) /\ r.computing \in Computed
    BY <1>1, <1>3 DEF Track
  <2>. QED
    BY <2>1, AddDepSound
<1>. QED
  BY <1>2, <1>3

(* The sources of a node are told that it does not read them any more.     *)
LEMMA WithoutType ==
  ASSUME NEW S, NEW s \in Seq(S), NEW n
  PROVE  Without(s, n) \in Seq(S)
<1>1. CASE n \in ToSet(s)
  <2>1. PICK k \in DOMAIN s : s[k] = n
    BY <1>1 DEF ToSet
  <2> DEFINE p == CHOOSE i \in DOMAIN s : s[i] = n
  <2>2. p \in DOMAIN s
    BY <2>1
  <2> HIDE DEF p
  <2>3. p \in 1 .. Len(s)
    BY <2>2, LenProperties
  <2>. QED
    BY <1>1, <2>3, RemoveAtProperties DEF Without, p
<1>. QED
  BY <1>1 DEF Without

LEMMA WithoutElements ==
  ASSUME NEW S, NEW s \in Seq(S), NEW n, IsInjective(s)
  PROVE  IsInjective(Without(s, n)) /\ ToSet(Without(s, n)) = ToSet(s) \ {n}
<1>1. CASE n \in ToSet(s)
  <2>1. PICK k \in DOMAIN s : s[k] = n
    BY <1>1 DEF ToSet
  <2> DEFINE p == CHOOSE i \in DOMAIN s : s[i] = n
  <2>2. p \in DOMAIN s /\ s[p] = n
    BY <2>1
  <2> HIDE DEF p
  <2>3. p \in 1 .. Len(s)
    BY <2>2, LenProperties
  <2>. QED
    BY <1>1, <2>2, <2>3, RemoveFromInjective DEF Without, p
<1>. QED
  BY <1>1 DEF Without

LEMMA LinksCleared ==
  ASSUME NEW r \in ReactiveRuntime, Linked(r.deps, r.dependents), NEW n \in Computed
  PROVE  /\ ClearDeps(r, n) \in ReactiveRuntime
         /\ Linked(ClearDeps(r, n).deps, ClearDeps(r, n).dependents)
         /\ SameButLinks(r, ClearDeps(r, n))
         /\ \A m \in Node : m # n => ClearDeps(r, n).deps[m] = r.deps[m]
<1> DEFINE told == [m \in Node |-> IF m \in ToSet(r.deps[n]) THEN Without(r.dependents[m], n)
                                   ELSE r.dependents[m]]
           ds == [r.deps EXCEPT ![n] = <<>>]
           s == ClearDeps(r, n)
<1>1. n \in Node
  BY Groups
<1>2. r.deps \in [Node -> Seq(State \cup Derived)] /\ r.dependents \in [Node -> Seq(Computed)]
  BY FieldTypes
<1>3. told \in [Node -> Seq(Computed)]
  BY <1>2, WithoutType
<1>4. ds \in [Node -> Seq(State \cup Derived)] /\ \A m \in Node : ds[m] = IF m = n THEN <<>> ELSE r.deps[m]
  BY <1>1, <1>2, EmptySeq
<1>5. /\ \A m \in Node : m \in ToSet(r.deps[n]) => told[m] = Without(r.dependents[m], n)
      /\ \A m \in Node : m \notin ToSet(r.deps[n]) => told[m] = r.dependents[m]
  OBVIOUS
<1>6. s = [r EXCEPT !.deps = ds, !.dependents = told]
  BY <1>1 DEF ClearDeps, ReactiveRuntime
<1> HIDE DEF told, ds, s
<1>7. s \in ReactiveRuntime /\ s.deps = ds /\ s.dependents = told /\ SameButLinks(r, s)
  BY <1>3, <1>4, <1>6 DEF ReactiveRuntime, SameButLinks
<1>8. ASSUME NEW m \in Node, NEW k \in Node
      PROVE  /\ IsInjective(ds[k]) /\ IsInjective(told[m])
             /\ m \in ToSet(ds[k]) <=> k \in ToSet(told[m])
  <2>1. IsInjective(ds[k])
    BY <1>4 DEF Linked, IsInjective
  <2>2. m \in ToSet(ds[k]) <=> (k # n /\ m \in ToSet(r.deps[k]))
    BY <1>4 DEF ToSet
  <2>3. CASE m \in ToSet(r.deps[n])
    <3>1. IsInjective(told[m]) /\ ToSet(told[m]) = ToSet(r.dependents[m]) \ {n}
      BY <1>2, <1>5, <2>3, WithoutElements DEF Linked
    <3>. QED
      BY <2>1, <2>2, <3>1 DEF Linked
  <2>4. CASE m \notin ToSet(r.deps[n])
    <3>1. IsInjective(told[m]) /\ told[m] = r.dependents[m] /\ n \notin ToSet(told[m])
      BY <1>1, <1>5, <2>4 DEF Linked
    <3>. QED
      BY <2>1, <2>2, <3>1 DEF Linked
  <2>. QED
    BY <2>3, <2>4
<1>9. Linked(ds, told)
  BY <1>8 DEF Linked
<1>. QED
  BY <1>4, <1>7, <1>9 DEF s

(* What a function reads are states and derived values.                    *)
LEMMA SourceType ==
  ASSUME NEW n \in Computed
  PROVE  /\ Reads[n] \in Seq(State \cup Derived) /\ DOMAIN Reads[n] = 1 .. Len(Reads[n])
         /\ Len(Reads[n]) \in Nat
         /\ \A k \in 1 .. Len(Reads[n]) : Reads[n][k] \in State \cup Derived
<1>1. Reads[n] \in Seq(State \cup Derived)
  BY ClientAssumption
<1>. QED
  BY <1>1, LenProperties, ElementOfSeq

LEMMA TopFrame ==
  ASSUME NEW r \in ReactiveRuntime, r.calls # <<>>
  PROVE  /\ Top(r) \in Frame /\ Top(r) = r.calls[Len(r.calls)] /\ Top(r) = Last(r.calls)
         /\ Len(r.calls) \in DOMAIN r.calls
         /\ Top(r).node \in Node \cup {Nowhere} /\ Top(r).at \in Nat \ {0}
         /\ Top(r).todo \in Seq(Computed) /\ Top(r).prev \in Computed \cup {Nowhere}
<1>1. r.calls \in Seq(Frame)
  BY FieldTypes
<1>2. Top(r) \in Frame /\ Top(r) = r.calls[Len(r.calls)] /\ Top(r) = Last(r.calls)
      /\ Len(r.calls) \in DOMAIN r.calls
  BY <1>1, FrontElements DEF Top
<1>. QED
  BY <1>2 DEF Frame

(* While the top call computes no derived value, none does.                *)
LEMMA NoneDeriving ==
  ASSUME NEW calls \in Seq(Frame), NEW computing, Stacked(calls, computing),
         calls # <<>> => ~Deriving(Last(calls))
  PROVE  \A k \in DOMAIN calls : ~Deriving(calls[k])
<1> SUFFICES ASSUME NEW k \in DOMAIN calls PROVE ~Deriving(calls[k])
  OBVIOUS
<1>1. calls # <<>> /\ DOMAIN calls = 1 .. Len(calls) /\ Len(calls) \in Nat
  BY LenProperties
<1>2. Last(calls) = calls[Len(calls)] /\ Len(calls) \in DOMAIN calls
  BY <1>1, FrontElements
<1>3. CASE k = Len(calls)
  BY <1>1, <1>2, <1>3
<1>4. CASE k # Len(calls)
  <2>1. k \in 1 .. Len(calls) - 1
    BY <1>1, <1>4
  <2>2. StandsOver(calls[Len(calls)], calls[k])
    BY <1>2, <2>1 DEF Stacked
  <2>. QED
    BY <1>1, <1>2, <2>2 DEF StandsOver, Reading
<1>. QED
  BY <1>3, <1>4

(* A node that is not clean, or no value at all, changes: nothing relies   *)
(* on it.                                                                  *)
Unrelied(n, state) == n \in Sink \/ state[n] # "clean"

Elsewhere(n, deps, state, ds, new) ==
  /\ n \in Computed /\ Unrelied(n, state)
  /\ \A m \in Node : m # n => ds[m] = deps[m] /\ new[m] = state[m]

LEMMA RelyElsewhere ==
  ASSUME NEW n, NEW deps, NEW state, NEW ds, NEW new, Elsewhere(n, deps, state, ds, new),
         NEW d \in Computed, d # n, NEW k \in Nat, k <= Len(Reads[d]), Relies(d, k, deps, state)
  PROVE  Relies(d, k, ds, new) /\ \A j \in 1 .. k : Reads[d][j] # n
<1>. USE DEF Elsewhere
<1>1. ASSUME NEW j \in 1 .. k
      PROVE  Reads[d][j] # n /\ Reads[d][j] \in ToSet(ds[d]) /\ new[Reads[d][j]] = "clean"
  <2>1. Reads[d][j] \in State \cup Derived
    BY SourceType
  <2>2. Reads[d][j] \in ToSet(deps[d]) /\ state[Reads[d][j]] = "clean"
    BY DEF Relies
  <2>3. Reads[d][j] # n
    BY <2>1, <2>2, Groups DEF Unrelied
  <2>. QED
    BY <2>1, <2>2, <2>3, Groups
<1>. QED
  BY <1>1 DEF Relies

(* reactive_recompute begins.                                              *)
LEMMA RecomputeSound ==
  ASSUME NEW r, NEW secret, Sound(r, secret), ~r.crashed, NEW n \in Computed,
         n \in Derived => r.state[n] = "dirty",
         Fits(NewCall(r, "compute", n, <<>>), r.calls)
  PROVE  Sound(Recompute(r, n), secret)
<1>1. CASE Reads[n] = <<>>
  BY <1>1 DEF Recompute
<1>2. CASE Reads[n] # <<>>
  <2> DEFINE c == NewCall(r, "compute", n, <<>>)
             q == ClearDeps(r, n)
             calls == r.calls
             new == Append(calls, c)
             s == Recompute(r, n)
  <2>1. r \in ReactiveRuntime /\ calls \in Seq(Frame) /\ n \in Node /\ <<>> \in Seq(Computed)
    BY FieldTypes, Groups, EmptySeq DEF Sound, Typed
  <2>2. c \in Frame /\ c.op = "compute" /\ c.node = n /\ c.at = 1 /\ c.prev = r.computing
    <3>1. r.computing \in Computed \cup {Nowhere}
      BY <2>1, FieldTypes
    <3>. QED
      BY <2>1, <3>1 DEF NewCall, Frame
  <2>3. /\ q \in ReactiveRuntime /\ Linked(q.deps, q.dependents) /\ SameButLinks(r, q)
        /\ \A m \in Node : m # n => q.deps[m] = r.deps[m]
    BY <2>1, LinksCleared DEF Sound
  <2>4. /\ new \in Seq(Frame) /\ DOMAIN new = 1 .. Len(calls) + 1
        /\ \A k \in 1 .. Len(calls) : new[k] = calls[k]
        /\ new[Len(calls) + 1] = c /\ Last(new) = c /\ new # <<>>
        /\ DOMAIN calls = 1 .. Len(calls) /\ Len(calls) \in Nat
    BY <2>1, <2>2, PushElements
  <2>5. Stacked(new, After(c))
    BY <2>1, <2>2, StackPush DEF Sound
  <2>6. s = [q EXCEPT !.state = [r.state EXCEPT ![n] = "computing"], !.computing = n,
                       !.missed = q.missed \ {n}, !.calls = new]
    BY <1>2, <2>3 DEF Recompute, Begun, Push, SameButLinks, ReactiveRuntime
  <2> HIDE DEF c, q, new, s
  <2>7. /\ s \in ReactiveRuntime /\ s.calls = new /\ s.computing = n
        /\ s.state = [r.state EXCEPT ![n] = "computing"]
        /\ s.deps = q.deps /\ s.dependents = q.dependents /\ s.crashed = r.crashed
        /\ s.value = r.value /\ s.is_propagating = r.is_propagating
        /\ s.in_transaction = r.in_transaction /\ s.changes = r.changes /\ s.queue = r.queue
    <3>1. /\ [r.state EXCEPT ![n] = "computing"] \in [Node -> {"clean", "dirty", "computing"}]
          /\ q.missed \ {n} \in SUBSET Effect
      BY <2>1, <2>3, FieldTypes
    <3>. QED
      BY <2>1, <2>3, <2>4, <2>6, <3>1 DEF SameButLinks, ReactiveRuntime
  <2>8. s.state[n] = "computing" /\ \A m \in Node : m # n => s.state[m] = r.state[m]
    BY <2>1, <2>7, FieldTypes
  <2>9. /\ \A k \in DOMAIN new : k = Len(calls) + 1 \/ (k \in DOMAIN calls /\ new[k] = calls[k])
        /\ \A k \in DOMAIN calls : k \in DOMAIN new /\ new[k] = calls[k]
        /\ Len(calls) + 1 \in DOMAIN new
    BY <2>4
  <2>10. Typed(s)
    <3>1. FrameSound(c)
      <4>1. Reads[n] \in Seq(State \cup Derived) /\ Len(Reads[n]) \in Nat
        BY SourceType
      <4>2. 1 \in 1 .. Len(Reads[n])
        BY <1>2, <4>1, EmptySeq
      <4>. QED
        BY <1>2, <2>2, <4>2 DEF FrameSound, ReadsOn
    <3>. QED
      BY <2>4, <2>7, <2>9, <3>1 DEF Typed, Sound
  <2>11. Stacked(s.calls, s.computing)
    BY <2>2, <2>5, <2>7 DEF After
  <2>12. Accounted(s)
    <3>1. ASSUME NEW m \in Node, s.state[m] = "computing"
          PROVE  \E k \in DOMAIN new : new[k].op \in {"compute", "return"} /\ new[k].node = m
      <4>1. CASE m = n
        BY <2>2, <2>4, <2>9, <4>1
      <4>2. CASE m # n
        <5>1. r.state[m] = "computing"
          BY <2>8, <3>1, <4>2
        <5>2. PICK k \in DOMAIN calls : calls[k].op \in {"compute", "return"} /\ calls[k].node = m
          BY <5>1 DEF Sound, Accounted, Due
        <5>. QED
          BY <2>9, <5>2
      <4>. QED
        BY <4>1, <4>2
    <3>2. Settling(new) <=> Settling(calls)
      BY <2>2, <2>4, <2>9 DEF Settling
    <3>3. Closing(new) => Closing(calls)
      BY <2>2, <2>4, <2>9 DEF Closing
    <3>4. Due(s.calls, s.state)
      BY <2>7, <3>1 DEF Due
    <3>. QED
      BY <2>7, <3>2, <3>3, <3>4 DEF Sound, Accounted
  <2>13. Elsewhere(n, r.deps, r.state, s.deps, s.state)
    BY <2>3, <2>7, <2>8, Groups DEF Unrelied, Elsewhere
  <2>14. Untold(s.calls, s.in_transaction, s.changes, secret)
           = Untold(calls, r.in_transaction, r.changes, secret)
    <3>1. \A i : Open(new, r.in_transaction, i) <=> Open(calls, r.in_transaction, i)
      BY <2>2, <2>4, <2>9 DEF Open
    <3>. QED
      BY <2>7, <3>1 DEF Untold
  <2>15. Pending(calls) = {}
    BY DEF Fits, Pending
  <2> DEFINE untold == Untold(calls, r.in_transaction, r.changes, secret)
  <2>16. Derivation(calls, r.deps, r.state, r.value, untold)
    BY DEF Sound
  <2> HIDE DEF untold
  <2>17. Derivation(new, s.deps, s.state, s.value, untold)
    <3>1. ASSUME NEW x \in State PROVE s.state[x] = "clean"
      BY <2>8, <2>16, Groups DEF Derivation
    <3>2. ASSUME NEW k \in DOMAIN new, Deriving(new[k])
          PROVE  Progress(new[k], s.deps, s.state, s.value)
      <4>1. CASE k = Len(calls) + 1
        <5>1. new[k] = c /\ c.at - 1 = 0 /\ 1 .. 0 = {}
          BY <2>2, <2>4, <4>1
        <5>. QED
          BY <2>2, <2>8, <5>1 DEF Progress, Relies
      <4>2. CASE k # Len(calls) + 1
        <5> DEFINE f == calls[k]
        <5>1. k \in DOMAIN calls /\ new[k] = f
          BY <2>9, <4>2
        <5>2. Progress(f, r.deps, r.state, r.value) /\ f.node \in Derived /\ FrameSound(f)
              /\ f.op = "compute" /\ f \in Frame
          BY <2>1, <2>4, <2>16, <3>2, <5>1, ElementOfSeq DEF Derivation, Deriving, Sound, Typed
        <5> HIDE DEF f
        <5>3. f.node # n /\ f.node \in Computed /\ f.node \in Node
          BY <5>2, Groups DEF Progress
        <5>4. f.at - 1 \in Nat /\ f.at - 1 <= Len(Reads[f.node])
          BY <5>2, <5>3, SourceType DEF FrameSound, ReadsOn
        <5>5. Relies(f.node, f.at - 1, r.deps, r.state)
          BY <5>2 DEF Progress
        <5>6. Relies(f.node, f.at - 1, s.deps, s.state)
          BY <2>13, <5>3, <5>4, <5>5, RelyElsewhere
        <5>. QED
          BY <2>7, <2>8, <5>1, <5>2, <5>3, <5>6 DEF Progress
      <4>. QED
        BY <4>1, <4>2
    <3>3. ASSUME NEW d \in Derived, s.state[d] = "clean"
          PROVE  Supported(d, s.deps, s.state, s.value, untold)
      <4>1. d # n /\ d \in Computed /\ r.state[d] = "clean"
        BY <2>8, <3>3, Groups
      <4>2. PICK k \in DOMAIN Reads[d] : Relies(d, k, r.deps, r.state) /\ Holds(d, k, r.value, untold)
        BY <2>15, <2>16, <4>1 DEF Derivation, Supported
      <4>3. k \in Nat /\ k <= Len(Reads[d])
        BY <4>1, SourceType
      <4>4. Relies(d, k, s.deps, s.state)
        BY <2>13, <4>1, <4>2, <4>3, RelyElsewhere
      <4>. QED
        BY <2>7, <4>2, <4>4 DEF Supported
    <3>. QED
      BY <3>1, <3>2, <3>3 DEF Derivation
  <2>. QED
    BY <2>3, <2>7, <2>10, <2>11, <2>12, <2>14, <2>17 DEF Sound, s, untold
<1>. QED
  BY <1>1, <1>2

(* reactive_recompute ends: with the value that the function got.          *)
LEMMA ReturnSound ==
  ASSUME NEW r, NEW secret, Sound(r, secret), r.calls # <<>>, NEW val \in Value,
         Top(r).op \in {"compute", "return"},
         Deriving(Top(r)) =>
           /\ Relies(Top(r).node, Top(r).at, r.deps, r.state)
           /\ val = r.value[Reads[Top(r).node][Top(r).at]]
           /\ val = False \/ Top(r).at = Len(Reads[Top(r).node])
  PROVE  Sound(Return(r, val), secret)
<1> DEFINE calls == r.calls
           l == Len(calls)
           f == Front(calls)
           c == Top(r)
           n == c.node
           s == Return(r, val)
           ran == IF n \in Effect THEN r.ran \cup {n} ELSE r.ran
<1>1. r \in ReactiveRuntime /\ ~r.crashed /\ calls \in Seq(Frame) /\ calls # <<>>
  BY FieldTypes DEF Sound, Typed, Accounted
<1>2. /\ f \in Seq(Frame) /\ DOMAIN f = 1 .. l - 1
      /\ \A k \in 1 .. l - 1 : f[k] = calls[k]
      /\ Last(calls) = calls[l] /\ l \in Nat \ {0} /\ DOMAIN calls = 1 .. l
  BY <1>1, FrontElements
<1>3. /\ c \in Frame /\ c = calls[l] /\ c = Last(calls) /\ l \in DOMAIN calls
      /\ c.prev \in Computed \cup {Nowhere}
  BY <1>1, TopFrame
<1>4. FrameSound(c)
  BY <1>3 DEF Sound, Typed
<1>5. n \in Computed /\ n \in Node
  BY <1>4, Groups DEF FrameSound
<1>6. s = [r EXCEPT !.calls = f, !.computing = c.prev, !.value = [r.value EXCEPT ![n] = val],
                    !.state = [r.state EXCEPT ![n] = "clean"], !.ran = ran]
  BY <1>1 DEF Return, Ended, Pop, Top, ReactiveRuntime
<1> HIDE DEF f, s, c, l
<1>7. /\ s \in ReactiveRuntime /\ s.calls = f /\ s.computing = c.prev
      /\ s.value = [r.value EXCEPT ![n] = val] /\ s.state = [r.state EXCEPT ![n] = "clean"]
      /\ s.deps = r.deps /\ s.dependents = r.dependents /\ s.crashed = r.crashed
      /\ s.is_propagating = r.is_propagating
      /\ s.in_transaction = r.in_transaction /\ s.changes = r.changes /\ s.queue = r.queue
  <2>1. /\ [r.state EXCEPT ![n] = "clean"] \in [Node -> {"clean", "dirty", "computing"}]
        /\ [r.value EXCEPT ![n] = val] \in [Node -> Value] /\ ran \in SUBSET Effect
    BY <1>1, <1>5, FieldTypes
  <2>. QED
    BY <1>1, <1>2, <1>3, <1>6, <2>1 DEF ReactiveRuntime
<1>8. /\ s.state[n] = "clean" /\ s.value[n] = val
      /\ \A m \in Node : m # n => s.state[m] = r.state[m] /\ s.value[m] = r.value[m]
  BY <1>1, <1>5, <1>7, FieldTypes
<1> HIDE DEF ran
<1>9. /\ \A k \in DOMAIN calls : k = l \/ (k \in DOMAIN f /\ f[k] = calls[k])
      /\ \A k \in DOMAIN f : k \in DOMAIN calls /\ f[k] = calls[k] /\ k \in 1 .. l - 1
  BY <1>2
<1>10. Typed(s)
  BY <1>7, <1>9 DEF Typed, Sound
<1>11. Stacked(s.calls, s.computing)
  BY <1>1, <1>3, <1>7, StackPop DEF Sound, f
<1>12. Accounted(s)
  <2>1. ASSUME NEW m \in Node, s.state[m] = "computing"
        PROVE  \E k \in DOMAIN f : f[k].op \in {"compute", "return"} /\ f[k].node = m
    <3>1. m # n /\ r.state[m] = "computing"
      BY <1>8, <2>1
    <3>2. PICK k \in DOMAIN calls : calls[k].op \in {"compute", "return"} /\ calls[k].node = m
      BY <1>1, <3>1 DEF Sound, Accounted, Due
    <3>. QED
      BY <1>3, <1>9, <3>1, <3>2
  <2>2. Settling(f) <=> Settling(calls)
    BY <1>3, <1>9 DEF Settling, c
  <2>3. Closing(f) => Closing(calls)
    BY <1>9 DEF Closing
  <2>4. Due(s.calls, s.state)
    BY <1>7, <2>1 DEF Due
  <2>. QED
    BY <1>1, <1>7, <2>2, <2>3, <2>4 DEF Sound, Accounted
<1>13. Untold(s.calls, s.in_transaction, s.changes, secret)
         = Untold(calls, r.in_transaction, r.changes, secret)
  <2>1. \A i : Open(f, r.in_transaction, i) <=> Open(calls, r.in_transaction, i)
    BY <1>3, <1>9 DEF Open, c
  <2>. QED
    BY <1>7, <2>1 DEF Untold
<1>14. Pending(calls) = {}
  BY <1>3 DEF Pending, c
<1> DEFINE untold == Untold(calls, r.in_transaction, r.changes, secret)
<1>15. Derivation(calls, r.deps, r.state, r.value, untold)
  BY DEF Sound
<1> HIDE DEF untold
<1>16. n \in Derived => Deriving(c) /\ r.state[n] = "computing"
  <2>1. n \in Derived => Deriving(c)
    BY <1>4, Groups DEF Deriving, FrameSound, c
  <2>. QED
    BY <1>3, <1>15, <2>1 DEF Derivation, Progress
<1>17. Elsewhere(n, r.deps, r.state, s.deps, s.state)
  BY <1>5, <1>7, <1>8, <1>16, Groups DEF Elsewhere, Unrelied
<1>18. ASSUME NEW d \in Computed, d # n, NEW k \in Nat, k <= Len(Reads[d]),
              Relies(d, k, r.deps, r.state)
       PROVE  /\ Relies(d, k, s.deps, s.state)
              /\ \A j \in 1 .. k : s.value[Reads[d][j]] = r.value[Reads[d][j]]
  <2>1. Relies(d, k, s.deps, s.state) /\ \A j \in 1 .. k : Reads[d][j] # n
    BY <1>17, <1>18, RelyElsewhere
  <2>2. \A j \in 1 .. k : Reads[d][j] \in Node
    BY <1>18, SourceType, Groups
  <2>. QED
    BY <1>8, <2>1, <2>2
<1>19. Derivation(f, s.deps, s.state, s.value, untold)
  <2>1. ASSUME NEW x \in State PROVE s.state[x] = "clean"
    BY <1>8, <1>15, Groups DEF Derivation
  <2>2. ASSUME NEW k \in DOMAIN f, Deriving(f[k])
        PROVE  Progress(f[k], s.deps, s.state, s.value)
    <3> DEFINE g == calls[k]
    <3>1. k \in DOMAIN calls /\ f[k] = g /\ k \in 1 .. l - 1
      BY <1>9, <2>2
    <3>2. StandsOver(c, g)
      BY <1>3, <3>1 DEF Sound, Stacked
    <3>3. Progress(g, r.deps, r.state, r.value) /\ g.node \in Derived /\ FrameSound(g)
          /\ g.op = "compute" /\ g \in Frame
      BY <1>1, <1>2, <1>15, <2>2, <3>1, ElementOfSeq DEF Derivation, Deriving, Sound, Typed
    <3> HIDE DEF g
    <3>4. Deriving(g) /\ Deriving(c) /\ Rank[n] < Rank[g.node]
      BY <3>2, <3>3 DEF StandsOver, Deriving, Reading
    <3>5. g.node # n /\ g.node \in Computed /\ g.node \in Node
      <4>1. Rank[n] \in Nat /\ g.node \in Computed /\ g.node \in Node
        BY <3>3, <3>4, RankIsRank, Groups DEF Ranks, Deriving
      <4>. QED
        BY <3>4, <4>1
    <3>6. g.at - 1 \in Nat /\ g.at - 1 <= Len(Reads[g.node])
      BY <3>3, <3>5, SourceType DEF FrameSound, ReadsOn
    <3>7. Relies(g.node, g.at - 1, r.deps, r.state)
      BY <3>3 DEF Progress
    <3>8. /\ Relies(g.node, g.at - 1, s.deps, s.state)
          /\ \A j \in 1 .. g.at - 1 : s.value[Reads[g.node][j]] = r.value[Reads[g.node][j]]
      BY <1>18, <3>5, <3>6, <3>7
    <3>. QED
      BY <1>8, <3>1, <3>3, <3>5, <3>8 DEF Progress
  <2>3. ASSUME NEW d \in Derived, s.state[d] = "clean"
        PROVE  Supported(d, s.deps, s.state, s.value, untold)
    <3>0. d \in Computed /\ d \in Node
      BY Groups
    <3>1. CASE d = n
      <4>1. Deriving(c) /\ FrameSound(c) /\ r.state[n] = "computing"
        BY <1>4, <1>16, <3>1
      <4>2. /\ Relies(n, c.at, r.deps, r.state) /\ val = r.value[Reads[n][c.at]]
            /\ val = False \/ c.at = Len(Reads[n])
        BY <4>1 DEF c
      <4>3. /\ \A j \in 1 .. c.at - 1 : r.value[Reads[n][j]] # False
        BY <1>3, <1>15, <4>1 DEF Derivation, Progress
      <4>4. c.at \in 1 .. Len(Reads[n]) /\ c.at \in DOMAIN Reads[n] /\ Len(Reads[n]) \in Nat
        BY <1>5, <4>1, SourceType DEF FrameSound, ReadsOn, Deriving
      <4>5. ASSUME NEW j \in 1 .. c.at
            PROVE  /\ Reads[n][j] \in ToSet(s.deps[n]) /\ s.state[Reads[n][j]] = "clean"
                   /\ s.value[Reads[n][j]] = r.value[Reads[n][j]]
        <5>1. Reads[n][j] \in Node
          BY <1>5, <4>4, SourceType, Groups
        <5>2. Reads[n][j] \in ToSet(r.deps[n]) /\ r.state[Reads[n][j]] = "clean"
          BY <4>2 DEF Relies
        <5>. QED
          BY <1>7, <1>8, <4>1, <5>1, <5>2
      <4>6. Relies(d, c.at, s.deps, s.state)
        BY <3>1, <4>5 DEF Relies
      <4>7. c.at \in 1 .. c.at /\ \A j \in 1 .. c.at - 1 : j \in 1 .. c.at
        BY <4>4
      <4>8. Holds(d, c.at, s.value, untold)
        BY <1>8, <3>1, <4>2, <4>3, <4>5, <4>7 DEF Holds, Gets
      <4>. QED
        BY <3>1, <4>4, <4>6, <4>8 DEF Supported
    <3>2. CASE d # n
      <4>1. r.state[d] = "clean"
        BY <1>8, <2>3, <3>0, <3>2
      <4>2. PICK k \in DOMAIN Reads[d] : Relies(d, k, r.deps, r.state) /\ Holds(d, k, r.value, untold)
        BY <1>14, <1>15, <4>1 DEF Derivation, Supported
      <4>3. k \in Nat /\ k <= Len(Reads[d]) /\ k \in 1 .. k /\ \A j \in 1 .. k - 1 : j \in 1 .. k
        BY <3>0, SourceType
      <4>4. /\ Relies(d, k, s.deps, s.state)
            /\ \A j \in 1 .. k : s.value[Reads[d][j]] = r.value[Reads[d][j]]
        BY <1>18, <3>0, <3>2, <4>2, <4>3
      <4>5. Holds(d, k, s.value, untold)
        BY <1>8, <3>0, <3>2, <4>2, <4>3, <4>4 DEF Holds, Gets
      <4>. QED
        BY <4>2, <4>4, <4>5 DEF Supported
    <3>. QED
      BY <3>1, <3>2
  <2>. QED
    BY <2>1, <2>2, <2>3 DEF Derivation
<1>20. Linked(s.deps, s.dependents)
  BY <1>7 DEF Sound
<1>. QED
  BY <1>7, <1>10, <1>11, <1>12, <1>13, <1>19, <1>20 DEF Sound, s, untold

(* A state changes: what relies on it is told, or will be.                 *)
Tells(x, calls, deps, state, value, untold, new, values, more) ==
  /\ x \in State
  /\ Derivation(calls, deps, state, value, untold) /\ Pending(calls) = {}
  /\ \A n \in State \cup Derived : n # x => values[n] = value[n]
  /\ \A k \in DOMAIN new : ~Deriving(new[k])
  /\ untold \ {x} \subseteq more
  /\ \A d \in Derived : x \in ToSet(deps[d]) => d \in Pending(new) \/ x \in more

LEMMA DerivationTold ==
  ASSUME NEW x, NEW calls, NEW deps, NEW state, NEW value, NEW untold, NEW new, NEW values,
         NEW more, Tells(x, calls, deps, state, value, untold, new, values, more)
  PROVE  Derivation(new, deps, state, values, more)
<1>. USE DEF Tells
<1>1. ASSUME NEW d \in Derived, state[d] = "clean", d \notin Pending(new)
      PROVE  Supported(d, deps, state, values, more)
  <2>0. d \in Computed /\ d # x
    BY Groups
  <2>1. PICK k \in DOMAIN Reads[d] : Relies(d, k, deps, state) /\ Holds(d, k, value, untold)
    BY <1>1 DEF Derivation, Supported
  <2>2. /\ k \in Nat /\ k \in 1 .. k /\ \A j \in 1 .. k - 1 : j \in 1 .. k
        /\ \A j \in 1 .. k : Reads[d][j] \in State \cup Derived
    BY <2>0, SourceType
  <2>3. CASE x \in more /\ \E j \in 1 .. k : Reads[d][j] = x
    BY <2>1, <2>3 DEF Holds, Supported
  <2>4. CASE ~(\E j \in 1 .. k : Reads[d][j] = x)
    <3>1. \A j \in 1 .. k : values[Reads[d][j]] = value[Reads[d][j]]
      BY <2>2, <2>4
    <3>2. values[d] = value[d]
      BY <2>0
    <3>3. CASE \E j \in 1 .. k : Reads[d][j] \in untold
      BY <2>1, <2>4, <3>3 DEF Holds, Supported
    <3>4. CASE Gets(d, k, value) /\ value[d] = value[Reads[d][k]]
      <4>1. Gets(d, k, values) /\ values[d] = values[Reads[d][k]]
        BY <2>2, <3>1, <3>2, <3>4 DEF Gets
      <4>. QED
        BY <2>1, <4>1 DEF Holds, Supported
    <3>. QED
      BY <2>1, <3>3, <3>4 DEF Holds
  <2>5. CASE x \notin more /\ \E j \in 1 .. k : Reads[d][j] = x
    <3>1. x \in ToSet(deps[d])
      BY <2>1, <2>5 DEF Relies
    <3>. QED
      BY <1>1, <2>5, <3>1
  <2>. QED
    BY <2>3, <2>4, <2>5
<1>. QED
  BY <1>1 DEF Derivation

(* Whose turn it is to write, or to propagate.                             *)
Free(r) ==
  ~r.crashed /\ (r.calls # <<>> => /\ ~Reading(Last(r.calls))
                                   /\ Last(r.calls).op \notin {"invalidate", "announce"})

LEMMA InvalidateFrame ==
  ASSUME NEW r \in ReactiveRuntime, NEW x \in State, Linked(r.deps, r.dependents)
  PROVE  /\ NewCall(r, "invalidate", x, Told(r, x)) \in Frame
         /\ NewCall(r, "invalidate", x, Told(r, x)).op = "invalidate"
         /\ NewCall(r, "invalidate", x, Told(r, x)).prev = r.computing
         /\ \A d \in Derived : x \in ToSet(r.deps[d]) =>
              d \in ToSet(NewCall(r, "invalidate", x, Told(r, x)).todo)
<1>1. x \notin r.disposed /\ x \in Node /\ Derived \subseteq Node
  BY FieldTypes, Groups
<1>2. Told(r, x) = r.dependents[x] /\ r.dependents[x] \in Seq(Computed)
  BY <1>1, FieldTypes DEF Told
<1>3. r.computing \in Computed \cup {Nowhere}
  BY FieldTypes
<1>4. \A d \in Derived : x \in ToSet(r.deps[d]) => d \in ToSet(Told(r, x))
  BY <1>1, <1>2 DEF Linked
<1>. QED
  BY <1>1, <1>2, <1>3, <1>4 DEF NewCall, Frame

(* reactive_set                                                            *)
LEMMA SetValueSound ==
  ASSUME NEW r, NEW secret, Sound(r, secret), Free(r), NEW x \in State, NEW val \in Value,
         NEW hidden, hidden = secret \/ (hidden = secret \ {x} /\ ~r.in_transaction /\ r.value[x] # val)
  PROVE  Sound(SetValue(r, x, val), hidden)
<1> DEFINE calls == r.calls
           s == SetValue(r, x, val)
           values == [r.value EXCEPT ![x] = val]
           untold == Untold(calls, r.in_transaction, r.changes, secret)
<1>1. r \in ReactiveRuntime /\ calls \in Seq(Frame) /\ x \in Node
  BY FieldTypes, Groups DEF Sound, Typed
<1>2. Pending(calls) = {} /\ Derivation(calls, r.deps, r.state, r.value, untold)
  BY DEF Free, Pending, Sound
<1>3. \A k \in DOMAIN calls : ~Deriving(calls[k])
  BY <1>1, NoneDeriving DEF Sound, Free, Reading
<1>4. values \in [Node -> Value] /\ \A n \in State \cup Derived : n # x => values[n] = r.value[n]
  BY <1>1, FieldTypes, Groups
<1>5. [r.prev_value EXCEPT ![x] = r.value[x]] \in [State -> Value]
  BY <1>1, FieldTypes
<1>6. CASE r.value[x] = val
  BY <1>6 DEF SetValue
<1>7. CASE r.value[x] # val /\ r.in_transaction
  <2> DEFINE changes == Append(r.changes, x)
             more == Untold(calls, TRUE, changes, secret)
  <2>1. changes \in Seq(State) /\ DOMAIN changes = 1 .. Len(r.changes) + 1
        /\ changes[Len(r.changes) + 1] = x /\ DOMAIN r.changes = 1 .. Len(r.changes)
        /\ \A i \in 1 .. Len(r.changes) : changes[i] = r.changes[i]
        /\ Len(r.changes) \in Nat
    BY <1>1, FieldTypes, PushElements
  <2>2. s = [r EXCEPT !.prev_value = [r.prev_value EXCEPT ![x] = r.value[x]],
                      !.value = values, !.changes = changes]
    BY <1>1, <1>7 DEF SetValue, ReactiveRuntime
  <2> HIDE DEF s, values, changes
  <2>3. /\ s \in ReactiveRuntime /\ s.value = values /\ s.changes = changes
        /\ s.calls = r.calls /\ s.deps = r.deps /\ s.dependents = r.dependents
        /\ s.computing = r.computing /\ s.crashed = r.crashed /\ s.state = r.state
        /\ s.is_propagating = r.is_propagating /\ s.in_transaction = r.in_transaction
        /\ s.queue = r.queue
    BY <1>1, <1>4, <1>5, <2>1, <2>2 DEF ReactiveRuntime
  <2>4. Typed(s) /\ Accounted(s)
    BY <2>3 DEF Sound, Typed, Accounted
  <2>5. x \in more /\ untold \subseteq more
    <3>1. Len(r.changes) + 1 \in DOMAIN changes /\ DOMAIN r.changes \subseteq DOMAIN changes
      BY <2>1
    <3>. QED
      BY <2>1, <3>1 DEF Untold, Open
  <2>6. Tells(x, calls, r.deps, r.state, r.value, untold, calls, values, more)
    BY <1>2, <1>3, <1>4, <2>5 DEF Tells
  <2>7. Derivation(calls, r.deps, r.state, values, more)
    BY <2>6, DerivationTold
  <2>8. hidden = secret /\ r.in_transaction = TRUE
    BY <1>1, <1>7, FieldTypes
  <2>. QED
    BY <2>3, <2>4, <2>7, <2>8 DEF Sound, s
<1>8. CASE r.value[x] # val /\ ~r.in_transaction
  <2> DEFINE c == NewCall(r, "propagate", x, <<>>)
             d == NewCall(r, "invalidate", x, Told(r, x))
             one == Append(calls, c)
             two == Append(one, d)
  <2>1. c \in Frame /\ c.op = "propagate" /\ c.prev = r.computing
    <3>1. <<>> \in Seq(Computed) /\ r.computing \in Computed \cup {Nowhere}
      BY <1>1, FieldTypes, EmptySeq
    <3>. QED
      BY <1>1, <3>1 DEF NewCall, Frame
  <2>2. d \in Frame /\ d.op = "invalidate" /\ d.prev = r.computing
        /\ \A n \in Derived : x \in ToSet(r.deps[n]) => n \in ToSet(d.todo)
    BY <1>1, InvalidateFrame DEF Sound
  <2>3. s = [r EXCEPT !.prev_value = [r.prev_value EXCEPT ![x] = r.value[x]],
                      !.value = values, !.calls = two]
    BY <1>1, <1>8 DEF SetValue, Invalidate, Push, NewCall, Told, ReactiveRuntime
  <2> HIDE DEF c, d
  <2>4. /\ one \in Seq(Frame) /\ DOMAIN one = 1 .. Len(calls) + 1
        /\ \A k \in 1 .. Len(calls) : one[k] = calls[k]
        /\ one[Len(calls) + 1] = c /\ Last(one) = c /\ one # <<>>
        /\ DOMAIN calls = 1 .. Len(calls) /\ Len(calls) \in Nat /\ Len(one) = Len(calls) + 1
    BY <1>1, <2>1, PushElements
  <2> HIDE DEF one
  <2>5. /\ two \in Seq(Frame) /\ DOMAIN two = 1 .. Len(one) + 1
        /\ \A k \in 1 .. Len(one) : two[k] = one[k]
        /\ two[Len(one) + 1] = d /\ Last(two) = d /\ two # <<>>
    BY <2>2, <2>4, PushElements
  <2>6. Fits(c, calls)
    BY <2>1 DEF Free, Fits, Reading
  <2>7. Stacked(one, After(c)) /\ After(c) = r.computing
    BY <1>1, <2>1, <2>6, StackPush DEF Sound, After, one
  <2>8. Fits(d, one)
    BY <2>1, <2>2, <2>4 DEF Fits, Reading, Deriving
  <2>9. Stacked(two, After(d)) /\ After(d) = r.computing
    BY <2>2, <2>4, <2>7, <2>8, StackPush DEF After
  <2> HIDE DEF s, values, two
  <2>10. /\ s \in ReactiveRuntime /\ s.value = values /\ s.calls = two
         /\ s.changes = r.changes /\ s.deps = r.deps /\ s.dependents = r.dependents
         /\ s.computing = r.computing /\ s.crashed = r.crashed /\ s.state = r.state
         /\ s.is_propagating = r.is_propagating /\ s.in_transaction = r.in_transaction
         /\ s.queue = r.queue
    BY <1>1, <1>4, <1>5, <2>3, <2>5 DEF ReactiveRuntime
  <2>11. /\ \A k \in DOMAIN two : \/ k \in DOMAIN calls /\ two[k] = calls[k]
                                  \/ two[k] = c \/ two[k] = d
         /\ \A k \in DOMAIN calls : k \in DOMAIN two /\ two[k] = calls[k]
    BY <2>4, <2>5
  <2>12. Typed(s)
    BY <2>1, <2>2, <2>10, <2>11 DEF Typed, Sound, FrameSound
  <2>13. Accounted(s)
    <3>1. Due(two, r.state)
      BY <2>11 DEF Sound, Accounted, Due, Free
    <3>2. Settling(two) <=> Settling(calls)
      BY <2>1, <2>2, <2>11 DEF Settling
    <3>. QED
      BY <1>8, <2>10, <3>1, <3>2 DEF Sound, Accounted, Free
  <2> DEFINE more == Untold(two, r.in_transaction, r.changes, hidden)
  <2>14. untold \ {x} \subseteq more
    <3>1. \A i : Open(calls, r.in_transaction, i) => Open(two, r.in_transaction, i)
      BY <2>11 DEF Open
    <3>. QED
      BY <3>1 DEF Untold
  <2>15. Pending(two) = ToSet(d.todo)
    BY <2>2, <2>5 DEF Pending
  <2>16. \A k \in DOMAIN two : ~Deriving(two[k])
    BY <1>3, <2>1, <2>2, <2>11 DEF Deriving
  <2>17. Tells(x, calls, r.deps, r.state, r.value, untold, two, values, more)
    BY <1>2, <1>4, <2>2, <2>14, <2>15, <2>16 DEF Tells
  <2>18. Derivation(two, r.deps, r.state, values, more)
    BY <2>17, DerivationTold
  <2>. QED
    BY <2>9, <2>10, <2>12, <2>13, <2>18 DEF Sound, s
<1>. QED
  BY <1>6, <1>7, <1>8

(* A list without its first element.                                       *)
LEMMA TailElements ==
  ASSUME NEW S, NEW s \in Seq(S), s # <<>>
  PROVE  /\ Head(s) \in S /\ Tail(s) \in Seq(S) /\ Head(s) \in ToSet(s)
         /\ ToSet(s) \ {Head(s)} \subseteq ToSet(Tail(s))
<1>1. /\ Head(s) \in S /\ Tail(s) \in Seq(S) /\ Len(Tail(s)) = Len(s) - 1
      /\ \A i \in 1 .. Len(Tail(s)) : Tail(s)[i] = s[i + 1]
      /\ Head(s) = s[1] /\ Len(s) \in Nat \ {0}
  BY HeadTailProperties, EmptySeq
<1>2. DOMAIN s = 1 .. Len(s) /\ DOMAIN Tail(s) = 1 .. Len(s) - 1 /\ 1 \in DOMAIN s
  BY <1>1, LenProperties
<1>3. ASSUME NEW e \in ToSet(s), e # Head(s) PROVE e \in ToSet(Tail(s))
  <2>1. PICK k \in DOMAIN s : e = s[k]
    BY DEF ToSet
  <2>2. k - 1 \in DOMAIN Tail(s) /\ k - 1 + 1 = k
    BY <1>1, <1>2, <1>3, <2>1
  <2>3. Tail(s)[k - 1] = e
    BY <1>1, <1>2, <2>1, <2>2
  <2>. QED
    BY <2>2, <2>3 DEF ToSet
<1>. QED
  BY <1>1, <1>2, <1>3 DEF ToSet

LEMMA ConcatElements ==
  ASSUME NEW S, NEW s \in Seq(S), NEW t \in Seq(S)
  PROVE  s \o t \in Seq(S) /\ ToSet(s) \subseteq ToSet(s \o t) /\ ToSet(t) \subseteq ToSet(s \o t)
<1> DEFINE u == s \o t
<1>1. /\ u \in Seq(S) /\ Len(u) = Len(s) + Len(t)
      /\ \A i \in 1 .. Len(s) + Len(t) : u[i] = IF i <= Len(s) THEN s[i] ELSE t[i - Len(s)]
  BY ConcatProperties
<1>2. /\ DOMAIN u = 1 .. Len(s) + Len(t) /\ DOMAIN s = 1 .. Len(s) /\ DOMAIN t = 1 .. Len(t)
      /\ Len(s) \in Nat /\ Len(t) \in Nat
  BY <1>1, LenProperties
<1> HIDE DEF u
<1>3. ASSUME NEW k \in 1 .. Len(s) PROVE k \in DOMAIN u /\ u[k] = s[k]
  BY <1>1, <1>2
<1>4. ASSUME NEW k \in 1 .. Len(t) PROVE k + Len(s) \in DOMAIN u /\ u[k + Len(s)] = t[k]
  BY <1>1, <1>2
<1>5. ASSUME NEW e \in ToSet(s) PROVE e \in ToSet(u)
  <2>1. PICK k \in 1 .. Len(s) : e = s[k]
    BY <1>2 DEF ToSet
  <2>. QED
    BY <1>3, <2>1 DEF ToSet
<1>6. ASSUME NEW e \in ToSet(t) PROVE e \in ToSet(u)
  <2>1. PICK k \in 1 .. Len(t) : e = t[k]
    BY <1>2 DEF ToSet
  <2>. QED
    BY <1>4, <2>1 DEF ToSet
<1>. QED
  BY <1>1, <1>5, <1>6 DEF u

(* What is told next, of what is left to be told.                          *)
LEMMA ResumeInvalidate ==
  ASSUME NEW r, NEW secret, Sound(r, secret), r.calls # <<>>, Top(r).op = "invalidate",
         NEW todo \in Seq(Computed)
  PROVE  LET c   == [Top(r) EXCEPT !.todo = todo]
             new == Append(Front(r.calls), c)
         IN /\ new \in Seq(Frame) /\ Stacked(new, r.computing)
            /\ \A k \in DOMAIN new : FrameSound(new[k]) /\ ~Deriving(new[k])
            /\ \A state : Due(r.calls, state) => Due(new, state)
            /\ Settling(new) <=> Settling(r.calls)
            /\ Closing(new) => ~r.in_transaction
            /\ \A i : Open(new, r.in_transaction, i) <=> Open(r.calls, r.in_transaction, i)
            /\ Pending(r.calls) = ToSet(Top(r).todo) /\ Pending(new) = ToSet(todo)
<1> DEFINE calls == r.calls
           l == Len(calls)
           f == Front(calls)
           c == [Top(r) EXCEPT !.todo = todo]
           new == Append(f, c)
<1>1. r \in ReactiveRuntime /\ calls \in Seq(Frame) /\ calls # <<>>
  BY FieldTypes DEF Sound, Typed
<1>2. /\ f \in Seq(Frame) /\ DOMAIN f = 1 .. l - 1 /\ Len(f) = l - 1
      /\ \A k \in 1 .. l - 1 : f[k] = calls[k]
      /\ Last(calls) = calls[l] /\ l \in Nat \ {0} /\ DOMAIN calls = 1 .. l
  BY <1>1, FrontElements
<1>3. Top(r) \in Frame /\ Top(r) = Last(calls) /\ Top(r) = calls[l]
  BY <1>1, TopFrame
<1>4. /\ c \in Frame /\ c.op = "invalidate" /\ c.prev = Top(r).prev /\ c.todo = todo
  BY <1>3 DEF Frame
<1> HIDE DEF c, f, l
<1>5. /\ new \in Seq(Frame) /\ DOMAIN new = 1 .. Len(f) + 1
      /\ \A k \in 1 .. Len(f) : new[k] = f[k]
      /\ new[Len(f) + 1] = c /\ Last(new) = c /\ new # <<>>
  BY <1>2, <1>4, PushElements
<1>6. Stacked(calls, r.computing) /\ Replaces(c, Last(calls))
  BY <1>3, <1>4 DEF Sound, Replaces, Deriving
<1>7. Stacked(new, After(c)) /\ After(c) = r.computing
  <2>1. Stacked(new, After(c))
    BY <1>1, <1>4, <1>6, StackReplace DEF f
  <2>. QED
    BY <1>1, <1>3, <1>4, <1>6, <2>1 DEF After, Stacked
<1> HIDE DEF new
<1>8. /\ DOMAIN new = 1 .. l /\ new[l] = c /\ l \in DOMAIN new /\ l \in DOMAIN calls
      /\ \A k \in DOMAIN new : k = l \/ (k \in DOMAIN calls /\ new[k] = calls[k])
      /\ \A k \in DOMAIN calls : k = l \/ (k \in DOMAIN new /\ new[k] = calls[k])
  BY <1>2, <1>5
<1>9. \A k \in DOMAIN calls : ~Deriving(calls[k])
  BY <1>1, <1>3, <1>6, NoneDeriving DEF Deriving
<1>10. \A k \in DOMAIN new : FrameSound(new[k]) /\ ~Deriving(new[k])
  BY <1>4, <1>8, <1>9 DEF FrameSound, Deriving, Sound, Typed
<1>11. \A state : Due(calls, state) => Due(new, state)
  BY <1>3, <1>8 DEF Due
<1>12. Settling(new) <=> Settling(calls)
  BY <1>3, <1>4, <1>8 DEF Settling
<1>13. Closing(new) => ~r.in_transaction
  BY <1>3, <1>4, <1>8 DEF Closing, Sound, Accounted
<1>14. \A i : Open(new, r.in_transaction, i) <=> Open(calls, r.in_transaction, i)
  BY <1>3, <1>4, <1>8 DEF Open
<1>15. Pending(calls) = ToSet(Top(r).todo) /\ Pending(new) = ToSet(todo)
  BY <1>1, <1>3, <1>4, <1>5 DEF Pending
<1>. QED
  BY <1>5, <1>7, <1>10, <1>11, <1>12, <1>13, <1>14, <1>15 DEF new, f, c

(* reactive_invalidate                                                     *)
LEMMA PassedOver ==
  ASSUME NEW r \in ReactiveRuntime, NEW n
  PROVE  /\ PassOver(r, n) \in ReactiveRuntime /\ SameCore(r, PassOver(r, n))
         /\ PassOver(r, n).queue = r.queue /\ PassOver(r, n).fired = r.fired
         /\ PassOver(r, n).triggered = r.triggered
         /\ PassOver(r, n).prev_value = r.prev_value /\ PassOver(r, n).disposed = r.disposed
<1> DEFINE more == r.missed \cup {n}
<1>1. CASE n \in Effect /\ r.state[n] = "computing"
  <2>1. PassOver(r, n) = [r EXCEPT !.missed = more]
    BY <1>1 DEF PassOver, ReactiveRuntime
  <2>2. more \in SUBSET Effect
    BY <1>1, FieldTypes
  <2> HIDE DEF more
  <2>. QED
    BY <2>1, <2>2 DEF SameCore, ReactiveRuntime
<1>2. CASE ~(n \in Effect /\ r.state[n] = "computing")
  BY <1>2 DEF PassOver, SameCore
<1>. QED
  BY <1>1, <1>2

LEMMA InvalidateSound ==
  ASSUME NEW r, NEW secret, Sound(r, secret), r.calls # <<>>, Top(r).op = "invalidate"
  PROVE  Sound(InvalidateNext(r), secret)
<1> DEFINE calls == r.calls
           left == Top(r).todo
           h == Head(left)
<1>1. r \in ReactiveRuntime /\ calls \in Seq(Frame) /\ ~r.crashed /\ left \in Seq(Computed)
  BY FieldTypes, TopFrame DEF Sound, Typed, Accounted
<1>2. CASE left = <<>>
  <2>1. InvalidateNext(r) = Pop(r)
    BY <1>2 DEF InvalidateNext
  <2>. QED
    BY <1>2, <2>1, PopSound
<1> HIDE DEF left
<1>3. ASSUME left # <<>>
      PROVE  h \in Computed /\ Tail(left) \in Seq(Computed) /\ ToSet(left) \ {h} \subseteq ToSet(Tail(left))
  BY <1>1, <1>3, TailElements
<1>4. CASE left # <<>> /\ r.state[h] # "clean"
  <2> DEFINE q == PassOver(r, h)
             c == [Top(r) EXCEPT !.todo = Tail(left)]
             new == Append(Front(r.calls), c)
  <2>1. InvalidateNext(r) = Resume(q, [Top(r) EXCEPT !.todo = <<>> \o Tail(left)])
    BY <1>4 DEF InvalidateNext, left, q
  <2>2. <<>> \o Tail(left) = Tail(left)
    BY <1>3, <1>4, ConcatEmptySeq
  <2>7. q \in ReactiveRuntime /\ SameCore(r, q) /\ q.queue = r.queue /\ Sound(q, secret)
    <3>1. q \in ReactiveRuntime /\ SameCore(r, q) /\ q.queue = r.queue
      BY <1>1, PassedOver
    <3>2. Len(q.queue) <= BatchSize
      BY <3>1 DEF Sound, Typed
    <3> HIDE DEF q
    <3>. QED
      BY <1>1, <3>1, <3>2, SameSound
  <2> HIDE DEF q
  <2>3. InvalidateNext(r) = [q EXCEPT !.calls = new]
    BY <1>1, <2>1, <2>2, <2>7 DEF Resume, Push, Pop, SameCore, ReactiveRuntime
  <2>4. /\ new \in Seq(Frame) /\ Stacked(new, r.computing)
        /\ \A k \in DOMAIN new : FrameSound(new[k]) /\ ~Deriving(new[k])
        /\ Due(r.calls, r.state) => Due(new, r.state)
        /\ Settling(new) <=> Settling(r.calls)
        /\ Closing(new) => ~r.in_transaction
        /\ \A i : Open(new, r.in_transaction, i) <=> Open(r.calls, r.in_transaction, i)
        /\ Pending(r.calls) = ToSet(left) /\ Pending(new) = ToSet(Tail(left))
    BY <1>3, <1>4, ResumeInvalidate DEF left
  <2> HIDE DEF new
  <2>5. \A d \in Derived : r.state[d] = "clean" /\ d \in Pending(r.calls) => d \in Pending(new)
    BY <1>3, <1>4, <2>4
  <2>6. Due(new, r.state)
    BY <1>1, <2>4 DEF Sound, Accounted
  <2>8. Sound([q EXCEPT !.calls = new], secret)
    <3>1. /\ q.calls = r.calls /\ q.computing = r.computing /\ q.state = r.state /\ q.crashed = r.crashed
          /\ q.in_transaction = r.in_transaction /\ q.changes = r.changes
      BY <2>7 DEF SameCore
    <3>. QED
      BY <1>1, <2>4, <2>5, <2>6, <2>7, <3>1, StackMove
  <2>. QED
    BY <2>3, <2>8
<1>5. CASE left # <<>> /\ r.state[h] = "clean"
  <2> DEFINE q == Enqueue(r, h)
             more == Told(r, h)
             todo == more \o Tail(left)
             c == [Top(r) EXCEPT !.todo = todo]
             new == Append(Front(r.calls), c)
             queue == IF Len(r.queue) < BatchSize THEN Append(r.queue, h) ELSE r.queue
             s == InvalidateNext(r)
             untold == Untold(calls, r.in_transaction, r.changes, secret)
  <2>1. h \in Computed /\ h \in Node /\ Tail(left) \in Seq(Computed)
        /\ ToSet(left) \ {h} \subseteq ToSet(Tail(left))
    BY <1>3, <1>5, Groups
  <2>2. queue \in Seq(Computed) /\ Len(queue) <= BatchSize
    <3>1. r.queue \in Seq(Computed) /\ Len(r.queue) <= BatchSize /\ Len(r.queue) \in Nat
      BY <1>1, FieldTypes, LenProperties DEF Sound, Typed
    <3>2. Append(r.queue, h) \in Seq(Computed) /\ Len(Append(r.queue, h)) = Len(r.queue) + 1
      BY <2>1, <3>1, AppendElements
    <3>. QED
      BY <3>1, <3>2, BoundAssumption
  <2>3. q = [r EXCEPT !.state = [r.state EXCEPT ![h] = "dirty"], !.queue = queue]
    BY <1>1 DEF Enqueue, ReactiveRuntime
  <2> HIDE DEF queue
  <2>4. [r.state EXCEPT ![h] = "dirty"] \in [Node -> {"clean", "dirty", "computing"}]
    BY <1>1, FieldTypes
  <2> HIDE DEF q
  <2>5. q \in ReactiveRuntime /\ q.calls = calls
    BY <1>1, <2>2, <2>3, <2>4 DEF ReactiveRuntime
  <2>6. s = Resume(q, [Top(r) EXCEPT !.todo = todo])
    BY <1>5 DEF InvalidateNext, left, q
  <2>7. more \in Seq(Computed) /\ (h \notin r.disposed => more = r.dependents[h])
    BY <1>1, <2>1, FieldTypes, EmptySeq DEF Told
  <2> HIDE DEF more
  <2>8. todo \in Seq(Computed) /\ ToSet(more) \subseteq ToSet(todo)
        /\ ToSet(Tail(left)) \subseteq ToSet(todo)
    BY <2>1, <2>7, ConcatElements
  <2> HIDE DEF todo
  <2>9. s = [r EXCEPT !.state = [r.state EXCEPT ![h] = "dirty"], !.queue = queue, !.calls = new]
    BY <1>1, <2>3, <2>5, <2>6 DEF Resume, Push, Pop, ReactiveRuntime
  <2>10. /\ new \in Seq(Frame) /\ Stacked(new, r.computing)
         /\ \A k \in DOMAIN new : FrameSound(new[k]) /\ ~Deriving(new[k])
         /\ \A state : Due(r.calls, state) => Due(new, state)
         /\ Settling(new) <=> Settling(r.calls)
         /\ Closing(new) => ~r.in_transaction
         /\ \A i : Open(new, r.in_transaction, i) <=> Open(r.calls, r.in_transaction, i)
         /\ Pending(r.calls) = ToSet(left) /\ Pending(new) = ToSet(todo)
    BY <2>8, ResumeInvalidate DEF left
  <2> HIDE DEF s, new
  <2>11. /\ s \in ReactiveRuntime /\ s.calls = new /\ s.queue = queue
         /\ s.state = [r.state EXCEPT ![h] = "dirty"]
         /\ s.value = r.value /\ s.changes = r.changes /\ s.deps = r.deps
         /\ s.dependents = r.dependents
         /\ s.computing = r.computing /\ s.crashed = r.crashed
         /\ s.is_propagating = r.is_propagating /\ s.in_transaction = r.in_transaction
    BY <1>1, <2>2, <2>4, <2>9, <2>10 DEF ReactiveRuntime
  <2>12. s.state[h] = "dirty" /\ \A m \in Node : m # h => s.state[m] = r.state[m]
    BY <1>1, <2>1, <2>11, FieldTypes
  <2>13. Typed(s)
    BY <2>2, <2>10, <2>11 DEF Typed
  <2>14. Accounted(s)
    <3>1. Due(calls, s.state)
      BY <1>1, <2>12 DEF Due, Sound, Accounted
    <3>. QED
      BY <1>1, <2>10, <2>11, <3>1 DEF Sound, Accounted
  <2>15. Untold(s.calls, s.in_transaction, s.changes, secret) = untold
    BY <2>10, <2>11 DEF Untold
  <2>16. Derivation(calls, r.deps, r.state, r.value, untold)
    BY DEF Sound
  <2> HIDE DEF untold
  <2>17. Derivation(new, s.deps, s.state, s.value, untold)
    <3>1. ASSUME NEW x \in State PROVE s.state[x] = "clean"
      BY <2>1, <2>12, <2>16, Groups DEF Derivation
    <3>2. ASSUME NEW d \in Derived, s.state[d] = "clean", d \notin Pending(new)
          PROVE  Supported(d, s.deps, s.state, s.value, untold)
      <4>1. d # h /\ d \in Computed /\ d \in Node /\ r.state[d] = "clean"
        BY <2>12, <3>2, Groups
      <4>2. d \notin Pending(calls)
        BY <2>1, <2>8, <2>10, <3>2, <4>1
      <4>3. PICK k \in DOMAIN Reads[d] : Relies(d, k, r.deps, r.state) /\ Holds(d, k, r.value, untold)
        BY <2>16, <4>1, <4>2 DEF Derivation, Supported
      <4>4. k \in 1 .. Len(Reads[d]) /\ \A j \in 1 .. k : Reads[d][j] \in State \cup Derived
        BY <4>1, SourceType
      <4>5. ASSUME NEW j \in 1 .. k PROVE Reads[d][j] # h
        <5> SUFFICES ASSUME Reads[d][j] = h PROVE FALSE
          OBVIOUS
        <5>1. h \in ToSet(r.deps[d]) /\ h \in Derived
          BY <2>1, <4>3, <4>4, Groups DEF Relies
        <5>2. h \notin r.disposed
          BY <1>1, <5>1, FieldTypes, Groups
        <5>3. d \in ToSet(r.dependents[h])
          BY <2>1, <4>1, <5>1 DEF Sound, Linked
        <5>. QED
          BY <2>7, <2>8, <2>10, <3>2, <5>2, <5>3
      <4>6. \A j \in 1 .. k : s.state[Reads[d][j]] = r.state[Reads[d][j]]
        BY <2>12, <4>4, <4>5, Groups
      <4>7. Relies(d, k, s.deps, s.state)
        BY <2>11, <4>3, <4>6 DEF Relies
      <4>. QED
        BY <2>11, <4>3, <4>7 DEF Supported
    <3>. QED
      BY <2>10, <3>1, <3>2 DEF Derivation
  <2>. QED
    BY <2>10, <2>11, <2>13, <2>14, <2>15, <2>17 DEF Sound, s
<1>. QED
  BY <1>2, <1>4, <1>5

(* The loop of reactive_transaction_commit.                                *)
LEMMA AnnounceSound ==
  ASSUME NEW r, NEW secret, Sound(r, secret), r.calls # <<>>, Top(r).op = "announce"
  PROVE  Sound(AnnounceNext(r), secret)
<1> DEFINE calls == r.calls
           l == Len(calls)
           f == Front(calls)
           at == Top(r).at
<1>1. r \in ReactiveRuntime /\ calls \in Seq(Frame) /\ calls # <<>> /\ ~r.crashed
  BY FieldTypes DEF Sound, Typed, Accounted
<1>2. /\ f \in Seq(Frame) /\ DOMAIN f = 1 .. l - 1 /\ Len(f) = l - 1
      /\ \A k \in 1 .. l - 1 : f[k] = calls[k]
      /\ Last(calls) = calls[l] /\ l \in Nat \ {0} /\ DOMAIN calls = 1 .. l
  BY <1>1, FrontElements
<1>3. Top(r) \in Frame /\ Top(r) = Last(calls) /\ Top(r) = calls[l] /\ at \in Nat \ {0}
  BY <1>1, TopFrame
<1>4. r.changes \in Seq(State) /\ DOMAIN r.changes = 1 .. Len(r.changes) /\ Len(r.changes) \in Nat
  BY <1>1, FieldTypes, LenProperties
<1>5. CASE at > Len(r.changes)
  <2>1. AnnounceNext(r) = Pop(r)
    BY <1>5 DEF AnnounceNext
  <2>. QED
    BY <1>5, <2>1, PopSound
<1>6. CASE ~(at > Len(r.changes))
  <2> DEFINE x == r.changes[at]
             c == [Top(r) EXCEPT !.at = at + 1]
             one == Append(f, c)
             d == NewCall(r, "invalidate", x, Told(r, x))
             two == Append(one, d)
             s == AnnounceNext(r)
             untold == Untold(calls, r.in_transaction, r.changes, secret)
             more == Untold(two, r.in_transaction, r.changes, secret)
  <2>1. at \in DOMAIN r.changes /\ x \in State
    BY <1>3, <1>4, <1>6, ElementOfSeq
  <2>2. /\ c \in Frame /\ c.op = "announce" /\ c.prev = Top(r).prev /\ c.at = at + 1
    BY <1>3 DEF Frame
  <2>3. d \in Frame /\ d.op = "invalidate" /\ d.prev = r.computing
        /\ \A n \in Derived : x \in ToSet(r.deps[n]) => n \in ToSet(d.todo)
    BY <1>1, <2>1, InvalidateFrame DEF Sound
  <2>4. s = [r EXCEPT !.calls = two]
    <3>1. s = Invalidate(NextRound(r), x)
      BY <1>6 DEF AnnounceNext
    <3>2. NextRound(r) = [r EXCEPT !.calls = one]
      BY <1>1 DEF NextRound, Resume, Push, Pop, Top, ReactiveRuntime
    <3> DEFINE q == NextRound(r)
    <3> HIDE DEF one, x
    <3>3. /\ q.calls = one /\ q.computing = r.computing /\ q.disposed = r.disposed
          /\ q.dependents = r.dependents
      BY <1>1, <3>2 DEF ReactiveRuntime
    <3>4. NewCall(q, "invalidate", x, Told(q, x)) = d
      BY <3>3 DEF NewCall, Told
    <3> HIDE DEF q, d
    <3>5. s = [q EXCEPT !.calls = two]
      BY <3>1, <3>3, <3>4 DEF Invalidate, Push, q
    <3> HIDE DEF two
    <3>. QED
      BY <1>1, <3>2, <3>5 DEF q, ReactiveRuntime
  <2> HIDE DEF c, d, x, f, s
  <2>5. /\ one \in Seq(Frame) /\ DOMAIN one = 1 .. Len(f) + 1
        /\ \A k \in 1 .. Len(f) : one[k] = f[k]
        /\ one[Len(f) + 1] = c /\ Last(one) = c /\ one # <<>>
        /\ Len(one) = Len(f) + 1
    BY <1>2, <2>2, PushElements
  <2>6. Stacked(calls, r.computing) /\ Replaces(c, Last(calls))
    BY <1>3, <2>2 DEF Sound, Replaces, Deriving
  <2>7. Stacked(one, After(c)) /\ After(c) = r.computing
    <3>1. Stacked(one, After(c))
      BY <1>1, <2>2, <2>6, StackReplace DEF f
    <3>. QED
      BY <1>1, <1>3, <2>2, <2>6, <3>1 DEF After, Stacked
  <2>8. Fits(d, one)
    BY <2>2, <2>3, <2>5 DEF Fits, Reading, Deriving
  <2> HIDE DEF one
  <2>9. /\ two \in Seq(Frame) /\ DOMAIN two = 1 .. Len(one) + 1
        /\ \A k \in 1 .. Len(one) : two[k] = one[k]
        /\ two[Len(one) + 1] = d /\ Last(two) = d /\ two # <<>>
    BY <2>3, <2>5, PushElements
  <2>10. Stacked(two, r.computing)
    <3>1. Stacked(two, After(d))
      BY <2>3, <2>5, <2>7, <2>8, StackPush
    <3>. QED
      BY <2>3, <3>1 DEF After
  <2> HIDE DEF two
  <2>11. /\ s \in ReactiveRuntime /\ s.calls = two /\ s.value = r.value
         /\ s.changes = r.changes /\ s.deps = r.deps /\ s.dependents = r.dependents
         /\ s.computing = r.computing /\ s.crashed = r.crashed /\ s.state = r.state
         /\ s.is_propagating = r.is_propagating /\ s.in_transaction = r.in_transaction
         /\ s.queue = r.queue
    BY <1>1, <2>4, <2>9 DEF ReactiveRuntime
  <2>12. /\ l \in DOMAIN two /\ two[l] = c
         /\ \A k \in DOMAIN two : \/ k \in DOMAIN calls /\ two[k] = calls[k]
                                  \/ two[k] = c \/ two[k] = d
         /\ \A k \in DOMAIN calls : k = l \/ (k \in DOMAIN two /\ two[k] = calls[k])
    <3> HIDE DEF l
    <3>1. Len(f) = l - 1 /\ Len(one) = l /\ DOMAIN two = 1 .. l + 1 /\ l \in Nat \ {0}
      BY <1>2, <2>5, <2>9
    <3>2. two[l + 1] = d
      BY <2>9, <3>1
    <3>3. two[l] = c
      <4>1. one[l] = c
        BY <2>5, <3>1
      <4>. QED
        BY <2>9, <3>1, <4>1
    <3>4. ASSUME NEW k \in 1 .. l - 1 PROVE k \in DOMAIN calls /\ two[k] = calls[k] /\ k \in DOMAIN two
      <4>1. one[k] = f[k] /\ f[k] = calls[k]
        BY <1>2, <2>5, <3>1
      <4>. QED
        BY <1>2, <2>9, <3>1, <4>1
    <3>5. \A k \in 1 .. l + 1 : k \in 1 .. l - 1 \/ k = l \/ k = l + 1
      BY <3>1
    <3>6. DOMAIN calls = 1 .. l /\ l \in 1 .. l + 1 /\ \A k \in 1 .. l : k \in 1 .. l + 1
      BY <1>2, <3>1
    <3>. QED
      BY <3>1, <3>2, <3>3, <3>4, <3>5, <3>6
  <2>13. Typed(s)
    <3>1. FrameSound(c) /\ FrameSound(d)
      BY <2>2, <2>3 DEF FrameSound
    <3>2. \A k \in DOMAIN calls : FrameSound(calls[k])
      BY DEF Sound, Typed
    <3>3. \A k \in DOMAIN two : FrameSound(two[k])
      BY <2>12, <3>1, <3>2
    <3>. QED
      BY <2>11, <3>3 DEF Typed, Sound
  <2>14. Accounted(s)
    <3>1. Due(two, r.state)
      BY <1>1, <1>3, <2>12 DEF Sound, Accounted, Due
    <3>2. Settling(two) <=> Settling(calls)
      BY <1>3, <2>2, <2>3, <2>12 DEF Settling
    <3>3. ~r.in_transaction
      BY <1>1, <1>3, FrontElements DEF Sound, Accounted, Closing
    <3>. QED
      BY <1>1, <2>11, <3>1, <3>2, <3>3 DEF Sound, Accounted
  <2>15. untold \ {x} \subseteq more
    <3>1. ASSUME NEW i \in DOMAIN r.changes, Open(calls, r.in_transaction, i), i # at
          PROVE  Open(two, r.in_transaction, i)
      <4>1. CASE r.in_transaction
        BY <4>1 DEF Open
      <4>2. CASE \E k \in DOMAIN calls : calls[k].op = "announce" /\ i >= calls[k].at
        <5>1. PICK k \in DOMAIN calls : calls[k].op = "announce" /\ i >= calls[k].at
          BY <4>2
        <5>2. CASE k = l
          <6>1. i >= at + 1
            BY <1>3, <1>4, <3>1, <5>1, <5>2
          <6>. QED
            BY <2>2, <2>12, <6>1 DEF Open
        <5>3. CASE k # l
          BY <2>12, <5>1, <5>3 DEF Open
        <5>. QED
          BY <5>2, <5>3
      <4>. QED
        BY <3>1, <4>1, <4>2 DEF Open
    <3>2. ASSUME NEW y \in untold, y # x PROVE y \in more
      <4>1. CASE y \in secret
        BY <4>1 DEF Untold
      <4>2. CASE y \notin secret
        <5>1. PICK i \in DOMAIN r.changes : Open(calls, r.in_transaction, i) /\ y = r.changes[i]
          BY <4>2 DEF Untold
        <5>2. i # at
          BY <3>2, <5>1 DEF x
        <5>. QED
          BY <3>1, <5>1, <5>2 DEF Untold
      <4>. QED
        BY <4>1, <4>2
    <3>. QED
      BY <3>2
  <2>16. Pending(two) = ToSet(d.todo) /\ Pending(calls) = {}
    BY <1>3, <2>3, <2>9 DEF Pending
  <2>17. \A k \in DOMAIN two : ~Deriving(two[k])
    <3>1. \A k \in DOMAIN calls : ~Deriving(calls[k])
      BY <1>1, <1>3, <2>6, NoneDeriving DEF Deriving
    <3>. QED
      BY <2>2, <2>3, <2>12, <3>1 DEF Deriving
  <2>18. Derivation(calls, r.deps, r.state, r.value, untold)
    BY DEF Sound
  <2> HIDE DEF untold, more
  <2>19. Tells(x, calls, r.deps, r.state, r.value, untold, two, r.value, more)
    BY <2>1, <2>3, <2>15, <2>16, <2>17, <2>18 DEF Tells
  <2>20. Derivation(two, r.deps, r.state, r.value, more)
    BY <2>19, DerivationTold
  <2>. QED
    BY <2>10, <2>11, <2>13, <2>14, <2>20 DEF Sound, s, more
<1>. QED
  BY <1>5, <1>6

(* A propagation begins or ends.                                           *)
LEMMA SettleMove ==
  ASSUME NEW r, NEW secret, Sound(r, secret), ~r.crashed,
         NEW new \in Seq(Frame), \A k \in DOMAIN new : FrameSound(new[k]),
         Stacked(new, r.computing), Due(new, r.state),
         NEW flag \in BOOLEAN, flag <=> Settling(new), Closing(new) => ~r.in_transaction,
         Pending(r.calls) = {},
         \A i \in DOMAIN r.changes :
           Open(r.calls, r.in_transaction, i) => Open(new, r.in_transaction, i),
         \A k \in DOMAIN new : Deriving(new[k]) => Progress(new[k], r.deps, r.state, r.value)
  PROVE  Sound([r EXCEPT !.calls = new, !.is_propagating = flag], secret)
<1> DEFINE s == [r EXCEPT !.calls = new, !.is_propagating = flag]
<1>1. r \in ReactiveRuntime
  BY DEF Sound, Typed
<1>2. /\ s \in ReactiveRuntime /\ s.calls = new
      /\ s.queue = r.queue /\ s.deps = r.deps /\ s.dependents = r.dependents
      /\ s.computing = r.computing /\ s.crashed = r.crashed /\ s.state = r.state
      /\ s.is_propagating = flag /\ s.in_transaction = r.in_transaction
      /\ s.value = r.value /\ s.changes = r.changes
  BY <1>1 DEF ReactiveRuntime
<1> HIDE DEF s
<1>3. Typed(s)
  BY <1>2 DEF Typed, Sound
<1>4. Accounted(s)
  BY <1>2 DEF Accounted, Sound
<1>5. Untold(r.calls, r.in_transaction, r.changes, secret)
        \subseteq Untold(new, r.in_transaction, r.changes, secret)
  BY UntoldGrows
<1>6. Derivation(new, r.deps, r.state, r.value, Untold(new, r.in_transaction, r.changes, secret))
  BY <1>5, DerivationGrows DEF Sound
<1>7. Sound(s, secret)
  BY <1>2, <1>3, <1>4, <1>6 DEF Sound
<1>. QED
  BY <1>7 DEF s

LEMMA SettleSound ==
  ASSUME NEW r, NEW secret, Sound(r, secret), Free(r), ~r.is_propagating
  PROVE  LET c == NewCall(r, "settle", Nowhere, <<>>)
             s == Push([r EXCEPT !.is_propagating = TRUE], c)
         IN /\ Sound(s, secret) /\ s.computing = r.computing /\ ~s.crashed
            /\ s.calls = Append(r.calls, c) /\ s.in_transaction = r.in_transaction
            /\ Last(s.calls) = c /\ c.op = "settle" /\ s.calls # <<>>
            /\ s = [r EXCEPT !.calls = Append(r.calls, c), !.is_propagating = TRUE]
<1> DEFINE calls == r.calls
           l == Len(calls)
           c == NewCall(r, "settle", Nowhere, <<>>)
           new == Append(calls, c)
           s == Push([r EXCEPT !.is_propagating = TRUE], c)
<1>1. r \in ReactiveRuntime /\ calls \in Seq(Frame) /\ r.computing \in Computed \cup {Nowhere}
  BY FieldTypes DEF Sound, Typed
<1>2. c \in Frame /\ c.op = "settle" /\ c.prev = r.computing
  <2>1. <<>> \in Seq(Computed)
    BY EmptySeq
  <2>. QED
    BY <1>1, <2>1 DEF NewCall, Frame
<1>3. s = [r EXCEPT !.calls = new, !.is_propagating = TRUE]
  BY <1>1 DEF Push, ReactiveRuntime
<1> HIDE DEF c, s
<1>4. /\ new \in Seq(Frame) /\ DOMAIN new = 1 .. l + 1
      /\ \A k \in 1 .. l : new[k] = calls[k]
      /\ new[l + 1] = c /\ Last(new) = c /\ new # <<>>
      /\ DOMAIN calls = 1 .. l /\ l \in Nat
  BY <1>1, <1>2, PushElements
<1>5. Fits(c, calls)
  <2>1. ~Settling(calls)
    BY DEF Sound, Accounted, Free
  <2>. QED
    BY <1>2, <2>1 DEF Free, Fits, Reading
<1>6. Stacked(new, r.computing)
  BY <1>1, <1>2, <1>5, StackPush DEF Sound, After
<1> HIDE DEF new, l
<1>7. /\ \A k \in DOMAIN new : k = l + 1 \/ (k \in DOMAIN calls /\ new[k] = calls[k])
      /\ \A k \in DOMAIN calls : k \in DOMAIN new /\ new[k] = calls[k]
      /\ l + 1 \in DOMAIN new
  BY <1>4
<1>8. Pending(calls) = {}
  BY DEF Pending, Free
<1>9. \A i : Open(calls, r.in_transaction, i) => Open(new, r.in_transaction, i)
  BY <1>7 DEF Open
<1>10. Due(new, r.state)
  BY <1>7 DEF Due, Sound, Accounted, Free
<1>11. Settling(new)
  BY <1>2, <1>4, <1>7 DEF Settling
<1>12. Closing(new) => ~r.in_transaction
  BY <1>2, <1>4, <1>7 DEF Closing, Sound, Accounted
<1>13. \A k \in DOMAIN new : FrameSound(new[k])
  <2>1. FrameSound(c)
    BY <1>2 DEF FrameSound
  <2>. QED
    BY <1>4, <1>7, <2>1 DEF Sound, Typed
<1>14. \A k \in DOMAIN new : Deriving(new[k]) => Progress(new[k], r.deps, r.state, r.value)
  <2>1. ~Deriving(c)
    BY <1>2 DEF Deriving
  <2>. QED
    BY <1>4, <1>7, <2>1 DEF Sound, Derivation
<1> HIDE DEF calls
<1>15. Sound([r EXCEPT !.calls = new, !.is_propagating = TRUE], secret)
  BY <1>4, <1>6, <1>8, <1>9, <1>10, <1>11, <1>12, <1>13, <1>14, SettleMove DEF calls, Free
<1>16. /\ s.calls = new /\ s.computing = r.computing /\ s.crashed = r.crashed
       /\ s.in_transaction = r.in_transaction
  BY <1>1, <1>3 DEF ReactiveRuntime
<1>. QED
  BY <1>2, <1>3, <1>4, <1>15, <1>16 DEF s, c, new, calls, Free

(* A frame without a node.                                                 *)
LEMMA PlainFrame ==
  ASSUME NEW r \in ReactiveRuntime,
         NEW op \in {"propagate", "drain", "triggers", "settle", "announce", "commit"},
         NEW n \in Node \cup {Nowhere}
  PROVE  /\ NewCall(r, op, n, <<>>) \in Frame /\ FrameSound(NewCall(r, op, n, <<>>))
         /\ NewCall(r, op, n, <<>>).op = op /\ NewCall(r, op, n, <<>>).prev = r.computing
         /\ NewCall(r, op, n, <<>>).at = 1
<1> DEFINE c == NewCall(r, op, n, <<>>)
<1>1. <<>> \in Seq(Computed) /\ r.computing \in Computed \cup {Nowhere}
  BY FieldTypes, EmptySeq
<1>2. c \in Frame /\ c.op = op /\ c.prev = r.computing /\ c.at = 1
  BY <1>1 DEF NewCall, Frame
<1>3. FrameSound(c)
  BY <1>2 DEF FrameSound
<1>. QED
  BY <1>2, <1>3

(* Another frame on one that only waits for it.                            *)
LEMMA PlainSound ==
  ASSUME NEW r, NEW secret, Sound(r, secret), Free(r),
         NEW op \in {"propagate", "drain", "triggers", "announce", "commit"},
         op \in {"announce", "commit"} => ~r.in_transaction,
         NEW n \in Node \cup {Nowhere}
  PROVE  Sound(Push(r, NewCall(r, op, n, <<>>)), secret)
<1> DEFINE c == NewCall(r, op, n, <<>>)
<1>1. c \in Frame /\ FrameSound(c) /\ c.op = op /\ c.prev = r.computing
  BY PlainFrame DEF Sound, Typed
<1> HIDE DEF c
<1>2. Fits(c, r.calls)
  BY <1>1 DEF Free, Fits, Reading
<1>3. Sound(Push(r, c), secret)
  BY <1>1, <1>2, PushSound DEF Free
<1>. QED
  BY <1>3 DEF c

(* What a push leaves alone.                                               *)
LEMMA Pushed ==
  ASSUME NEW r \in ReactiveRuntime, NEW c \in Frame, c.op \notin {"invalidate", "announce"},
         ~Reading(c), ~r.crashed
  PROVE  /\ Free(Push(r, c)) /\ Push(r, c).calls = Append(r.calls, c)
         /\ Last(Push(r, c).calls) = c /\ Push(r, c).computing = r.computing
         /\ Push(r, c).in_transaction = r.in_transaction
         /\ Push(r, c) = [r EXCEPT !.calls = Append(r.calls, c)]
<1>1. /\ Push(r, c).calls = Append(r.calls, c) /\ Push(r, c).computing = r.computing
      /\ Push(r, c).in_transaction = r.in_transaction /\ Push(r, c).crashed = r.crashed
      /\ Push(r, c) = [r EXCEPT !.calls = Append(r.calls, c)]
  BY DEF Push, ReactiveRuntime
<1>2. r.calls \in Seq(Frame)
  BY FieldTypes
<1>3. Last(Append(r.calls, c)) = c
  BY <1>2, PushElements
<1>. QED
  BY <1>1, <1>3 DEF Free

(* reactive_propagate                                                      *)
LEMMA PropagateSound ==
  ASSUME NEW r, NEW secret, Sound(r, secret), Free(r)
  PROVE  Sound(Propagate(r), secret)
<1>1. CASE r.is_propagating
  BY <1>1 DEF Propagate
<1>2. CASE ~r.is_propagating
  <2> DEFINE c == NewCall(r, "settle", Nowhere, <<>>)
             one == Push([r EXCEPT !.is_propagating = TRUE], c)
             two == CheckTriggers(one)
             d == NewCall(r, "drain", Nowhere, <<>>)
  <2>1. /\ Sound(one, secret) /\ one.computing = r.computing /\ ~one.crashed
        /\ Last(one.calls) = c /\ c.op = "settle"
    BY <1>2, SettleSound
  <2>2. Propagate(r) = Push(two, d)
    BY <1>2 DEF Propagate
  <2> HIDE DEF one, c
  <2>3. Free(one)
    BY <2>1 DEF Free, Reading, Deriving
  <2>4. Sound(two, secret)
    BY <2>1, <2>3, PlainSound DEF CheckTriggers
  <2>5. Free(two) /\ two.computing = one.computing
    <3>1. one \in ReactiveRuntime
      BY <2>1 DEF Sound, Typed
    <3> DEFINE e == NewCall(one, "triggers", Nowhere, <<>>)
    <3>2. e \in Frame /\ e.op = "triggers"
      BY <3>1, PlainFrame
    <3> HIDE DEF e
    <3>3. ~Reading(e)
      BY <3>2 DEF Reading, Deriving
    <3>4. Free(Push(one, e)) /\ Push(one, e).computing = one.computing
      BY <2>1, <3>1, <3>2, <3>3, Pushed
    <3>. QED
      BY <3>4 DEF CheckTriggers, e
  <2>6. d = NewCall(two, "drain", Nowhere, <<>>)
    BY <2>1, <2>5 DEF NewCall
  <2> HIDE DEF two, d
  <2>7. Sound(Push(two, d), secret)
    BY <2>4, <2>5, <2>6, PlainSound
  <2>. QED
    BY <2>2, <2>7
<1>. QED
  BY <1>1, <1>2

LEMMA SettledSound ==
  ASSUME NEW r, NEW secret, Sound(r, secret), r.calls # <<>>, Top(r).op = "settle"
  PROVE  Sound([Pop(r) EXCEPT !.is_propagating = FALSE], secret)
<1> DEFINE calls == r.calls
           l == Len(calls)
           new == Front(calls)
<1>1. r \in ReactiveRuntime /\ ~r.crashed /\ calls \in Seq(Frame) /\ calls # <<>>
  BY FieldTypes DEF Sound, Typed, Accounted
<1>2. /\ new \in Seq(Frame) /\ DOMAIN new = 1 .. l - 1
      /\ \A k \in 1 .. l - 1 : new[k] = calls[k]
      /\ Last(calls) = calls[l] /\ l \in Nat \ {0} /\ DOMAIN calls = 1 .. l
      /\ Last(calls) \in Frame
  BY <1>1, FrontElements
<1>3. Top(r) = calls[l]
  BY <1>2 DEF Top
<1>4. Stacked(calls, r.computing) /\ Stacked(new, Last(calls).prev)
  BY <1>1, StackPop DEF Sound
<1>5. [Pop(r) EXCEPT !.is_propagating = FALSE] = [r EXCEPT !.calls = new, !.is_propagating = FALSE]
  BY <1>1 DEF Pop, ReactiveRuntime
<1> HIDE DEF new, l
<1>6. /\ \A k \in DOMAIN new : k \in DOMAIN calls /\ new[k] = calls[k]
      /\ \A k \in DOMAIN calls : k = l \/ (k \in DOMAIN new /\ new[k] = calls[k])
  BY <1>2
<1>7. r.computing = Last(calls).prev
  BY <1>1, <1>4 DEF Stacked, After, Top
<1>8. Pending(calls) = {}
  BY DEF Pending, Top
<1>9. \A i : Open(calls, r.in_transaction, i) => Open(new, r.in_transaction, i)
  BY <1>3, <1>6 DEF Open
<1>10. Due(new, r.state)
  BY <1>1, <1>3, <1>6 DEF Due, Sound, Accounted
<1>11. ~Settling(new)
  <2>1. ASSUME NEW k \in DOMAIN new PROVE new[k].op # "settle"
    <3>1. k \in 1 .. l - 1 /\ l \in DOMAIN calls /\ new[k] = calls[k]
      BY <1>2, <2>1
    <3>2. StandsOver(calls[l], calls[k])
      BY <1>4, <3>1 DEF Stacked
    <3>. QED
      BY <1>3, <3>1, <3>2 DEF StandsOver
  <2>. QED
    BY <2>1 DEF Settling
<1>12. Closing(new) => ~r.in_transaction
  BY <1>6 DEF Closing, Sound, Accounted
<1>13. /\ \A k \in DOMAIN new : FrameSound(new[k])
       /\ \A k \in DOMAIN new : Deriving(new[k]) => Progress(new[k], r.deps, r.state, r.value)
  BY <1>6 DEF Sound, Typed, Derivation
<1> HIDE DEF calls
<1>14. Sound([r EXCEPT !.calls = new, !.is_propagating = FALSE], secret)
  BY <1>1, <1>2, <1>4, <1>7, <1>8, <1>9, <1>10, <1>11, <1>12, <1>13, SettleMove DEF calls
<1>. QED
  BY <1>5, <1>14

(* Below a commit nothing is announced.                                    *)
LEMMA NotAnnouncing ==
  ASSUME NEW calls \in Seq(Frame), NEW computing, Stacked(calls, computing), calls # <<>>,
         Last(calls).op \notin {"announce", "invalidate"}
  PROVE  \A k \in DOMAIN calls : calls[k].op # "announce"
<1> SUFFICES ASSUME NEW k \in DOMAIN calls, calls[k].op = "announce" PROVE FALSE
  OBVIOUS
<1> DEFINE l == Len(calls)
<1>1. DOMAIN calls = 1 .. l /\ l \in Nat \ {0} /\ Last(calls) = calls[l]
  BY FrontElements
<1>2. k # l
  BY <1>1
<1>3. k \in 1 .. l - 1 /\ k + 1 \in 1 .. l
  BY <1>1, <1>2
<1>4. StandsOn(calls[k + 1], calls[k])
  BY <1>3 DEF Stacked
<1>5. calls[k + 1].op = "invalidate"
  BY <1>4 DEF StandsOn
<1>6. k + 1 # l
  BY <1>1, <1>5
<1>7. k + 1 \in 1 .. l - 1 /\ k + 1 + 1 = k + 2
  BY <1>1, <1>3, <1>6
<1>8. StandsOn(calls[k + 1 + 1], calls[k + 1])
  BY <1>7 DEF Stacked
<1>. QED
  BY <1>5, <1>8 DEF StandsOn

(* The writes of a transaction that have all been announced are forgotten. *)
LEMMA ForgetSound ==
  ASSUME NEW r, NEW secret, Sound(r, secret), NEW empty, empty = <<>>,
         \A i \in DOMAIN r.changes : ~Open(r.calls, r.in_transaction, i)
  PROVE  Sound([r EXCEPT !.changes = empty], secret)
<1> DEFINE s == [r EXCEPT !.changes = empty]
<1>1. r \in ReactiveRuntime /\ empty \in Seq(State)
  BY EmptySeq DEF Sound, Typed
<1>2. /\ s \in ReactiveRuntime /\ s.calls = r.calls /\ s.changes = empty
      /\ s.queue = r.queue /\ s.deps = r.deps /\ s.dependents = r.dependents
      /\ s.computing = r.computing /\ s.crashed = r.crashed /\ s.state = r.state
      /\ s.is_propagating = r.is_propagating /\ s.in_transaction = r.in_transaction
      /\ s.value = r.value
  BY <1>1 DEF ReactiveRuntime
<1> HIDE DEF s
<1>3. Typed(s) /\ Accounted(s)
  BY <1>2 DEF Sound, Typed, Accounted
<1>4. DOMAIN empty = {}
  BY EmptySeq
<1>5. Untold(r.calls, r.in_transaction, r.changes, secret) = secret
  BY DEF Untold
<1>6. Untold(r.calls, r.in_transaction, empty, secret) = secret
  BY <1>4 DEF Untold
<1>7. Sound(s, secret)
  BY <1>2, <1>3, <1>5, <1>6 DEF Sound
<1>. QED
  BY <1>7 DEF s

LEMMA ClosingSound ==
  ASSUME NEW r, NEW secret, Sound(r, secret), r.calls # <<>>, Top(r).op = "commit"
  PROVE  Sound([Pop(r) EXCEPT !.changes = <<>>], secret)
<1> DEFINE s == Pop(r)
<1>1. r \in ReactiveRuntime /\ r.calls \in Seq(Frame) /\ ~r.crashed
  BY FieldTypes DEF Sound, Typed, Accounted
<1>2. Sound(s, secret)
  BY PopSound
<1>3. /\ Front(r.calls) \in Seq(Frame) /\ DOMAIN Front(r.calls) = 1 .. Len(r.calls) - 1
      /\ \A k \in 1 .. Len(r.calls) - 1 : Front(r.calls)[k] = r.calls[k]
      /\ Len(r.calls) \in DOMAIN r.calls /\ Last(r.calls) = r.calls[Len(r.calls)]
      /\ DOMAIN r.calls = 1 .. Len(r.calls) /\ Len(r.calls) \in Nat \ {0}
  BY <1>1, FrontElements
<1>4. \A k \in DOMAIN r.calls : r.calls[k].op # "announce"
  BY <1>1, NotAnnouncing DEF Sound, Top
<1>5. ~r.in_transaction
  BY <1>3 DEF Sound, Accounted, Closing, Top
<1>6. s.calls = Front(r.calls) /\ s.in_transaction = r.in_transaction
  BY <1>1 DEF Pop, ReactiveRuntime
<1>7. \A k \in DOMAIN s.calls : s.calls[k].op # "announce"
  BY <1>3, <1>4, <1>6
<1> HIDE DEF s
<1>8. \A i \in DOMAIN s.changes : ~Open(s.calls, s.in_transaction, i)
  BY <1>5, <1>6, <1>7 DEF Open
<1>9. Sound([s EXCEPT !.changes = <<>>], secret)
  BY <1>2, <1>8, ForgetSound
<1>. QED
  BY <1>9 DEF s

(* A condition that is NULL is called.                                     *)
LEMMA CrashSound ==
  ASSUME NEW r, NEW secret, Sound(r, secret), r.calls # <<>>, Top(r).op = "triggers"
  PROVE  Sound(Crashed(r), secret)
<1> DEFINE s == Crashed(r)
<1>1. r \in ReactiveRuntime /\ r.calls \in Seq(Frame) /\ <<>> \in Seq(Frame) /\ DOMAIN <<>> = {}
  BY FieldTypes, EmptySeq DEF Sound, Typed
<1>2. /\ s \in ReactiveRuntime /\ s.calls = <<>> /\ s.changes = r.changes
      /\ s.queue = r.queue /\ s.deps = r.deps /\ s.dependents = r.dependents
      /\ s.computing = Nowhere /\ s.crashed = TRUE /\ s.state = r.state
      /\ s.is_propagating = r.is_propagating /\ s.in_transaction = r.in_transaction
      /\ s.value = r.value
  BY <1>1 DEF Crashed, ReactiveRuntime
<1> HIDE DEF s
<1>3. Typed(s)
  BY <1>1, <1>2 DEF Sound, Typed
<1>4. Accounted(s)
  BY <1>1, <1>2 DEF Accounted, Closing
<1>5. Stacked(<<>>, Nowhere)
  <2>1. Len(<<>>) = 0
    BY EmptySeq
  <2>2. 1 .. Len(<<>>) - 1 = {}
    BY <2>1
  <2>. QED
    BY <1>1, <2>2 DEF Stacked
<1>6. \A k \in DOMAIN r.calls : r.calls[k].op # "announce"
  BY <1>1, NotAnnouncing DEF Sound, Top
<1>7. Untold(r.calls, r.in_transaction, r.changes, secret)
        \subseteq Untold(<<>>, r.in_transaction, r.changes, secret)
  <2>1. \A i : Open(r.calls, r.in_transaction, i) => Open(<<>>, r.in_transaction, i)
    BY <1>6 DEF Open
  <2>. QED
    BY <2>1 DEF Untold
<1>8. Pending(r.calls) = {}
  BY DEF Pending, Top
<1>9. Derivation(<<>>, r.deps, r.state, r.value,
                 Untold(<<>>, r.in_transaction, r.changes, secret))
  BY <1>1, <1>7, <1>8, DerivationGrows DEF Sound
<1>. QED
  BY <1>2, <1>3, <1>4, <1>5, <1>9 DEF Sound, s

(* The mark of a when block.                                               *)
LEMMA MarkSound ==
  ASSUME NEW r, NEW secret, Sound(r, secret), r.calls # <<>>, Top(r).op = "mark"
  PROVE  Sound(Mark(r), secret)
<1> DEFINE w == Top(r).node
           q == Pop(r)
           marks == [q.triggered EXCEPT ![w] = TRUE]
           s == [q EXCEPT !.triggered = marks]
<1>1. Sound(q, secret)
  BY PopSound
<1>2. r \in ReactiveRuntime /\ q \in ReactiveRuntime /\ Len(q.queue) <= BatchSize
  BY <1>1 DEF Sound, Typed
<1>3. w \in When
  BY <1>2, TopFrame DEF Sound, Typed, FrameSound
<1>4. Mark(r) = s
  BY <1>2 DEF Mark, ReactiveRuntime
<1> HIDE DEF q
<1>5. marks \in [When -> BOOLEAN]
  BY <1>2, <1>3, FieldTypes
<1> HIDE DEF marks, w
<1>6. s \in ReactiveRuntime /\ SameCore(q, s) /\ s.queue = q.queue
  BY <1>2, <1>5 DEF SameCore, ReactiveRuntime
<1> HIDE DEF s
<1>7. Sound(s, secret)
  BY <1>1, <1>2, <1>6, SameSound
<1>. QED
  BY <1>4, <1>7

(* The loop of reactive_propagate.                                         *)
LEMMA DrainSound ==
  ASSUME NEW r, NEW secret, Sound(r, secret), r.calls # <<>>, Top(r).op = "drain"
  PROVE  Sound(DrainNext(r), secret)
<1>1. r \in ReactiveRuntime /\ ~r.crashed /\ r.queue \in Seq(Computed)
      /\ r.calls \in Seq(Frame) /\ Len(r.queue) <= BatchSize
  BY FieldTypes DEF Sound, Typed, Accounted
<1>2. CASE r.queue = <<>>
  <2>1. DrainNext(r) = Pop(r)
    BY <1>2 DEF DrainNext
  <2>. QED
    BY <2>1, PopSound
<1>3. CASE r.queue # <<>>
  <2> DEFINE n == Last(r.queue)
             left == Front(r.queue)
             taken == [r EXCEPT !.queue = left]
  <2>1. left \in Seq(Computed) /\ Len(left) = Len(r.queue) - 1 /\ n \in Computed
        /\ Len(r.queue) \in Nat \ {0}
    BY <1>1, <1>3, FrontElements
  <2>2. DrainNext(r) = IF r.state[n] # "dirty" \/ n \in r.disposed THEN taken
                       ELSE Recompute(taken, n)
    BY <1>3 DEF DrainNext
  <2>3. Len(left) <= BatchSize
    BY <1>1, <2>1, BoundAssumption
  <2> HIDE DEF n, left
  <2>4. taken \in ReactiveRuntime /\ SameCore(r, taken) /\ taken.queue = left
    BY <1>1, <2>1 DEF SameCore, ReactiveRuntime
  <2> HIDE DEF taken
  <2>5. Sound(taken, secret)
    BY <2>3, <2>4, SameSound
  <2>6. ASSUME r.state[n] = "dirty" PROVE Sound(Recompute(taken, n), secret)
    <3> DEFINE c == NewCall(taken, "compute", n, <<>>)
    <3>1. c.op = "compute"
      BY DEF NewCall
    <3> HIDE DEF c
    <3>2. ~taken.crashed /\ taken.state[n] = "dirty" /\ taken.calls = r.calls
      BY <1>1, <2>4, <2>6 DEF SameCore
    <3>3. Fits(c, taken.calls)
      BY <3>1, <3>2 DEF Fits, Top, Reading, Deriving
    <3>. QED
      BY <2>1, <2>5, <3>2, <3>3, RecomputeSound DEF c
  <2>. QED
    BY <2>2, <2>5, <2>6
<1>. QED
  BY <1>2, <1>3

(* A loop goes on.                                                         *)
LEMMA NextFrame ==
  ASSUME NEW r \in ReactiveRuntime, r.calls # <<>>
  PROVE  LET c == [Top(r) EXCEPT !.at = Top(r).at + 1]
         IN /\ c \in Frame /\ c.op = Top(r).op /\ c.node = Top(r).node
            /\ c.prev = Top(r).prev /\ c.todo = Top(r).todo /\ c.at = Top(r).at + 1
            /\ c.at - 1 = Top(r).at
<1> DEFINE t == Top(r)
           a == t.at + 1
           c == [t EXCEPT !.at = a]
<1>1. t \in Frame
  BY TopFrame
<1> HIDE DEF t
<1>2. t.at \in Nat \ {0}
  BY <1>1 DEF Frame
<1>3. a \in Nat \ {0} /\ a = t.at + 1 /\ a - 1 = t.at
  BY <1>2
<1> HIDE DEF a
<1>4. /\ c \in Frame /\ c.op = t.op /\ c.node = t.node /\ c.prev = t.prev
      /\ c.todo = t.todo /\ c.at = a
  BY <1>1, <1>3 DEF Frame
<1>5. c = [Top(r) EXCEPT !.at = Top(r).at + 1] /\ t = Top(r)
  BY DEF t, a
<1> HIDE DEF c
<1>6. c.at = t.at + 1 /\ c.at - 1 = t.at
  BY <1>3, <1>4
<1>. QED
  BY <1>4, <1>5, <1>6

LEMMA Resumed ==
  ASSUME NEW r \in ReactiveRuntime, r.calls # <<>>, NEW c \in Frame
  PROVE  /\ Resume(r, c) = [r EXCEPT !.calls = Append(Front(r.calls), c)]
         /\ Resume(r, c) \in ReactiveRuntime
         /\ Resume(r, c).calls = Append(Front(r.calls), c) /\ Last(Resume(r, c).calls) = c
         /\ Resume(r, c).calls # <<>>
         /\ Resume(r, c).computing = r.computing /\ Resume(r, c).crashed = r.crashed
         /\ Resume(r, c).in_transaction = r.in_transaction
         /\ Resume(r, c).value = r.value /\ Resume(r, c).changes = r.changes
         /\ Resume(r, c).prev_value = r.prev_value /\ Resume(r, c).fired = r.fired
         /\ Resume(r, c).triggered = r.triggered /\ Resume(r, c).queue = r.queue
         /\ Resume(r, c).seen = r.seen
<1> DEFINE new == Append(Front(r.calls), c)
<1>1. r.calls \in Seq(Frame)
  BY FieldTypes
<1>2. Front(r.calls) \in Seq(Frame)
  BY <1>1, FrontElements
<1>3. new \in Seq(Frame) /\ Last(new) = c /\ new # <<>>
  BY <1>2, PushElements
<1>4. Resume(r, c) = [r EXCEPT !.calls = new]
  BY DEF Resume, Push, Pop, ReactiveRuntime
<1> HIDE DEF new
<1>. QED
  BY <1>3, <1>4 DEF ReactiveRuntime, new

(* The loop of reactive_check_triggers.                                    *)
LEMMA TriggersSound ==
  ASSUME NEW r, NEW secret, Sound(r, secret), r.calls # <<>>, Top(r).op = "triggers"
  PROVE  Sound(TriggersNext(r), secret)
<1> DEFINE w == Created[Top(r).at]
           c == [Top(r) EXCEPT !.at = Top(r).at + 1]
           q == NextRound(r)
           d == NewCall(r, "condition", w, <<>>)
<1>1. r \in ReactiveRuntime /\ ~r.crashed /\ r.calls \in Seq(Frame)
  BY FieldTypes DEF Sound, Typed, Accounted
<1>2. c \in Frame /\ c.op = "triggers" /\ c.prev = Top(r).prev
  BY <1>1, NextFrame
<1>3. q = Resume(r, c)
  BY DEF NextRound
<1> HIDE DEF c
<1>4. Sound(q, secret)
  <2>1. FrameSound(c) /\ Replaces(c, Top(r)) /\ ~Deriving(c)
    BY <1>2 DEF FrameSound, Replaces, Deriving
  <2>. QED
    BY <1>2, <1>3, <2>1, ResumeSound
<1> HIDE DEF q
<1>5. q \in ReactiveRuntime /\ q.calls # <<>> /\ Last(q.calls) = c /\ q.computing = r.computing
      /\ ~q.crashed
  <2>1. /\ Resume(r, c) \in ReactiveRuntime /\ Resume(r, c).calls # <<>>
        /\ Last(Resume(r, c).calls) = c /\ Resume(r, c).computing = r.computing
        /\ Resume(r, c).crashed = r.crashed
    BY <1>1, <1>2, Resumed
  <2>. QED
    BY <1>1, <1>3, <2>1
<1>6. CASE Top(r).at > Len(Created)
  <2>1. TriggersNext(r) = Pop(r)
    BY <1>6 DEF TriggersNext
  <2>. QED
    BY <2>1, PopSound
<1>7. CASE TriggersNext(r) = q
  BY <1>4, <1>7
<1>8. CASE TriggersNext(r) = Crashed(r)
  BY <1>8, CrashSound
<1>9. CASE TriggersNext(r) = Push(q, d) /\ w \in When \cup UserData /\ Reads[w] # <<>>
  <2>1. w \in Sink /\ w \in Computed /\ w \in Node
    BY <1>9, Groups, ClientAssumption
  <2>2. d \in Frame /\ d.op = "condition" /\ d.node = w /\ d.at = 1 /\ d.prev = r.computing
    <3>1. <<>> \in Seq(Computed) /\ r.computing \in Computed \cup {Nowhere}
      BY <1>1, FieldTypes, EmptySeq
    <3>. QED
      BY <2>1, <3>1 DEF NewCall, Frame
  <2> HIDE DEF d
  <2>3. 1 \in 1 .. Len(Reads[w])
    <3>1. Reads[w] \in Seq(State \cup Derived) /\ Len(Reads[w]) \in Nat
      BY <2>1, SourceType
    <3>2. Len(Reads[w]) # 0
      BY <1>9, <3>1, EmptySeq
    <3>. QED
      BY <3>1, <3>2
  <2> HIDE DEF w
  <2>4. FrameSound(d)
    BY <1>9, <2>1, <2>2, <2>3 DEF FrameSound, ReadsOn
  <2>5. Fits(d, q.calls)
    BY <1>2, <1>5, <2>2 DEF Fits, Reading, Deriving
  <2>6. Sound(Push(q, d), secret)
    BY <1>4, <1>5, <2>2, <2>4, <2>5, PushSound
  <2>. QED
    BY <1>9, <2>6
<1>10. TriggersNext(r) = IF Top(r).at > Len(Created) THEN Pop(r)
         ELSE IF \/ w \notin When \cup UserData \/ w \in r.disposed
                 \/ (w \in Once /\ r.triggered[w])
           THEN q
         ELSE IF Reads[w] = <<>> THEN Crashed(r) ELSE Push(q, d)
  BY DEF TriggersNext, q
<1> HIDE DEF w, d
<1>. QED
  BY <1>6, <1>7, <1>8, <1>9, <1>10

(* An effect, or the body of a when block, may write.                      *)
LEMMA ActSound ==
  ASSUME NEW r, NEW secret, Sound(r, secret), Free(r), NEW n \in Sink, NEW val \in Value
  PROVE  Sound(Act(r, n, val), secret)
<1>1. Writes[n] \in State \cup {Nowhere}
  BY ClientAssumption
<1>2. CASE Writes[n] = Nowhere
  BY <1>2 DEF Act
<1>3. CASE Writes[n] # Nowhere
  <2> DEFINE put == IF n \in Resets THEN False ELSE val
  <2>1. Act(r, n, val) = SetValue(r, Writes[n], put) /\ Writes[n] \in State /\ put \in Value
    BY <1>1, <1>3 DEF Act, Value
  <2> HIDE DEF put
  <2>. QED
    BY <2>1, SetValueSound
<1>. QED
  BY <1>2, <1>3

(* What is below a condition.                                              *)
LEMMA ConditionPopped ==
  ASSUME NEW r, NEW secret, Sound(r, secret), r.calls # <<>>,
         Top(r).op \in {"condition", "mark"}
  PROVE  /\ Sound(Pop(r), secret) /\ Free(Pop(r)) /\ Pop(r) \in ReactiveRuntime
         /\ Pop(r) = [r EXCEPT !.calls = Front(r.calls)]
<1> DEFINE calls == r.calls
           l == Len(calls)
           f == Front(calls)
<1>1. r \in ReactiveRuntime /\ ~r.crashed /\ calls \in Seq(Frame)
  BY FieldTypes DEF Sound, Typed, Accounted
<1>2. Sound(Pop(r), secret)
  BY PopSound
<1>3. Pop(r) \in ReactiveRuntime
  BY <1>2 DEF Sound, Typed
<1>4. Pop(r) = [r EXCEPT !.calls = f] /\ Pop(r).calls = f /\ ~Pop(r).crashed
  BY <1>1 DEF Pop, ReactiveRuntime
<1>5. /\ f \in Seq(Frame) /\ Len(f) = l - 1 /\ DOMAIN f = 1 .. l - 1
      /\ \A k \in 1 .. l - 1 : f[k] = calls[k]
      /\ Last(calls) = calls[l] /\ l \in Nat \ {0} /\ DOMAIN calls = 1 .. l
  BY <1>1, FrontElements
<1> HIDE DEF f, l
<1>6. ASSUME f # <<>> PROVE Last(f).op = "triggers"
  <2>1. Last(f) = f[l - 1] /\ l - 1 \in 1 .. l - 1
    <3>1. Last(f) = f[Len(f)] /\ Len(f) \in Nat \ {0}
      BY <1>5, <1>6, FrontElements
    <3>. QED
      BY <1>5, <3>1
  <2>2. Last(f) = calls[l - 1] /\ l - 1 + 1 = l
    BY <1>5, <2>1
  <2>3. StandsOn(calls[l - 1 + 1], calls[l - 1])
    BY <2>1 DEF Sound, Stacked, l
  <2>. QED
    BY <1>5, <2>2, <2>3 DEF StandsOn, Top
<1>7. Free(Pop(r))
  BY <1>4, <1>6 DEF Free, Reading, Deriving
<1>. QED
  BY <1>2, <1>3, <1>4, <1>7 DEF f

(* The value that a node that has no type but Computed is given.           *)
LEMMA FlagSound ==
  ASSUME NEW r, NEW secret, Sound(r, secret), NEW w \in When, NEW flag \in BOOLEAN
  PROVE  Sound([r EXCEPT !.triggered = [r.triggered EXCEPT ![w] = flag]], secret)
<1> DEFINE marks == [r.triggered EXCEPT ![w] = flag]
           s == [r EXCEPT !.triggered = marks]
<1>1. r \in ReactiveRuntime /\ Len(r.queue) <= BatchSize
  BY DEF Sound, Typed
<1>2. marks \in [When -> BOOLEAN]
  BY <1>1, FieldTypes
<1> HIDE DEF marks
<1>3. s \in ReactiveRuntime /\ SameCore(r, s) /\ s.queue = r.queue
  BY <1>1, <1>2 DEF SameCore, ReactiveRuntime
<1> HIDE DEF s
<1>4. Sound(s, secret)
  BY <1>1, <1>3, SameSound
<1>. QED
  BY <1>4 DEF s, marks

LEMMA SeenSound ==
  ASSUME NEW r, NEW secret, Sound(r, secret), Free(r), NEW e \in Effect, NEW val \in Value
  PROVE  /\ Sound([r EXCEPT !.seen[e] = val], secret)
         /\ Free([r EXCEPT !.seen[e] = val])
<1> DEFINE sees == [r.seen EXCEPT ![e] = val]
           s == [r EXCEPT !.seen = sees]
<1>1. r \in ReactiveRuntime /\ Len(r.queue) <= BatchSize
  BY DEF Sound, Typed
<1>2. sees \in [Effect -> Value]
  BY <1>1, FieldTypes
<1>3. [r EXCEPT !.seen[e] = val] = s
  BY <1>1 DEF ReactiveRuntime
<1> HIDE DEF sees
<1>4. s \in ReactiveRuntime /\ SameCore(r, s) /\ s.queue = r.queue
  BY <1>1, <1>2 DEF SameCore, ReactiveRuntime
<1> HIDE DEF s
<1>5. Sound(s, secret)
  BY <1>1, <1>4, SameSound
<1>6. Free(s)
  BY <1>4 DEF SameCore, Free
<1>. QED
  BY <1>3, <1>5, <1>6

LEMMA FiredSound ==
  ASSUME NEW r, NEW secret, Sound(r, secret), Free(r), NEW w \in When, NEW count \in 0 .. 2
  PROVE  /\ Sound([r EXCEPT !.fired[w] = count], secret)
         /\ Free([r EXCEPT !.fired[w] = count])
<1> DEFINE counts == [r.fired EXCEPT ![w] = count]
           s == [r EXCEPT !.fired = counts]
<1>1. r \in ReactiveRuntime /\ Len(r.queue) <= BatchSize
  BY DEF Sound, Typed
<1>2. counts \in [When -> 0 .. 2]
  BY <1>1, FieldTypes
<1>3. [r EXCEPT !.fired[w] = count] = s
  BY <1>1 DEF ReactiveRuntime
<1> HIDE DEF counts
<1>4. s \in ReactiveRuntime /\ SameCore(r, s) /\ s.queue = r.queue
  BY <1>1, <1>2 DEF SameCore, ReactiveRuntime
<1> HIDE DEF s
<1>5. Sound(s, secret)
  BY <1>1, <1>4, SameSound
<1>6. Free(s)
  BY <1>4 DEF SameCore, Free
<1>. QED
  BY <1>3, <1>5, <1>6

(* The counter of a when block that fires.                                 *)
LEMMA MoreFired ==
  ASSUME NEW r \in ReactiveRuntime, NEW w \in When
  PROVE  (IF r.fired[w] < 2 THEN r.fired[w] + 1 ELSE 2) \in 0 .. 2
<1>1. r.fired[w] \in 0 .. 2
  BY FieldTypes
<1>. QED
  BY <1>1

(* A when block fires.                                                     *)
Firing(r, w) ==
  [Resume(r, NewCall(r, "mark", w, <<>>)) EXCEPT !.fired[w] =
     IF r.fired[w] < 2 THEN r.fired[w] + 1 ELSE 2]

LEMMA FiringSound ==
  ASSUME NEW r, NEW secret, Sound(r, secret), r.calls # <<>>, Top(r).op = "condition",
         NEW w \in When
  PROVE  Sound(Firing(r, w), secret) /\ Free(Firing(r, w))
<1> DEFINE c == NewCall(r, "mark", w, <<>>)
           q == Resume(r, c)
           count == IF r.fired[w] < 2 THEN r.fired[w] + 1 ELSE 2
           s == [q EXCEPT !.fired[w] = count]
<1>1. r \in ReactiveRuntime /\ ~r.crashed /\ r.calls \in Seq(Frame) /\ w \in Node /\ w \in Sink
  BY FieldTypes, Groups DEF Sound, Typed, Accounted
<1>2. c \in Frame /\ c.op = "mark" /\ c.node = w /\ c.prev = r.computing
  <2>1. <<>> \in Seq(Computed) /\ r.computing \in Computed \cup {Nowhere}
    BY <1>1, FieldTypes, EmptySeq
  <2>. QED
    BY <1>1, <2>1 DEF NewCall, Frame
<1>3. Firing(r, w) = s
  BY DEF Firing
<1> HIDE DEF c
<1>4. Top(r).prev = r.computing
  BY <1>1 DEF Sound, Stacked, After, Top
<1>5. Replaces(c, Top(r)) /\ FrameSound(c) /\ ~Deriving(c)
  BY <1>2, <1>4 DEF Replaces, FrameSound, Deriving
<1>6. Sound(q, secret)
  BY <1>2, <1>5, ResumeSound
<1>7. Last(q.calls) = c /\ ~q.crashed
  BY <1>1, <1>2, Resumed
<1> HIDE DEF q
<1>8. Free(q)
  BY <1>2, <1>7 DEF Free, Reading, Deriving
<1>9. count \in 0 .. 2
  BY <1>1, MoreFired
<1> HIDE DEF count
<1>10. Sound(s, secret) /\ Free(s)
  BY <1>6, <1>8, <1>9, FiredSound
<1>. QED
  BY <1>3, <1>10

LEMMA FireSound ==
  ASSUME NEW r, NEW secret, Sound(r, secret), r.calls # <<>>, Top(r).op = "condition",
         NEW w \in When
  PROVE  Sound(Fire(r, w), secret)
<1>1. Fire(r, w) = Act(Firing(r, w), w, True)
  BY DEF Fire, Firing
<1>2. w \in Sink /\ True \in Value
  BY Groups DEF Value
<1>. QED
  BY <1>1, <1>2, FiringSound, ActSound

(* An effect has read its sources, and goes on.                            *)
LEMMA EffectSound ==
  ASSUME NEW r, NEW secret, Sound(r, secret), r.calls # <<>>, Top(r).op = "compute",
         Top(r).node \in Effect, NEW val \in Value
  PROVE  LET n == Top(r).node
             q == Resume(r, [Top(r) EXCEPT !.op = "return"])
         IN Sound([q EXCEPT !.seen[n] = val], secret) /\ Free([q EXCEPT !.seen[n] = val])
<1> DEFINE n == Top(r).node
           c == [Top(r) EXCEPT !.op = "return"]
           q == Resume(r, c)
<1>1. r \in ReactiveRuntime /\ ~r.crashed /\ r.calls \in Seq(Frame)
  BY FieldTypes DEF Sound, Typed, Accounted
<1>2. Top(r) \in Frame
  BY <1>1, TopFrame
<1>3. c \in Frame /\ c.op = "return" /\ c.node = n /\ c.prev = Top(r).prev
  BY <1>2 DEF Frame
<1> HIDE DEF c
<1>4. FrameSound(c) /\ Replaces(c, Top(r)) /\ ~Deriving(c)
  BY <1>3, Groups DEF FrameSound, Replaces, Deriving
<1>5. Sound(q, secret)
  BY <1>3, <1>4, ResumeSound
<1>6. Last(q.calls) = c /\ ~q.crashed
  BY <1>1, <1>3, Resumed
<1> HIDE DEF q
<1>7. Free(q)
  BY <1>3, <1>6 DEF Free, Reading, Deriving
<1> HIDE DEF n
<1>8. n \in Effect
  BY DEF n
<1>9. Sound([q EXCEPT !.seen[n] = val], secret) /\ Free([q EXCEPT !.seen[n] = val])
  BY <1>5, <1>7, <1>8, SeenSound
<1>. QED
  BY <1>9 DEF q, c, n

(* A function has read its sources.                                        *)
LEMMA HasReadSound ==
  ASSUME NEW r, NEW secret, Sound(r, secret), r.calls # <<>>, NEW val \in Value,
         Top(r).op \in {"compute", "condition"},
         Deriving(Top(r)) =>
           /\ Relies(Top(r).node, Top(r).at, r.deps, r.state)
           /\ val = r.value[Reads[Top(r).node][Top(r).at]]
           /\ val = False \/ Top(r).at = Len(Reads[Top(r).node])
  PROVE  Sound(HasRead(r, val), secret)
<1> DEFINE n == Top(r).node
<1>1. r \in ReactiveRuntime /\ ~r.crashed /\ r.calls \in Seq(Frame)
  BY FieldTypes DEF Sound, Typed, Accounted
<1>2. Top(r) \in Frame /\ FrameSound(Top(r))
  BY <1>1, TopFrame DEF Sound, Typed
<1>3. n \in Computed /\ (Top(r).op = "condition" => n \in Sink)
  BY <1>2, Groups DEF FrameSound
<1>4. CASE n \in Effect /\ Top(r).op = "compute"
  <2> DEFINE q == Resume(r, [Top(r) EXCEPT !.op = "return"])
             s == [q EXCEPT !.seen[n] = val]
  <2>1. HasRead(r, val) = Act(s, n, val)
    BY <1>4 DEF HasRead
  <2>2. Sound(s, secret) /\ Free(s)
    BY <1>4, EffectSound
  <2> HIDE DEF s, n
  <2>3. n \in Sink
    BY <1>4, Groups
  <2>4. Sound(Act(s, n, val), secret)
    BY <2>2, <2>3, ActSound
  <2>. QED
    BY <2>1, <2>4
<1>5. CASE n \in Effect /\ Top(r).op = "condition"
  <2> DEFINE q == Pop(r)
  <2>1. HasRead(r, val) = Act([q EXCEPT !.seen[n] = val], n, val)
    BY <1>5 DEF HasRead
  <2>2. Sound(q, secret) /\ Free(q)
    BY <1>5, ConditionPopped
  <2> HIDE DEF q, n
  <2>3. Sound([q EXCEPT !.seen[n] = val], secret) /\ Free([q EXCEPT !.seen[n] = val])
    BY <1>5, <2>2, SeenSound
  <2>4. n \in Sink
    BY <1>5, Groups
  <2>5. Sound(Act([q EXCEPT !.seen[n] = val], n, val), secret)
    BY <2>3, <2>4, ActSound
  <2>. QED
    BY <2>1, <2>5
<1>6. CASE n \notin Effect /\ Top(r).op = "compute"
  <2>1. HasRead(r, val) = Return(r, val)
    BY <1>6 DEF HasRead
  <2>. QED
    BY <1>6, <2>1, ReturnSound
<1>7. CASE n \notin Effect /\ Top(r).op = "condition" /\ val = True
  <2>1. HasRead(r, val) = Fire(r, n) /\ n \in When
    BY <1>3, <1>7, Groups DEF HasRead
  <2>. QED
    BY <1>7, <2>1, FireSound
<1>8. CASE n \notin Effect /\ Top(r).op = "condition" /\ val # True
  <2> DEFINE q == Pop(r)
             flag == r.triggered[n] /\ n \in Once
  <2>1. HasRead(r, val) = [q EXCEPT !.triggered[n] = flag] /\ n \in When
    BY <1>3, <1>8, Groups DEF HasRead
  <2>2. Sound(q, secret) /\ q \in ReactiveRuntime
    BY <1>8, ConditionPopped
  <2> HIDE DEF q, n
  <2>3. flag \in BOOLEAN
    BY <1>1, <2>1, FieldTypes
  <2> HIDE DEF flag
  <2>4. [q EXCEPT !.triggered[n] = flag] = [q EXCEPT !.triggered = [q.triggered EXCEPT ![n] = flag]]
    BY <2>2 DEF ReactiveRuntime
  <2>5. Sound([q EXCEPT !.triggered = [q.triggered EXCEPT ![n] = flag]], secret)
    BY <2>1, <2>2, <2>3, FlagSound
  <2>. QED
    BY <2>1, <2>4, <2>5
<1>. QED
  BY <1>2, <1>4, <1>5, <1>6, <1>7, <1>8

(* A source that a function may read now: while one of derived values      *)
(* runs, its sources are not being computed.                               *)
LEMMA SourceRead ==
  ASSUME NEW r, NEW secret, Sound(r, secret), r.calls # <<>>,
         Top(r).op \in {"compute", "condition"}
  PROVE  LET n      == Top(r).node
             source == Reads[n][Top(r).at]
         IN /\ n \in Computed /\ source \in State \cup Derived
            /\ Top(r).at \in 1 .. Len(Reads[n]) /\ Len(Reads[n]) \in Nat
            /\ Deriving(Top(r)) => Rank[source] < Rank[n] /\ source # n
            /\ Deriving(Top(r)) /\ ~MustCompute(r, source) => r.state[source] = "clean"
<1> DEFINE c == Top(r)
           n == c.node
           source == Reads[n][c.at]
           l == Len(r.calls)
<1>1. r \in ReactiveRuntime /\ ~r.crashed /\ r.calls \in Seq(Frame)
  BY FieldTypes DEF Sound, Typed, Accounted
<1>2. c \in Frame /\ FrameSound(c) /\ c = r.calls[l] /\ l \in DOMAIN r.calls
      /\ DOMAIN r.calls = 1 .. l /\ l \in Nat
  BY <1>1, TopFrame, LenProperties DEF Sound, Typed
<1>3. n \in Computed /\ Reads[n] # <<>> /\ c.at \in 1 .. Len(Reads[n])
  BY <1>2, Groups DEF FrameSound, ReadsOn
<1>4. source \in State \cup Derived /\ Len(Reads[n]) \in Nat /\ DOMAIN Reads[n] = 1 .. Len(Reads[n])
  BY <1>3, SourceType
<1>5. source \in ToSet(Reads[n])
  BY <1>3, <1>4 DEF ToSet
<1> HIDE DEF c, n, source, l
<1>6. ASSUME Deriving(c) PROVE Rank[source] < Rank[n] /\ source # n
  <2>1. n \in Derived
    BY <1>6 DEF Deriving, n
  <2>2. Rank[source] < Rank[n] /\ Rank[n] \in Nat
    BY <1>5, <2>1, RankIsRank DEF Ranks
  <2>. QED
    BY <2>2
<1>7. ASSUME Deriving(c), ~MustCompute(r, source) PROVE r.state[source] = "clean"
  <2>1. CASE source \in State
    BY <2>1 DEF Sound, Derivation
  <2>2. CASE source \in Derived
    <3>1. r.state[source] # "dirty"
      BY <1>7, <2>2, ClientAssumption DEF MustCompute
    <3>2. ASSUME r.state[source] = "computing" PROVE FALSE
      <4>1. source \in Node
        BY <2>2, Groups
      <4>2. PICK k \in DOMAIN r.calls : r.calls[k].op \in {"compute", "return"} /\ r.calls[k].node = source
        BY <1>1, <3>2, <4>1 DEF Sound, Accounted, Due
      <4>3. r.calls[k].op # "return"
        BY <2>2, <4>2, Groups DEF Sound, Typed, FrameSound
      <4>4. Deriving(r.calls[k])
        BY <2>2, <4>2, <4>3 DEF Deriving
      <4>5. k # l
        BY <1>2, <1>6, <1>7, <4>2 DEF n
      <4>6. k \in 1 .. l - 1
        BY <1>2, <4>5
      <4>7. StandsOver(r.calls[l], r.calls[k])
        BY <1>2, <4>6 DEF Sound, Stacked
      <4>8. Rank[n] < Rank[source]
        BY <1>2, <4>2, <4>4, <4>7 DEF StandsOver, n
      <4>9. n \in Derived
        BY <1>7 DEF Deriving, n
      <4>10. Rank[n] \in Nat /\ Rank[source] \in Nat
        BY <2>2, <4>9, RankIsRank DEF Ranks
      <4>11. Rank[source] < Rank[n]
        BY <1>6, <1>7
      <4>. QED
        BY <4>8, <4>10, <4>11
    <3>3. r.state[source] \in {"clean", "dirty", "computing"}
      BY <1>1, <2>2, FieldTypes, Groups
    <3>. QED
      BY <3>1, <3>2, <3>3
  <2>. QED
    BY <1>4, <2>1, <2>2
<1>. QED
  BY <1>3, <1>4, <1>6, <1>7 DEF c, n, source

(* A function reads its next source.                                       *)
LEMMA ReadSound ==
  ASSUME NEW r, NEW secret, Sound(r, secret), r.calls # <<>>,
         Top(r).op \in {"compute", "condition"}
  PROVE  Sound(ReadNext(r), secret)
<1> DEFINE n == Top(r).node
           at == Top(r).at
           source == Reads[n][at]
           read == Track(r, source)
           val == r.value[source]
<1>1. r \in ReactiveRuntime /\ ~r.crashed /\ r.calls \in Seq(Frame)
  BY FieldTypes DEF Sound, Typed, Accounted
<1>2. /\ n \in Computed /\ source \in State \cup Derived
      /\ at \in 1 .. Len(Reads[n]) /\ Len(Reads[n]) \in Nat
      /\ Deriving(Top(r)) => Rank[source] < Rank[n] /\ source # n
      /\ Deriving(Top(r)) /\ ~MustCompute(r, source) => r.state[source] = "clean"
  BY SourceRead
<1>3. ReadNext(r) = IF MustCompute(r, source) THEN Get(r, source)
                    ELSE IF val = False \/ at = Len(Reads[n]) THEN HasRead(read, val)
                    ELSE NextRound(read)
  BY DEF ReadNext
<1>4. Get(r, source) = IF MustCompute(read, source) THEN Recompute(read, source) ELSE read
  BY DEF Get
<1>5. Top(r) \in Frame /\ FrameSound(Top(r)) /\ Top(r) = Last(r.calls)
  BY <1>1, TopFrame DEF Sound, Typed
<1> HIDE DEF source
<1>6. /\ Sound(read, secret) /\ SameButLinks(r, read)
      /\ r.computing \notin {Nowhere, source} => source \in ToSet(read.deps[r.computing])
      /\ \A m \in Node : ToSet(r.deps[m]) \subseteq ToSet(read.deps[m])
  BY <1>2, TrackSound
<1> HIDE DEF read
<1>7. /\ read.calls = r.calls /\ read.crashed = r.crashed /\ read.state = r.state
      /\ read.value = r.value /\ Top(read) = Top(r) /\ read \in ReactiveRuntime
  BY <1>6 DEF SameButLinks, Top, Sound, Typed
<1>8. val \in Value
  BY <1>1, <1>2, FieldTypes, Groups
<1>9. CASE MustCompute(r, source)
  <2> DEFINE c == NewCall(read, "compute", source, <<>>)
  <2>1. source \in Derived /\ r.state[source] = "dirty"
    BY <1>9 DEF MustCompute
  <2>2. MustCompute(read, source)
    BY <1>7, <1>9 DEF MustCompute
  <2>3. c.op = "compute" /\ c.node = source
    BY DEF NewCall
  <2> HIDE DEF c
  <2>4. Fits(c, read.calls)
    BY <1>2, <1>5, <1>7, <2>1, <2>3 DEF Fits, Deriving, Reading
  <2>5. Sound(Recompute(read, source), secret)
    BY <1>1, <1>6, <1>7, <2>1, <2>4, RecomputeSound, Groups DEF c
  <2>. QED
    BY <1>3, <1>4, <1>9, <2>2, <2>5
<1>10. CASE ~MustCompute(r, source)
  <2>1. ASSUME Deriving(Top(r)) PROVE Relies(n, at, read.deps, read.state)
    <3>1. r.computing = n
      <4>1. r.computing = After(Last(r.calls))
        BY DEF Sound, Stacked
      <4>. QED
        BY <1>5, <2>1, <4>1 DEF After, Deriving
    <3>2. n # Nowhere /\ source # n /\ n \in Node
      BY <1>2, <2>1, Groups, ClientAssumption
    <3>3. source \in ToSet(read.deps[n]) /\ read.state[source] = "clean"
      BY <1>2, <1>6, <1>7, <1>10, <2>1, <3>1, <3>2
    <3>4. Relies(n, at - 1, r.deps, r.state)
      BY <1>1, <1>5, <2>1, TopFrame DEF Sound, Derivation, Progress
    <3>5. ASSUME NEW j \in 1 .. at
          PROVE  Reads[n][j] \in ToSet(read.deps[n]) /\ read.state[Reads[n][j]] = "clean"
      <4>1. CASE j = at
        BY <3>3, <4>1 DEF source
      <4>2. CASE j # at
        <5>1. j \in 1 .. at - 1
          BY <1>2, <4>2
        <5>. QED
          BY <1>6, <1>7, <3>2, <3>4, <5>1 DEF Relies
      <4>. QED
        BY <4>1, <4>2
    <3>. QED
      BY <3>5 DEF Relies
  <2>2. CASE val = False \/ at = Len(Reads[n])
    <3>1. /\ Top(read).op \in {"compute", "condition"} /\ read.calls # <<>>
          /\ Deriving(Top(read)) =>
               /\ Relies(Top(read).node, Top(read).at, read.deps, read.state)
               /\ val = read.value[Reads[Top(read).node][Top(read).at]]
               /\ val = False \/ Top(read).at = Len(Reads[Top(read).node])
      BY <1>7, <2>1, <2>2 DEF source
    <3> HIDE DEF val
    <3>2. Sound(HasRead(read, val), secret)
      BY <1>6, <1>8, <3>1, HasReadSound
    <3>. QED
      BY <1>3, <1>10, <2>2, <3>2
  <2>3. CASE ~(val = False \/ at = Len(Reads[n]))
    <3> DEFINE c == [Top(read) EXCEPT !.at = Top(read).at + 1]
    <3>1. /\ c \in Frame /\ c.op = Top(r).op /\ c.node = n
          /\ c.prev = Top(r).prev /\ c.at = at + 1 /\ c.at - 1 = at
      BY <1>7, NextFrame
    <3>2. NextRound(read) = Resume(read, c)
      BY DEF NextRound
    <3> HIDE DEF c
    <3>3. at + 1 \in 1 .. Len(Reads[n])
      BY <1>2, <2>3
    <3>4. FrameSound(c)
      BY <1>5, <3>1, <3>3 DEF FrameSound, ReadsOn
    <3>5. Replaces(c, Top(read))
      BY <1>7, <3>1 DEF Replaces, Deriving
    <3>6. ASSUME Deriving(c) PROVE Progress(c, read.deps, read.state, read.value)
      <4>1. Deriving(Top(r))
        BY <3>1, <3>6 DEF Deriving
      <4>2. Progress(Top(r), r.deps, r.state, r.value)
        BY <1>1, <1>5, <4>1, TopFrame DEF Sound, Derivation
      <4>3. ASSUME NEW j \in 1 .. at PROVE r.value[Reads[n][j]] # False
        <5>1. CASE j = at
          BY <2>3, <5>1 DEF source
        <5>2. CASE j # at
          <6>1. j \in 1 .. at - 1
            BY <1>2, <5>2
          <6>. QED
            BY <4>2, <6>1 DEF Progress
        <5>. QED
          BY <5>1, <5>2
      <4>4. Relies(n, at, read.deps, read.state)
        BY <2>1, <4>1
      <4>. QED
        BY <1>7, <3>1, <4>2, <4>3, <4>4 DEF Progress
    <3>7. Sound(Resume(read, c), secret)
      BY <1>6, <1>7, <3>1, <3>4, <3>5, <3>6, ResumeSound
    <3>. QED
      BY <1>3, <1>10, <2>3, <3>2, <3>7
  <2>. QED
    BY <2>2, <2>3
<1>. QED
  BY <1>9, <1>10

-----------------------------------------------------------------------------
(* A step, and a call.                                                     *)

(* What is below a call of reactive_propagate.                              *)
LEMMA PropagatePopped ==
  ASSUME NEW r, NEW secret, Sound(r, secret), r.calls # <<>>, Top(r).op = "propagate"
  PROVE  Free(Pop(r))
<1> DEFINE calls == r.calls
           l == Len(calls)
           f == Front(calls)
<1>1. r \in ReactiveRuntime /\ ~r.crashed /\ calls \in Seq(Frame)
  BY FieldTypes DEF Sound, Typed, Accounted
<1>2. Pop(r).calls = f /\ ~Pop(r).crashed
  BY <1>1 DEF Pop, ReactiveRuntime
<1>3. /\ f \in Seq(Frame) /\ Len(f) = l - 1 /\ DOMAIN f = 1 .. l - 1
      /\ \A k \in 1 .. l - 1 : f[k] = calls[k]
      /\ Last(calls) = calls[l] /\ l \in Nat \ {0} /\ DOMAIN calls = 1 .. l
  BY <1>1, FrontElements
<1> HIDE DEF f, l
<1>4. ASSUME f # <<>> PROVE ~Reading(Last(f)) /\ Last(f).op \notin {"invalidate", "announce"}
  <2>1. Last(f) = f[l - 1] /\ l - 1 \in 1 .. l - 1
    <3>1. Last(f) = f[Len(f)] /\ Len(f) \in Nat \ {0}
      BY <1>3, <1>4, FrontElements
    <3>. QED
      BY <1>3, <3>1
  <2>2. Last(f) = calls[l - 1] /\ l - 1 + 1 = l /\ l \in DOMAIN calls
    BY <1>3, <2>1
  <2>3. StandsOn(calls[l - 1 + 1], calls[l - 1]) /\ StandsOver(calls[l], calls[l - 1])
    BY <2>1, <2>2 DEF Sound, Stacked, l
  <2>4. calls[l].op = "propagate"
    BY <1>3 DEF Top
  <2>. QED
    BY <2>2, <2>3, <2>4 DEF StandsOn, StandsOver, Deriving
<1>. QED
  BY <1>2, <1>4 DEF Free

LEMMA StepSound ==
  ASSUME NEW r, NEW secret, Sound(r, secret), r.calls # <<>>
  PROVE  Sound(Step(r), secret)
<1>1. r \in ReactiveRuntime /\ ~r.crashed /\ r.calls \in Seq(Frame)
  BY FieldTypes DEF Sound, Typed, Accounted
<1>2. Top(r).op \in {"invalidate", "announce", "propagate", "drain", "triggers", "settle",
         "compute", "return", "condition", "mark", "commit"}
  BY <1>1, TopFrame DEF Frame
<1>3. CASE Top(r).op = "invalidate"
  BY <1>3, InvalidateSound DEF Step
<1>4. CASE Top(r).op = "announce"
  BY <1>4, AnnounceSound DEF Step
<1>5. CASE Top(r).op = "propagate"
  <2>1. Sound(Pop(r), secret)
    BY <1>5, PopSound
  <2>2. Free(Pop(r))
    BY <1>5, PropagatePopped
  <2>3. Step(r) = Propagate(Pop(r))
    BY <1>5 DEF Step
  <2>. QED
    BY <2>1, <2>2, <2>3, PropagateSound
<1>6. CASE Top(r).op = "drain"
  BY <1>6, DrainSound DEF Step
<1>7. CASE Top(r).op = "triggers"
  BY <1>7, TriggersSound DEF Step
<1>8. CASE Top(r).op = "settle"
  BY <1>8, SettledSound DEF Step
<1>9. CASE Top(r).op \in {"compute", "condition"}
  BY <1>9, ReadSound DEF Step
<1>10. CASE Top(r).op = "return"
  <2>1. ~Deriving(Top(r)) /\ Nil \in Value
    BY <1>10 DEF Deriving, Value
  <2>2. Step(r) = Return(r, Nil)
    BY <1>10 DEF Step
  <2>. QED
    BY <1>10, <2>1, <2>2, ReturnSound
<1>11. CASE Top(r).op = "mark"
  BY <1>11, MarkSound DEF Step
<1>12. CASE Top(r).op = "commit"
  BY <1>12, ClosingSound DEF Step
<1>. QED
  BY <1>2, <1>3, <1>4, <1>5, <1>6, <1>7, <1>8, <1>9, <1>10, <1>11, <1>12

-----------------------------------------------------------------------------
(* What a step leaves alone: the states and what rollback needs, and what  *)
(* when blocks that fire once need.                                        *)

SameStates(r, s) ==
  /\ s.in_transaction = r.in_transaction
  /\ r.in_transaction => s.changes = r.changes
  /\ s.prev_value = r.prev_value
  /\ \A x \in State : s.value[x] = r.value[x]

Frequent(c) == c.op \notin {"mark", "condition", "triggers"}

SameFrame(c, d) == c.op = d.op /\ c.node = d.node

(* Below the frames of when blocks nothing changes.                        *)
CalmStack(old, new) ==
  /\ \A k \in DOMAIN new : Frequent(new[k]) \/ (k \in DOMAIN old /\ SameFrame(old[k], new[k]))
  /\ \A k \in DOMAIN old : old[k].op = "mark" => k \in DOMAIN new /\ SameFrame(old[k], new[k])
  /\ \A k \in DOMAIN new : (k # 1 /\ new[k].op = "triggers") => new[k - 1].op = old[k - 1].op

Calm(r, s) ==
  /\ s.crashed = r.crashed /\ s.fired = r.fired
  /\ \A w \in Once : s.triggered[w] = r.triggered[w]
  /\ CalmStack(r.calls, s.calls)

LEMMA CalmChain ==
  ASSUME NEW r, NEW s, NEW t, Calm(r, s), Calm(s, t)
  PROVE  Calm(r, t)
<1> DEFINE a == r.calls
           b == s.calls
           c == t.calls
<1>1. CalmStack(a, b) /\ CalmStack(b, c)
  BY DEF Calm
<1> HIDE DEF a, b, c
<1>2. \A k \in DOMAIN c : Frequent(c[k]) \/ (k \in DOMAIN a /\ SameFrame(a[k], c[k]))
  BY <1>1 DEF CalmStack, SameFrame, Frequent
<1>3. \A k \in DOMAIN a : a[k].op = "mark" => k \in DOMAIN c /\ SameFrame(a[k], c[k])
  BY <1>1 DEF CalmStack, SameFrame
<1>4. \A k \in DOMAIN c : (k # 1 /\ c[k].op = "triggers") => c[k - 1].op = a[k - 1].op
  <2> SUFFICES ASSUME NEW k \in DOMAIN c, k # 1, c[k].op = "triggers"
               PROVE  c[k - 1].op = a[k - 1].op
    OBVIOUS
  <2>1. k \in DOMAIN b /\ b[k].op = "triggers"
    BY <1>1 DEF CalmStack, SameFrame, Frequent
  <2>. QED
    BY <1>1, <2>1 DEF CalmStack
<1>5. CalmStack(a, c)
  BY <1>2, <1>3, <1>4 DEF CalmStack
<1>. QED
  BY <1>5 DEF Calm, a, c

LEMMA CalmSame ==
  ASSUME NEW r, NEW s, s.calls = r.calls, s.crashed = r.crashed, s.fired = r.fired,
         \A w \in Once : s.triggered[w] = r.triggered[w]
  PROVE  Calm(r, s)
BY DEF Calm, CalmStack, SameFrame

LEMMA CalmPop ==
  ASSUME NEW r \in ReactiveRuntime, r.calls # <<>>, Top(r).op # "mark"
  PROVE  Calm(r, Pop(r)) /\ SameStates(r, Pop(r))
<1> DEFINE calls == r.calls
           l == Len(calls)
           f == Front(calls)
<1>1. calls \in Seq(Frame)
  BY FieldTypes
<1>2. /\ Pop(r).calls = f /\ Pop(r).crashed = r.crashed /\ Pop(r).fired = r.fired
      /\ Pop(r).triggered = r.triggered /\ SameStates(r, Pop(r))
  BY DEF Pop, ReactiveRuntime, SameStates
<1>3. /\ f \in Seq(Frame) /\ Len(f) = l - 1 /\ DOMAIN f = 1 .. l - 1
      /\ \A k \in 1 .. l - 1 : f[k] = calls[k]
      /\ Last(calls) = calls[l] /\ l \in Nat \ {0} /\ DOMAIN calls = 1 .. l
  BY <1>1, FrontElements
<1> HIDE DEF f, l
<1>4. /\ \A k \in DOMAIN f : k \in DOMAIN calls /\ f[k] = calls[k]
      /\ \A k \in DOMAIN calls : k = l \/ (k \in DOMAIN f /\ f[k] = calls[k])
      /\ \A k \in DOMAIN f : k # 1 => f[k - 1] = calls[k - 1]
  BY <1>3
<1>5. calls[l].op # "mark"
  BY <1>3 DEF Top
<1>6. CalmStack(calls, f)
  BY <1>4, <1>5 DEF CalmStack, SameFrame
<1>. QED
  BY <1>2, <1>6 DEF Calm

LEMMA CalmResume ==
  ASSUME NEW r \in ReactiveRuntime, r.calls # <<>>, Top(r).op # "mark", NEW c \in Frame,
         Frequent(c) \/ SameFrame(c, Top(r))
  PROVE  Calm(r, Resume(r, c)) /\ SameStates(r, Resume(r, c))
<1> DEFINE calls == r.calls
           l == Len(calls)
           f == Front(calls)
           new == Append(f, c)
<1>1. calls \in Seq(Frame)
  BY FieldTypes
<1>2. /\ Resume(r, c).calls = new /\ Resume(r, c).crashed = r.crashed
      /\ Resume(r, c).fired = r.fired /\ Resume(r, c).triggered = r.triggered
      /\ SameStates(r, Resume(r, c))
  BY Resumed DEF SameStates
<1>3. /\ f \in Seq(Frame) /\ Len(f) = l - 1 /\ DOMAIN f = 1 .. l - 1
      /\ \A k \in 1 .. l - 1 : f[k] = calls[k]
      /\ Last(calls) = calls[l] /\ l \in Nat \ {0} /\ DOMAIN calls = 1 .. l
  BY <1>1, FrontElements
<1>4. /\ new \in Seq(Frame) /\ DOMAIN new = 1 .. Len(f) + 1
      /\ \A k \in 1 .. Len(f) : new[k] = f[k]
      /\ new[Len(f) + 1] = c
  BY <1>3, PushElements
<1> HIDE DEF f, l, new
<1>5. /\ DOMAIN new = 1 .. l /\ new[l] = c /\ l \in DOMAIN new
      /\ \A k \in 1 .. l - 1 : new[k] = calls[k]
  BY <1>3, <1>4
<1>6. /\ \A k \in DOMAIN new : k = l \/ (k \in DOMAIN calls /\ new[k] = calls[k])
      /\ \A k \in DOMAIN calls : k = l \/ (k \in DOMAIN new /\ new[k] = calls[k])
      /\ \A k \in DOMAIN new : k # 1 => new[k - 1] = calls[k - 1]
      /\ l \in DOMAIN calls
  BY <1>3, <1>5
<1>7. calls[l].op # "mark" /\ (Frequent(c) \/ SameFrame(c, calls[l]))
  BY <1>3 DEF Top
<1>8. CalmStack(calls, new)
  BY <1>5, <1>6, <1>7 DEF CalmStack, SameFrame
<1>. QED
  BY <1>2, <1>8 DEF Calm

LEMMA CalmPush ==
  ASSUME NEW r \in ReactiveRuntime, NEW c \in Frame, Frequent(c)
  PROVE  Calm(r, Push(r, c)) /\ SameStates(r, Push(r, c))
<1> DEFINE calls == r.calls
           l == Len(calls)
           new == Append(calls, c)
<1>1. calls \in Seq(Frame)
  BY FieldTypes
<1>2. /\ Push(r, c).calls = new /\ Push(r, c).crashed = r.crashed
      /\ Push(r, c).fired = r.fired /\ Push(r, c).triggered = r.triggered
      /\ SameStates(r, Push(r, c))
  BY DEF Push, ReactiveRuntime, SameStates
<1>3. /\ DOMAIN new = 1 .. l + 1 /\ DOMAIN calls = 1 .. l /\ l \in Nat
      /\ \A k \in 1 .. l : new[k] = calls[k]
      /\ new[l + 1] = c
  BY <1>1, PushElements
<1> HIDE DEF l, new
<1>4. /\ \A k \in DOMAIN new : k = l + 1 \/ (k \in DOMAIN calls /\ new[k] = calls[k])
      /\ \A k \in DOMAIN calls : k \in DOMAIN new /\ new[k] = calls[k]
      /\ \A k \in DOMAIN new : k # 1 => new[k - 1] = calls[k - 1]
  BY <1>3
<1>5. CalmStack(calls, new)
  BY <1>3, <1>4 DEF CalmStack, SameFrame
<1>. QED
  BY <1>2, <1>5 DEF Calm

LEMMA SameChain ==
  ASSUME NEW r, NEW s, NEW t, SameStates(r, s), SameStates(s, t)
  PROVE  SameStates(r, t)
BY DEF SameStates

LEMMA SameRestorable ==
  ASSUME NEW r, NEW s, NEW old, Restorable(r, old), SameStates(r, s)
  PROVE  Restorable(s, old)
BY DEF Restorable, SameStates

LEMMA CalmFires ==
  ASSUME NEW r, NEW s, NEW first, NEW check, FiresOnce(r, first, check), Calm(r, s),
         s.calls \in Seq(Frame)
  PROVE  FiresOnce(s, first, check)
<1>1. CalmStack(r.calls, s.calls)
  BY DEF Calm
<1>2. ASSUME NEW w \in Once
      PROVE  /\ ~s.crashed /\ s.fired[w] > 0 =>
                  \/ s.triggered[w]
                  \/ \E k \in DOMAIN s.calls : s.calls[k].op = "mark" /\ s.calls[k].node = w
             /\ first[w] > 0 => s.triggered[w] /\ s.fired[w] = first[w]
             /\ ~check => s.fired[w] \in {first[w], 1}
  BY <1>1 DEF FiresOnce, Calm, CalmStack, SameFrame
<1>3. ASSUME NEW k \in DOMAIN s.calls, s.calls[k].op = "condition", s.calls[k].node \in Once
      PROVE  ~s.triggered[s.calls[k].node]
  <2>1. k \in DOMAIN r.calls /\ SameFrame(r.calls[k], s.calls[k])
    BY <1>1, <1>3 DEF CalmStack, Frequent
  <2>2. r.calls[k].op = "condition" /\ r.calls[k].node = s.calls[k].node
    BY <1>3, <2>1 DEF SameFrame
  <2>. QED
    BY <1>3, <2>1, <2>2 DEF FiresOnce, Calm
<1>4. ASSUME ~check, NEW k \in DOMAIN s.calls, s.calls[k].op = "triggers"
      PROVE  k > 1 /\ s.calls[k - 1].op = "settle"
  <2>1. k \in DOMAIN r.calls /\ r.calls[k].op = "triggers"
    BY <1>1, <1>4 DEF CalmStack, Frequent, SameFrame
  <2>2. k > 1 /\ r.calls[k - 1].op = "settle"
    BY <1>4, <2>1 DEF FiresOnce
  <2>3. DOMAIN s.calls = 1 .. Len(s.calls) /\ k \in Int
    BY LenProperties
  <2>4. k # 1
    BY <2>2, <2>3
  <2>. QED
    BY <1>1, <1>4, <2>2, <2>4 DEF CalmStack
<1>. QED
  BY <1>2, <1>3, <1>4 DEF FiresOnce

Moves(r, s) == Calm(r, s) /\ SameStates(r, s)

LEMMA MovesChain ==
  ASSUME NEW r, NEW s, NEW t, Moves(r, s), Moves(s, t)
  PROVE  Moves(r, t)
BY CalmChain, SameChain DEF Moves

LEMMA MovesPop ==
  ASSUME NEW r \in ReactiveRuntime, r.calls # <<>>, Top(r).op # "mark"
  PROVE  Moves(r, Pop(r)) /\ Pop(r) \in ReactiveRuntime
<1>1. Moves(r, Pop(r))
  BY CalmPop DEF Moves
<1>2. r.calls \in Seq(Frame)
  BY FieldTypes
<1>3. Front(r.calls) \in Seq(Frame)
  BY <1>2, FrontElements
<1>4. Pop(r) \in ReactiveRuntime
  BY <1>3 DEF Pop, ReactiveRuntime
<1>. QED
  BY <1>1, <1>4

LEMMA MovesResume ==
  ASSUME NEW r \in ReactiveRuntime, r.calls # <<>>, Top(r).op # "mark", NEW c \in Frame,
         Frequent(c) \/ SameFrame(c, Top(r))
  PROVE  Moves(r, Resume(r, c)) /\ Resume(r, c) \in ReactiveRuntime
BY CalmResume, Resumed DEF Moves

LEMMA MovesPush ==
  ASSUME NEW r \in ReactiveRuntime, NEW c \in Frame, Frequent(c)
  PROVE  Moves(r, Push(r, c)) /\ Push(r, c) \in ReactiveRuntime
<1>1. Moves(r, Push(r, c))
  BY CalmPush DEF Moves
<1>2. r.calls \in Seq(Frame)
  BY FieldTypes
<1>3. Append(r.calls, c) \in Seq(Frame)
  BY <1>2, PushElements
<1>4. Push(r, c) \in ReactiveRuntime
  BY <1>3 DEF Push, ReactiveRuntime
<1>. QED
  BY <1>1, <1>4

LEMMA MovesSame ==
  ASSUME NEW r, NEW s, s.calls = r.calls, s.crashed = r.crashed, s.fired = r.fired,
         s.triggered = r.triggered, SameStates(r, s)
  PROVE  Moves(r, s)
BY CalmSame DEF Moves

LEMMA MovesNextRound ==
  ASSUME NEW r \in ReactiveRuntime, r.calls # <<>>, Top(r).op # "mark"
  PROVE  Moves(r, NextRound(r)) /\ NextRound(r) \in ReactiveRuntime
<1> DEFINE c == [Top(r) EXCEPT !.at = Top(r).at + 1]
<1>1. c \in Frame /\ SameFrame(c, Top(r))
  BY NextFrame DEF SameFrame
<1>2. NextRound(r) = Resume(r, c)
  BY DEF NextRound
<1> HIDE DEF c
<1>. QED
  BY <1>1, <1>2, MovesResume

LEMMA ToldType ==
  ASSUME NEW r \in ReactiveRuntime, NEW n \in Node
  PROVE  Told(r, n) \in Seq(Computed)
<1>1. r.dependents[n] \in Seq(Computed) /\ <<>> \in Seq(Computed)
  BY FieldTypes, EmptySeq
<1>. QED
  BY <1>1 DEF Told

LEMMA MovesInvalidate ==
  ASSUME NEW r \in ReactiveRuntime, NEW n \in Node
  PROVE  Moves(r, Invalidate(r, n))
<1> DEFINE c == NewCall(r, "invalidate", n, Told(r, n))
<1>1. r.computing \in Computed \cup {Nowhere} /\ Told(r, n) \in Seq(Computed)
  BY FieldTypes, ToldType
<1>2. c \in Frame /\ c.op = "invalidate"
  BY <1>1 DEF NewCall, Frame
<1> HIDE DEF c
<1>3. Moves(r, Push(r, c))
  BY <1>2, MovesPush DEF Frequent
<1>. QED
  BY <1>3 DEF Invalidate, c

LEMMA MovesInvalidateNext ==
  ASSUME NEW r \in ReactiveRuntime, r.calls # <<>>, Top(r).op = "invalidate"
  PROVE  Moves(r, InvalidateNext(r))
<1> DEFINE todo == Top(r).todo
           h == Head(todo)
<1>1. todo \in Seq(Computed) /\ Top(r) \in Frame
  BY TopFrame
<1>2. CASE todo = <<>>
  <2>1. InvalidateNext(r) = Pop(r)
    BY <1>2 DEF InvalidateNext
  <2>. QED
    BY <2>1, MovesPop
<1>3. ASSUME todo # <<>>, NEW q \in ReactiveRuntime, Moves(r, q), q.calls = r.calls,
             NEW more \in Seq(Computed)
      PROVE  Moves(r, Resume(q, [Top(r) EXCEPT !.todo = more \o Tail(todo)]))
  <2> DEFINE left == more \o Tail(todo)
             c == [Top(r) EXCEPT !.todo = left]
  <2>1. Tail(todo) \in Seq(Computed)
    BY <1>1, <1>3, TailElements
  <2>2. left \in Seq(Computed)
    BY <1>3, <2>1, ConcatElements
  <2> HIDE DEF left, todo
  <2>3. c \in Frame /\ c.op = "invalidate"
    BY <1>1, <2>2 DEF Frame
  <2> HIDE DEF c
  <2>4. q.calls # <<>> /\ Top(q).op # "mark"
    BY <1>3 DEF Top
  <2>5. Moves(q, Resume(q, c))
    BY <1>3, <2>3, <2>4, MovesResume DEF Frequent
  <2>6. Moves(r, Resume(q, c))
    BY <1>3, <2>5, MovesChain
  <2>. QED
    BY <2>6 DEF c, left, todo
<1>4. CASE todo # <<>> /\ r.state[h] = "clean"
  <2> DEFINE q == Enqueue(r, h)
             queue == IF Len(r.queue) < BatchSize THEN Append(r.queue, h) ELSE r.queue
             states == [r.state EXCEPT ![h] = "dirty"]
  <2>1. h \in Computed /\ h \in Node
    BY <1>1, <1>4, TailElements, Groups
  <2>2. queue \in Seq(Computed) /\ states \in [Node -> {"clean", "dirty", "computing"}]
    BY <2>1, FieldTypes, AppendElements
  <2>3. q = [r EXCEPT !.state = states, !.queue = queue]
    BY DEF Enqueue, ReactiveRuntime
  <2> HIDE DEF queue, states
  <2>4. q \in ReactiveRuntime /\ q.calls = r.calls
    BY <2>2, <2>3 DEF ReactiveRuntime
  <2>5. /\ q.crashed = r.crashed /\ q.fired = r.fired
        /\ q.triggered = r.triggered /\ SameStates(r, q)
    BY <2>3 DEF SameStates, ReactiveRuntime
  <2> HIDE DEF q
  <2>6. Moves(r, q)
    BY <2>4, <2>5, MovesSame
  <2>7. Told(r, h) \in Seq(Computed)
    BY <2>1, ToldType
  <2>8. InvalidateNext(r) = Resume(q, [Top(r) EXCEPT !.todo = Told(r, h) \o Tail(todo)])
    BY <1>4 DEF InvalidateNext, q
  <2>. QED
    BY <1>3, <1>4, <2>4, <2>6, <2>7, <2>8
<1>5. CASE todo # <<>> /\ r.state[h] # "clean"
  <2> DEFINE q == PassOver(r, h)
  <2>1. Moves(r, q) /\ q \in ReactiveRuntime /\ q.calls = r.calls
    <3>1. /\ q \in ReactiveRuntime /\ SameCore(r, q) /\ q.fired = r.fired /\ q.triggered = r.triggered
          /\ q.prev_value = r.prev_value /\ q.disposed = r.disposed
      BY PassedOver
    <3> HIDE DEF q
    <3>2. q.calls = r.calls /\ q.crashed = r.crashed /\ SameStates(r, q)
      BY <3>1 DEF SameCore, SameStates
    <3>. QED
      BY <3>1, <3>2, MovesSame
  <2>2. InvalidateNext(r) = Resume(q, [Top(r) EXCEPT !.todo = <<>> \o Tail(todo)])
    BY <1>5 DEF InvalidateNext
  <2> HIDE DEF q
  <2>3. <<>> \in Seq(Computed)
    BY EmptySeq
  <2>. QED
    BY <1>3, <1>5, <2>1, <2>2, <2>3
<1>. QED
  BY <1>2, <1>4, <1>5

LEMMA MovesAnnounceNext ==
  ASSUME NEW r \in ReactiveRuntime, r.calls # <<>>, Top(r).op = "announce"
  PROVE  Moves(r, AnnounceNext(r))
<1> DEFINE at == Top(r).at
           q == NextRound(r)
<1>1. r.changes \in Seq(State) /\ DOMAIN r.changes = 1 .. Len(r.changes)
      /\ Len(r.changes) \in Nat /\ at \in Nat \ {0}
  BY FieldTypes, TopFrame, LenProperties
<1>2. CASE at > Len(r.changes)
  <2>1. AnnounceNext(r) = Pop(r)
    BY <1>2 DEF AnnounceNext
  <2>. QED
    BY <2>1, MovesPop
<1>3. CASE ~(at > Len(r.changes))
  <2>1. AnnounceNext(r) = Invalidate(q, r.changes[at])
    BY <1>3 DEF AnnounceNext
  <2>2. Moves(r, q) /\ q \in ReactiveRuntime
    BY MovesNextRound
  <2> HIDE DEF q
  <2>3. r.changes[at] \in Node
    BY <1>1, <1>3, ElementOfSeq, Groups
  <2>4. Moves(q, Invalidate(q, r.changes[at]))
    BY <2>2, <2>3, MovesInvalidate
  <2>. QED
    BY <2>1, <2>2, <2>4, MovesChain
<1>. QED
  BY <1>2, <1>3

LEMMA MovesRecompute ==
  ASSUME NEW r, NEW secret, Sound(r, secret), NEW n \in Computed
  PROVE  Moves(r, Recompute(r, n))
<1>1. CASE Reads[n] = <<>>
  <2>1. Moves(r, r)
    BY MovesSame DEF SameStates
  <2>. QED
    BY <1>1, <2>1 DEF Recompute
<1>2. CASE Reads[n] # <<>>
  <2> DEFINE c == NewCall(r, "compute", n, <<>>)
             q == ClearDeps(r, n)
             b == Begun(r, n)
             states == [r.state EXCEPT ![n] = "computing"]
  <2>1. r \in ReactiveRuntime /\ n \in Node
    BY Groups DEF Sound, Typed
  <2>2. c \in Frame /\ c.op = "compute"
    <3>1. <<>> \in Seq(Computed) /\ r.computing \in Computed \cup {Nowhere}
      BY <2>1, FieldTypes, EmptySeq
    <3>. QED
      BY <2>1, <3>1 DEF NewCall, Frame
  <2>3. q \in ReactiveRuntime /\ SameButLinks(r, q)
    BY <2>1, LinksCleared DEF Sound
  <2>4. states \in [Node -> {"clean", "dirty", "computing"}]
    BY <2>1, FieldTypes
  <2>5. Recompute(r, n) = Push(b, c)
    BY <1>2 DEF Recompute
  <2> DEFINE missed == q.missed \ {n}
  <2>6. b = [q EXCEPT !.state = states, !.computing = n, !.missed = missed]
    BY <2>3 DEF Begun, SameButLinks, ReactiveRuntime
  <2>11. missed \in SUBSET Effect
    BY <2>3, FieldTypes
  <2> HIDE DEF q, states, c, missed
  <2>7. b \in ReactiveRuntime
    BY <2>3, <2>4, <2>6, <2>11 DEF ReactiveRuntime
  <2>8. /\ b.calls = q.calls /\ b.crashed = q.crashed /\ b.fired = q.fired
        /\ b.triggered = q.triggered /\ SameStates(q, b)
    BY <2>3, <2>6 DEF ReactiveRuntime, SameStates
  <2> HIDE DEF b
  <2>9. Moves(r, b)
    <3>1. SameStates(r, b)
      BY <2>3, <2>8 DEF SameStates, SameButLinks
    <3>. QED
      BY <2>3, <2>8, <3>1, MovesSame DEF SameButLinks
  <2>10. Moves(b, Push(b, c))
    BY <2>2, <2>7, MovesPush DEF Frequent
  <2>. QED
    BY <2>5, <2>9, <2>10, MovesChain
<1>. QED
  BY <1>1, <1>2

LEMMA MovesDrainNext ==
  ASSUME NEW r, NEW secret, Sound(r, secret), r.calls # <<>>, Top(r).op = "drain"
  PROVE  Moves(r, DrainNext(r))
<1>1. r \in ReactiveRuntime /\ r.queue \in Seq(Computed) /\ Len(r.queue) <= BatchSize
  BY FieldTypes DEF Sound, Typed
<1>2. CASE r.queue = <<>>
  <2>1. DrainNext(r) = Pop(r)
    BY <1>2 DEF DrainNext
  <2>. QED
    BY <1>1, <2>1, MovesPop
<1>3. CASE r.queue # <<>>
  <2> DEFINE n == Last(r.queue)
             left == Front(r.queue)
             taken == [r EXCEPT !.queue = left]
  <2>1. left \in Seq(Computed) /\ Len(left) = Len(r.queue) - 1 /\ n \in Computed
        /\ Len(r.queue) \in Nat \ {0}
    BY <1>1, <1>3, FrontElements
  <2>2. DrainNext(r) = IF r.state[n] # "dirty" \/ n \in r.disposed THEN taken
                       ELSE Recompute(taken, n)
    BY <1>3 DEF DrainNext
  <2>3. Len(left) <= BatchSize
    BY <1>1, <2>1, BoundAssumption
  <2> HIDE DEF n, left
  <2>4. taken \in ReactiveRuntime /\ SameCore(r, taken) /\ taken.queue = left
    BY <1>1, <2>1 DEF SameCore, ReactiveRuntime
  <2>5. /\ taken.calls = r.calls /\ taken.crashed = r.crashed /\ taken.fired = r.fired
        /\ taken.triggered = r.triggered /\ SameStates(r, taken)
    BY <1>1 DEF SameStates, ReactiveRuntime
  <2> HIDE DEF taken
  <2>6. Sound(taken, secret)
    BY <2>3, <2>4, SameSound
  <2>7. Moves(r, taken)
    BY <2>5, MovesSame
  <2>8. Moves(taken, Recompute(taken, n))
    BY <2>1, <2>6, MovesRecompute
  <2>. QED
    BY <2>2, <2>7, <2>8, MovesChain
<1>. QED
  BY <1>2, <1>3

LEMMA MovesReturn ==
  ASSUME NEW r, NEW secret, Sound(r, secret), r.calls # <<>>, NEW val \in Value,
         Top(r).op \in {"compute", "return"}
  PROVE  Moves(r, Return(r, val))
<1> DEFINE n == Top(r).node
           q == Pop(r)
           s == Return(r, val)
<1>1. r \in ReactiveRuntime
  BY DEF Sound, Typed
<1>2. Moves(r, q) /\ q \in ReactiveRuntime
  BY <1>1, MovesPop
<1>3. n \in Computed
  BY <1>1, TopFrame, Groups DEF Sound, Typed, FrameSound
<1>4. n \notin State
  BY <1>3, Groups
<1>5. \A x \in State : s.value[x] = q.value[x]
  <2>1. s.value = [q.value EXCEPT ![n] = val] /\ q.value \in [Node -> Value]
    BY <1>2 DEF Return, Ended, ReactiveRuntime
  <2> HIDE DEF s, q, n
  <2>. QED
    BY <1>4, <2>1, Groups
<1>6. /\ s.calls = q.calls /\ s.crashed = q.crashed /\ s.fired = q.fired
      /\ s.triggered = q.triggered /\ s.in_transaction = q.in_transaction
      /\ s.changes = q.changes /\ s.prev_value = q.prev_value
  BY <1>2 DEF Return, Ended, ReactiveRuntime
<1> HIDE DEF s, q
<1>7. Moves(q, s)
  BY <1>5, <1>6, MovesSame DEF SameStates
<1>8. Moves(r, s)
  BY <1>2, <1>7, MovesChain
<1>. QED
  BY <1>8 DEF s

(* What rollback needs, and what when blocks that fire once need.          *)
Going(r, old, first, check) == Restorable(r, old) /\ FiresOnce(r, first, check)

LEMMA GoingMoves ==
  ASSUME NEW r, NEW s, NEW old, NEW first, NEW check, Going(r, old, first, check), Moves(r, s),
         s.calls \in Seq(Frame)
  PROVE  Going(s, old, first, check)
BY SameRestorable, CalmFires DEF Going, Moves

(* reactive_set in a transaction keeps what the state was, if it is the    *)
(* first write.                                                            *)
LEMMA RestorableSet ==
  ASSUME NEW r \in ReactiveRuntime, NEW s \in ReactiveRuntime, NEW old, Restorable(r, old),
         NEW x \in State, NEW val, r.in_transaction, s.in_transaction,
         s.changes = Append(r.changes, x),
         s.prev_value = [r.prev_value EXCEPT ![x] = r.value[x]],
         s.value = [r.value EXCEPT ![x] = val]
  PROVE  Restorable(s, old)
<1> DEFINE changes == Append(r.changes, x)
           l == Len(r.changes)
<1>1. r.value \in [Node -> Value] /\ r.prev_value \in [State -> Value] /\ State \subseteq Node
      /\ r.changes \in Seq(State)
  BY FieldTypes, Groups
<1>2. /\ DOMAIN changes = 1 .. l + 1 /\ changes[l + 1] = x /\ DOMAIN r.changes = 1 .. l
      /\ \A i \in 1 .. l : changes[i] = r.changes[i]
      /\ l \in Nat
  BY <1>1, PushElements
<1> HIDE DEF changes, l
<1>3. /\ \A i \in DOMAIN changes : i = l + 1 \/ (i \in DOMAIN r.changes /\ changes[i] = r.changes[i])
      /\ \A i \in DOMAIN r.changes : i \in DOMAIN changes /\ changes[i] = r.changes[i] /\ i # l + 1
      /\ l + 1 \in DOMAIN changes
  BY <1>2
<1>4. s.prev_value[x] = r.value[x]
      /\ \A y \in State : y # x => s.prev_value[y] = r.prev_value[y] /\ s.value[y] = r.value[y]
  BY <1>1
<1>5. x \in ToSet(changes)
  BY <1>2, <1>3 DEF ToSet
<1>6. ASSUME Once1(changes, x) PROVE s.prev_value[x] = old[x]
  <2>1. x \notin ToSet(r.changes)
    <3>1. \A i \in DOMAIN r.changes : r.changes[i] # x
      BY <1>2, <1>3, <1>6 DEF Once1
    <3>. QED
      BY <3>1 DEF ToSet
  <2>. QED
    BY <1>4, <2>1 DEF Restorable
<1>7. ASSUME NEW y \in State, y # x
      PROVE  IF y \in ToSet(changes) THEN Once1(changes, y) => s.prev_value[y] = old[y]
             ELSE s.value[y] = old[y]
  <2>1. y \in ToSet(changes) <=> y \in ToSet(r.changes)
    <3>1. ASSUME NEW i \in DOMAIN changes, changes[i] = y PROVE y \in ToSet(r.changes)
      <4>1. i # l + 1
        BY <1>2, <1>7, <3>1
      <4>2. i \in DOMAIN r.changes /\ r.changes[i] = y
        BY <1>3, <3>1, <4>1
      <4>. QED
        BY <4>2 DEF ToSet
    <3>2. ASSUME NEW i \in DOMAIN r.changes, r.changes[i] = y PROVE y \in ToSet(changes)
      <4>1. i \in DOMAIN changes /\ changes[i] = y
        BY <1>3, <3>2
      <4>. QED
        BY <4>1 DEF ToSet
    <3>. QED
      BY <3>1, <3>2 DEF ToSet
  <2>2. Once1(changes, y) => Once1(r.changes, y)
    BY <1>3 DEF Once1
  <2>. QED
    BY <1>4, <1>7, <2>1, <2>2 DEF Restorable
<1>8. s.changes = changes
  BY DEF changes
<1>. QED
  BY <1>5, <1>6, <1>7, <1>8 DEF Restorable

LEMMA InvalidateType ==
  ASSUME NEW r \in ReactiveRuntime, NEW n \in Node
  PROVE  Invalidate(r, n).calls \in Seq(Frame)
<1> DEFINE c == NewCall(r, "invalidate", n, Told(r, n))
<1>1. r.computing \in Computed \cup {Nowhere} /\ Told(r, n) \in Seq(Computed)
  BY FieldTypes, ToldType
<1>2. c \in Frame
  BY <1>1 DEF NewCall, Frame
<1> HIDE DEF c
<1>3. r.calls \in Seq(Frame)
  BY FieldTypes
<1>4. Append(r.calls, c) \in Seq(Frame)
  BY <1>2, <1>3, PushElements
<1>. QED
  BY <1>4 DEF Invalidate, Push, c, ReactiveRuntime

LEMMA GoingSet ==
  ASSUME NEW r, NEW secret, Sound(r, secret), NEW x \in State, NEW val \in Value,
         NEW old, NEW first, NEW check, Going(r, old, first, check)
  PROVE  Going(SetValue(r, x, val), old, first, check)
<1> DEFINE q == [r EXCEPT !.prev_value = [r.prev_value EXCEPT ![x] = r.value[x]],
                          !.value = [r.value EXCEPT ![x] = val]]
<1>1. r \in ReactiveRuntime /\ x \in Node /\ r.calls \in Seq(Frame)
  BY FieldTypes, Groups DEF Sound, Typed
<1>2. CASE r.value[x] = val
  BY <1>2 DEF SetValue
<1>3. CASE r.value[x] # val /\ r.in_transaction
  <2> DEFINE s == SetValue(r, x, val)
             changes == Append(r.changes, x)
             prevs == [r.prev_value EXCEPT ![x] = r.value[x]]
             values == [r.value EXCEPT ![x] = val]
  <2>1. s = [r EXCEPT !.prev_value = prevs, !.value = values, !.changes = changes]
    BY <1>1, <1>3 DEF SetValue, ReactiveRuntime
  <2>2. changes \in Seq(State)
    BY <1>1, FieldTypes, AppendElements
  <2>3. prevs \in [State -> Value] /\ values \in [Node -> Value]
    BY <1>1, FieldTypes
  <2> HIDE DEF s, changes, prevs, values
  <2>4. /\ s \in ReactiveRuntime /\ s.changes = changes /\ s.prev_value = prevs
        /\ s.value = values /\ s.in_transaction = r.in_transaction /\ s.calls = r.calls
        /\ s.crashed = r.crashed /\ s.fired = r.fired /\ s.triggered = r.triggered
    BY <1>1, <2>1, <2>2, <2>3 DEF ReactiveRuntime
  <2>5. Restorable(s, old)
    BY <1>1, <1>3, <2>4, RestorableSet DEF Going, changes, prevs, values
  <2>6. Calm(r, s)
    BY <2>4, CalmSame
  <2>7. FiresOnce(s, first, check)
    BY <1>1, <2>4, <2>6, CalmFires DEF Going
  <2>. QED
    BY <2>5, <2>7 DEF Going, s
<1>4. CASE r.value[x] # val /\ ~r.in_transaction
  <2> DEFINE c == NewCall(q, "propagate", x, <<>>)
             p == Push(q, c)
             s == SetValue(r, x, val)
             prevs == [r.prev_value EXCEPT ![x] = r.value[x]]
             values == [r.value EXCEPT ![x] = val]
  <2>1. [r EXCEPT !.prev_value[x] = r.value[x], !.value[x] = val] = q
    BY <1>1 DEF ReactiveRuntime
  <2>2. s = Invalidate(Push(q, NewCall(r, "propagate", x, <<>>)), x)
    BY <1>4, <2>1 DEF SetValue
  <2>3. prevs \in [State -> Value] /\ values \in [Node -> Value]
    BY <1>1, FieldTypes
  <2>4. q = [r EXCEPT !.prev_value = prevs, !.value = values]
    OBVIOUS
  <2> HIDE DEF q, s, prevs, values
  <2>5. /\ q \in ReactiveRuntime /\ q.in_transaction = r.in_transaction /\ q.calls = r.calls
        /\ q.crashed = r.crashed /\ q.fired = r.fired /\ q.triggered = r.triggered
        /\ q.computing = r.computing
    BY <1>1, <2>3, <2>4 DEF ReactiveRuntime
  <2>6. c = NewCall(r, "propagate", x, <<>>)
    BY <2>5 DEF NewCall
  <2>7. Going(q, old, first, check)
    <3>1. Restorable(q, old)
      BY <1>4, <2>5 DEF Restorable
    <3>2. Calm(r, q)
      BY <2>5, CalmSame
    <3>3. FiresOnce(q, first, check)
      BY <1>1, <2>5, <3>2, CalmFires DEF Going
    <3>. QED
      BY <3>1, <3>3 DEF Going
  <2>8. c \in Frame /\ c.op = "propagate"
    BY <1>1, <2>5, PlainFrame
  <2> HIDE DEF c
  <2>9. Moves(q, p) /\ p \in ReactiveRuntime
    BY <2>5, <2>8, MovesPush DEF Frequent
  <2> HIDE DEF p
  <2>10. Moves(p, Invalidate(p, x))
    BY <1>1, <2>9, MovesInvalidate
  <2>11. s = Invalidate(p, x)
    BY <2>2, <2>6 DEF p
  <2>12. Moves(q, s)
    BY <2>9, <2>10, <2>11, MovesChain
  <2>13. s.calls \in Seq(Frame)
    BY <1>1, <2>9, <2>11, InvalidateType
  <2>14. Going(s, old, first, check)
    BY <2>7, <2>12, <2>13, GoingMoves
  <2>. QED
    BY <2>14 DEF s
<1>. QED
  BY <1>2, <1>3, <1>4

LEMMA GoingAct ==
  ASSUME NEW r, NEW secret, Sound(r, secret), NEW n \in Sink, NEW val \in Value,
         NEW old, NEW first, NEW check, Going(r, old, first, check)
  PROVE  Going(Act(r, n, val), old, first, check)
<1>1. Writes[n] \in State \cup {Nowhere}
  BY ClientAssumption
<1>2. CASE Writes[n] = Nowhere
  BY <1>2 DEF Act
<1>3. CASE Writes[n] # Nowhere
  <2> DEFINE put == IF n \in Resets THEN False ELSE val
  <2>1. Act(r, n, val) = SetValue(r, Writes[n], put) /\ Writes[n] \in State /\ put \in Value
    BY <1>1, <1>3 DEF Act, Value
  <2> HIDE DEF put
  <2>. QED
    BY <2>1, GoingSet
<1>. QED
  BY <1>2, <1>3

LEMMA FiresPush ==
  ASSUME NEW r \in ReactiveRuntime, NEW c \in Frame, NEW first, NEW check,
         FiresOnce(r, first, check),
         c.op = "triggers" => check \/ (r.calls # <<>> /\ Last(r.calls).op = "settle"),
         c.op = "condition" => (c.node \in Once => ~r.triggered[c.node])
  PROVE  FiresOnce(Push(r, c), first, check)
<1> DEFINE calls == r.calls
           l == Len(calls)
           new == Append(calls, c)
           s == Push(r, c)
<1>1. calls \in Seq(Frame)
  BY FieldTypes
<1>2. /\ DOMAIN new = 1 .. l + 1 /\ DOMAIN calls = 1 .. l /\ l \in Nat
      /\ \A k \in 1 .. l : new[k] = calls[k]
      /\ new[l + 1] = c
  BY <1>1, PushElements
<1>3. s.calls = new /\ s.crashed = r.crashed /\ s.fired = r.fired /\ s.triggered = r.triggered
  BY DEF Push, ReactiveRuntime
<1>4. ASSUME calls # <<>> PROVE Last(calls) = calls[l] /\ l > 0
  <2>1. Last(calls) = calls[l] /\ l \in Nat \ {0}
    BY <1>1, <1>4, FrontElements
  <2> HIDE DEF l
  <2>. QED
    BY <2>1
<1> HIDE DEF s, l, new
<1>5. /\ \A k \in DOMAIN new : k = l + 1 \/ (k \in DOMAIN calls /\ new[k] = calls[k])
      /\ \A k \in DOMAIN calls : k \in DOMAIN new /\ new[k] = calls[k]
      /\ \A k \in DOMAIN calls : k > 1 => new[k - 1] = calls[k - 1]
  BY <1>2
<1>6. ASSUME NEW w \in Once
      PROVE  /\ ~s.crashed /\ s.fired[w] > 0 =>
                  \/ s.triggered[w]
                  \/ \E k \in DOMAIN s.calls : s.calls[k].op = "mark" /\ s.calls[k].node = w
             /\ first[w] > 0 => s.triggered[w] /\ s.fired[w] = first[w]
             /\ ~check => s.fired[w] \in {first[w], 1}
  BY <1>3, <1>5 DEF FiresOnce
<1>7. ASSUME NEW k \in DOMAIN new, new[k].op = "condition", new[k].node \in Once
      PROVE  ~s.triggered[new[k].node]
  BY <1>2, <1>3, <1>5, <1>7 DEF FiresOnce
<1>8. ASSUME ~check, NEW k \in DOMAIN new, new[k].op = "triggers"
      PROVE  k > 1 /\ new[k - 1].op = "settle"
  <2>1. CASE k = l + 1
    <3>1. c.op = "triggers"
      BY <1>2, <1>8, <2>1
    <3>2. calls # <<>> /\ Last(calls).op = "settle"
      BY <1>8, <3>1
    <3>3. l > 0 /\ calls[l].op = "settle" /\ k - 1 = l /\ l \in 1 .. l
      BY <1>2, <1>4, <2>1, <3>2
    <3>. QED
      BY <1>2, <3>3
  <2>2. CASE k # l + 1
    <3>1. k \in DOMAIN calls /\ calls[k].op = "triggers"
      BY <1>5, <1>8, <2>2
    <3>2. k > 1 /\ calls[k - 1].op = "settle"
      BY <1>8, <3>1 DEF FiresOnce
    <3>. QED
      BY <1>5, <3>1, <3>2
  <2>. QED
    BY <2>1, <2>2
<1>. QED
  BY <1>3, <1>6, <1>7, <1>8 DEF FiresOnce, s

LEMMA FiresMark ==
  ASSUME NEW r, NEW secret, Sound(r, secret), r.calls # <<>>, Top(r).op = "mark",
         NEW first, NEW check, FiresOnce(r, first, check)
  PROVE  FiresOnce(Mark(r), first, check)
<1> DEFINE calls == r.calls
           l == Len(calls)
           f == Front(calls)
           m == Top(r).node
           s == Mark(r)
<1>1. r \in ReactiveRuntime /\ calls \in Seq(Frame)
  BY FieldTypes DEF Sound, Typed
<1>2. /\ f \in Seq(Frame) /\ DOMAIN f = 1 .. l - 1
      /\ \A k \in 1 .. l - 1 : f[k] = calls[k]
      /\ Last(calls) = calls[l] /\ l \in Nat \ {0} /\ DOMAIN calls = 1 .. l
  BY <1>1, FrontElements
<1>3. m \in When /\ calls[l].op = "mark" /\ calls[l].node = m
  BY <1>1, <1>2, TopFrame DEF Sound, Typed, FrameSound, Top
<1>4. /\ s.calls = f /\ s.crashed = r.crashed /\ s.fired = r.fired
      /\ s.triggered = [r.triggered EXCEPT ![m] = TRUE]
  BY <1>1 DEF Mark, Pop, ReactiveRuntime
<1>5. r.triggered \in [When -> BOOLEAN] /\ Once \subseteq When
  BY <1>1, FieldTypes, ClientAssumption
<1> HIDE DEF f, l, m, s
<1>6. s.triggered[m] /\ \A w \in Once : w # m => s.triggered[w] = r.triggered[w]
  BY <1>3, <1>4, <1>5
<1>7. /\ \A k \in DOMAIN f : k \in DOMAIN calls /\ f[k] = calls[k]
      /\ \A k \in DOMAIN calls : k = l \/ (k \in DOMAIN f /\ f[k] = calls[k])
      /\ \A k \in DOMAIN f : k > 1 => f[k - 1] = calls[k - 1]
  BY <1>2
<1>8. ASSUME NEW w \in Once
      PROVE  /\ ~s.crashed /\ s.fired[w] > 0 =>
                  \/ s.triggered[w]
                  \/ \E k \in DOMAIN s.calls : s.calls[k].op = "mark" /\ s.calls[k].node = w
             /\ first[w] > 0 => s.triggered[w] /\ s.fired[w] = first[w]
             /\ ~check => s.fired[w] \in {first[w], 1}
  <2>1. CASE w = m
    BY <1>4, <1>6, <2>1 DEF FiresOnce
  <2>2. CASE w # m
    BY <1>3, <1>4, <1>6, <1>7, <2>2 DEF FiresOnce
  <2>. QED
    BY <2>1, <2>2
<1>9. ASSUME NEW k \in DOMAIN f PROVE f[k].op # "condition"
  <2>1. l \in DOMAIN calls /\ k \in 1 .. l - 1 /\ f[k] = calls[k]
    BY <1>2, <1>9
  <2>2. StandsOver(calls[l], calls[k])
    BY <2>1 DEF Sound, Stacked
  <2>. QED
    BY <1>3, <2>1, <2>2 DEF StandsOver, Reading, Deriving
<1>10. ASSUME ~check, NEW k \in DOMAIN f, f[k].op = "triggers"
       PROVE  k > 1 /\ f[k - 1].op = "settle"
  <2>1. k \in DOMAIN calls /\ calls[k].op = "triggers"
    BY <1>7, <1>10
  <2>2. k > 1 /\ calls[k - 1].op = "settle"
    BY <1>10, <2>1 DEF FiresOnce
  <2>. QED
    BY <1>7, <2>2
<1>. QED
  BY <1>4, <1>8, <1>9, <1>10 DEF FiresOnce, s

(* While a condition is evaluated in a propagation, no other when block is *)
(* in its body.                                                            *)
LEMMA NoneMarking ==
  ASSUME NEW r, NEW secret, Sound(r, secret), r.calls # <<>>, Top(r).op = "condition",
         NEW first, FiresOnce(r, first, FALSE)
  PROVE  \A k \in DOMAIN r.calls : r.calls[k].op # "mark"
<1> DEFINE calls == r.calls
           l == Len(calls)
<1>1. r \in ReactiveRuntime /\ calls \in Seq(Frame)
  BY FieldTypes DEF Sound, Typed
<1>2. DOMAIN calls = 1 .. l /\ l \in Nat \ {0} /\ calls[l].op = "condition"
  BY <1>1, FrontElements DEF Top
<1>3. Stacked(calls, r.computing)
  BY DEF Sound
<1>0. l = Len(calls)
  OBVIOUS
<1> HIDE DEF calls, l
<1>4. ASSUME NEW k \in 1 .. l, calls[k].op \in {"condition", "mark"}
      PROVE  k - 2 \in 1 .. l /\ calls[k - 2].op = "settle"
  <2>1. k # 1
    <3>1. Bottom(calls[1])
      BY <1>2, <1>3, EmptySeq DEF Stacked
    <3>. QED
      BY <1>4, <3>1 DEF Bottom
  <2>2. k - 1 \in 1 .. l - 1 /\ k - 1 + 1 = k /\ k - 1 \in 1 .. l
    BY <1>2, <2>1
  <2>3. StandsOn(calls[k - 1 + 1], calls[k - 1])
    BY <1>0, <1>3, <2>2 DEF Stacked
  <2>4. calls[k - 1].op = "triggers"
    BY <1>4, <2>2, <2>3 DEF StandsOn
  <2>5. k - 1 > 1 /\ calls[k - 1 - 1].op = "settle"
    BY <1>2, <2>2, <2>4 DEF FiresOnce, calls
  <2>6. k - 1 - 1 = k - 2 /\ k - 2 \in 1 .. l
    BY <1>2, <2>2, <2>5
  <2>. QED
    BY <2>5, <2>6
<1>5. ASSUME NEW k \in 1 .. l, calls[k].op = "mark" PROVE FALSE
  <2>1. k - 2 \in 1 .. l /\ calls[k - 2].op = "settle"
    BY <1>4, <1>5
  <2>2. l - 2 \in 1 .. l /\ calls[l - 2].op = "settle"
    BY <1>2, <1>4
  <2>3. k # l
    BY <1>2, <1>5
  <2>4. k - 2 \in 1 .. (l - 2) - 1
    <3>1. k \in Int /\ k <= l - 1 /\ k - 2 >= 1 /\ l \in Int
      BY <1>2, <2>1, <2>3
    <3>. QED
      BY <3>1
  <2>5. StandsOver(calls[l - 2], calls[k - 2])
    BY <1>2, <1>3, <2>2, <2>4 DEF Stacked
  <2>. QED
    BY <2>1, <2>2, <2>5 DEF StandsOver
<1>. QED
  BY <1>2, <1>5 DEF calls

LEMMA FiresFiring ==
  ASSUME NEW r, NEW secret, Sound(r, secret), r.calls # <<>>, Top(r).op = "condition",
         Top(r).node \in When, NEW first, NEW check, check \in BOOLEAN,
         FiresOnce(r, first, check)
  PROVE  FiresOnce(Firing(r, Top(r).node), first, check)
<1> DEFINE calls == r.calls
           l == Len(calls)
           f == Front(calls)
           m == Top(r).node
           c == NewCall(r, "mark", m, <<>>)
           new == Append(f, c)
           q == Resume(r, c)
           count == IF r.fired[m] < 2 THEN r.fired[m] + 1 ELSE 2
           s == Firing(r, m)
<1>1. r \in ReactiveRuntime /\ calls \in Seq(Frame) /\ m \in Node
  BY FieldTypes, Groups DEF Sound, Typed
<1>2. /\ f \in Seq(Frame) /\ DOMAIN f = 1 .. l - 1 /\ Len(f) = l - 1
      /\ \A k \in 1 .. l - 1 : f[k] = calls[k]
      /\ Last(calls) = calls[l] /\ l \in Nat \ {0} /\ DOMAIN calls = 1 .. l
  BY <1>1, FrontElements
<1>3. c \in Frame /\ c.op = "mark" /\ c.node = m
  <2>1. <<>> \in Seq(Computed) /\ r.computing \in Computed \cup {Nowhere}
    BY <1>1, FieldTypes, EmptySeq
  <2>. QED
    BY <1>1, <2>1 DEF NewCall, Frame
<1>4. s = [q EXCEPT !.fired[m] = count]
  <2>1. q.fired = r.fired
    BY <1>1, <1>3, Resumed
  <2>. QED
    BY <2>1 DEF Firing
<1> HIDE DEF c
<1>5. /\ DOMAIN new = 1 .. Len(f) + 1 /\ \A k \in 1 .. Len(f) : new[k] = f[k]
      /\ new[Len(f) + 1] = c
  BY <1>2, <1>3, PushElements
<1>6. /\ q \in ReactiveRuntime /\ q.calls = new /\ q.crashed = r.crashed
      /\ q.fired = r.fired /\ q.triggered = r.triggered
  BY <1>1, <1>3, Resumed
<1>7. Top(r) = calls[l]
  BY <1>2 DEF Top
<1> HIDE DEF q, new, f, l, count, s, m
<1>8. /\ s.calls = new /\ s.crashed = r.crashed /\ s.triggered = r.triggered
      /\ s.fired = [r.fired EXCEPT ![m] = count]
  BY <1>4, <1>6 DEF ReactiveRuntime
<1>9. /\ s.fired[m] = count /\ count = IF r.fired[m] < 2 THEN r.fired[m] + 1 ELSE 2
      /\ \A w \in When : w # m => s.fired[w] = r.fired[w]
      /\ \A w \in When : r.fired[w] \in 0 .. 2
      /\ Once \subseteq When /\ m \in When
  <2>1. r.fired \in [When -> 0 .. 2]
    BY <1>1, FieldTypes
  <2>. QED
    BY <1>8, <2>1, ClientAssumption DEF count, m
<1>10. /\ DOMAIN new = 1 .. l /\ new[l] = c /\ l \in DOMAIN new
       /\ \A k \in 1 .. l - 1 : new[k] = calls[k]
  BY <1>2, <1>5
<1>11. /\ \A k \in DOMAIN new : k = l \/ (k \in DOMAIN calls /\ new[k] = calls[k])
       /\ \A k \in DOMAIN calls : k = l \/ (k \in DOMAIN new /\ new[k] = calls[k])
       /\ \A k \in DOMAIN new : k > 1 => new[k - 1] = calls[k - 1]
       /\ l \in DOMAIN calls
  BY <1>2, <1>10
<1>12. calls[l].op = "condition" /\ calls[l].node = m
  BY <1>7 DEF m
<1>13. m \in Once => ~r.triggered[m]
  BY <1>11, <1>12 DEF FiresOnce
<1>14. ASSUME NEW w \in Once, ~s.crashed, s.fired[w] > 0
       PROVE  \/ s.triggered[w]
              \/ \E k \in DOMAIN s.calls : s.calls[k].op = "mark" /\ s.calls[k].node = w
  <2>1. CASE w = m
    BY <1>3, <1>8, <1>10, <2>1
  <2>2. CASE w # m
    <3>1. ~r.crashed /\ r.fired[w] > 0
      BY <1>8, <1>9, <1>14, <2>2
    <3>2. CASE r.triggered[w]
      BY <1>8, <3>2
    <3>3. CASE \E k \in DOMAIN calls : calls[k].op = "mark" /\ calls[k].node = w
      BY <1>8, <1>11, <1>12, <3>3
    <3>. QED
      BY <3>1, <3>2, <3>3 DEF FiresOnce
  <2>. QED
    BY <2>1, <2>2
<1>15. ASSUME NEW w \in Once, first[w] > 0
       PROVE  s.triggered[w] /\ s.fired[w] = first[w]
  <2>1. r.triggered[w] /\ r.fired[w] = first[w]
    BY <1>15 DEF FiresOnce
  <2>2. w # m
    BY <1>13, <2>1
  <2>. QED
    BY <1>8, <1>9, <2>1, <2>2
<1>16. ASSUME NEW w \in Once, ~check PROVE s.fired[w] \in {first[w], 1}
  <2>1. CASE w # m
    BY <1>9, <1>16, <2>1 DEF FiresOnce
  <2>2. CASE w = m
    <3>1. check = FALSE
      BY <1>16
    <3>2. \A k \in DOMAIN calls : calls[k].op # "mark"
      BY <3>1, NoneMarking
    <3>3. ~(r.fired[m] > 0)
      <4>1. ~r.crashed
        BY DEF Sound, Accounted
      <4>. QED
        BY <1>13, <1>16, <2>2, <3>2, <4>1 DEF FiresOnce
    <3>4. r.fired[m] = 0
      BY <1>9, <3>3
    <3>. QED
      BY <1>9, <2>2, <3>4
  <2>. QED
    BY <2>1, <2>2
<1>17. ASSUME NEW k \in DOMAIN new, new[k].op = "condition", new[k].node \in Once
       PROVE  ~s.triggered[new[k].node]
  <2>1. k # l
    BY <1>3, <1>10, <1>17
  <2>2. k \in DOMAIN calls /\ new[k] = calls[k]
    BY <1>11, <2>1
  <2>3. ~r.triggered[calls[k].node]
    BY <1>17, <2>2 DEF FiresOnce
  <2>. QED
    BY <1>8, <2>2, <2>3
<1>18. ASSUME ~check, NEW k \in DOMAIN new, new[k].op = "triggers"
       PROVE  k > 1 /\ new[k - 1].op = "settle"
  <2>1. k # l
    BY <1>3, <1>10, <1>18
  <2>2. k \in DOMAIN calls /\ calls[k].op = "triggers"
    BY <1>11, <1>18, <2>1
  <2>3. k > 1 /\ calls[k - 1].op = "settle"
    BY <1>18, <2>2 DEF FiresOnce
  <2>. QED
    BY <1>11, <2>3
<1>19. FiresOnce(s, first, check)
  BY <1>8, <1>14, <1>15, <1>16, <1>17, <1>18 DEF FiresOnce
<1>. QED
  BY <1>19 DEF s, m

LEMMA FiringStates ==
  ASSUME NEW r \in ReactiveRuntime, r.calls # <<>>, NEW w \in When
  PROVE  SameStates(r, Firing(r, w))
<1> DEFINE c == NewCall(r, "mark", w, <<>>)
           q == Resume(r, c)
<1>1. c \in Frame
  <2>1. <<>> \in Seq(Computed) /\ r.computing \in Computed \cup {Nowhere} /\ w \in Node
    BY FieldTypes, EmptySeq, Groups
  <2>. QED
    BY <2>1 DEF NewCall, Frame
<1>2. /\ q \in ReactiveRuntime /\ q.in_transaction = r.in_transaction
      /\ q.value = r.value /\ q.changes = r.changes /\ q.prev_value = r.prev_value
  BY <1>1, Resumed
<1> HIDE DEF q
<1>3. Firing(r, w) = [q EXCEPT !.fired = [q.fired EXCEPT ![w] =
                                           IF r.fired[w] < 2 THEN r.fired[w] + 1 ELSE 2]]
  BY <1>2 DEF Firing, q, ReactiveRuntime
<1>. QED
  BY <1>2, <1>3 DEF SameStates, ReactiveRuntime

-----------------------------------------------------------------------------
(* Every step keeps both.                                                  *)

LEMMA ReturnType ==
  ASSUME NEW r \in ReactiveRuntime, r.calls # <<>>, NEW val
  PROVE  Return(r, val).calls \in Seq(Frame)
<1>1. r.calls \in Seq(Frame)
  BY FieldTypes
<1>2. Front(r.calls) \in Seq(Frame)
  BY <1>1, FrontElements
<1>. QED
  BY <1>2 DEF Return, Ended, Pop, ReactiveRuntime

LEMMA GoingHasRead ==
  ASSUME NEW r, NEW secret, Sound(r, secret), r.calls # <<>>, NEW val \in Value,
         Top(r).op \in {"compute", "condition"},
         NEW old, NEW first, NEW check \in BOOLEAN, Going(r, old, first, check)
  PROVE  Going(HasRead(r, val), old, first, check)
<1> DEFINE n == Top(r).node
<1>1. r \in ReactiveRuntime /\ ~r.crashed /\ r.calls \in Seq(Frame)
  BY FieldTypes DEF Sound, Typed, Accounted
<1>2. Top(r) \in Frame /\ FrameSound(Top(r))
  BY <1>1, TopFrame DEF Sound, Typed
<1>3. n \in Computed /\ (Top(r).op = "condition" => n \in Sink)
  BY <1>2, Groups DEF FrameSound
<1>4. CASE n \in Effect /\ Top(r).op = "compute"
  <2> DEFINE c == [Top(r) EXCEPT !.op = "return"]
             q == Resume(r, c)
             s == [q EXCEPT !.seen[n] = val]
  <2>1. HasRead(r, val) = Act(s, n, val)
    BY <1>4 DEF HasRead
  <2>2. Sound(s, secret)
    BY <1>4, EffectSound
  <2>3. c \in Frame /\ c.op = "return"
    BY <1>2 DEF Frame
  <2> HIDE DEF c
  <2>4. Moves(r, q) /\ q \in ReactiveRuntime
    BY <1>1, <1>4, <2>3, MovesResume DEF Frequent
  <2> HIDE DEF q
  <2>5. /\ s.calls = q.calls /\ s.crashed = q.crashed /\ s.fired = q.fired
        /\ s.triggered = q.triggered /\ SameStates(q, s)
    BY <2>4 DEF SameStates, ReactiveRuntime
  <2>6. s.calls \in Seq(Frame)
    BY <2>4, <2>5, FieldTypes
  <2> HIDE DEF s, n
  <2>7. Moves(r, s)
    BY <2>4, <2>5, MovesSame, MovesChain
  <2>8. Going(s, old, first, check)
    BY <2>6, <2>7, GoingMoves
  <2>9. n \in Sink
    BY <1>4, Groups
  <2>. QED
    BY <2>1, <2>2, <2>8, <2>9, GoingAct
<1>5. CASE n \in Effect /\ Top(r).op = "condition"
  <2> DEFINE q == Pop(r)
             s == [q EXCEPT !.seen[n] = val]
  <2>1. HasRead(r, val) = Act(s, n, val)
    BY <1>5 DEF HasRead
  <2>2. Sound(q, secret) /\ Free(q)
    BY <1>5, ConditionPopped
  <2>3. Moves(r, q) /\ q \in ReactiveRuntime
    BY <1>1, <1>5, MovesPop
  <2> HIDE DEF q, n
  <2>4. Sound(s, secret)
    BY <1>5, <2>2, SeenSound
  <2>5. /\ s.calls = q.calls /\ s.crashed = q.crashed /\ s.fired = q.fired
        /\ s.triggered = q.triggered /\ SameStates(q, s)
    BY <2>3 DEF SameStates, ReactiveRuntime
  <2>6. s.calls \in Seq(Frame)
    BY <2>3, <2>5, FieldTypes
  <2> HIDE DEF s
  <2>7. Moves(r, s)
    BY <2>3, <2>5, MovesSame, MovesChain
  <2>8. Going(s, old, first, check)
    BY <2>6, <2>7, GoingMoves
  <2>9. n \in Sink
    BY <1>5, Groups
  <2>. QED
    BY <2>1, <2>4, <2>8, <2>9, GoingAct
<1>6. CASE n \notin Effect /\ Top(r).op = "compute"
  <2>1. HasRead(r, val) = Return(r, val)
    BY <1>6 DEF HasRead
  <2>2. Moves(r, Return(r, val))
    BY MovesReturn, <1>6
  <2>3. Return(r, val).calls \in Seq(Frame)
    BY <1>1, <1>6, ReturnType
  <2>. QED
    BY <2>1, <2>2, <2>3, GoingMoves
<1>7. CASE n \notin Effect /\ Top(r).op = "condition" /\ val = True
  <2> DEFINE s == Firing(r, n)
  <2>1. HasRead(r, val) = Fire(r, n) /\ n \in When /\ n \in Sink
    BY <1>3, <1>7, Groups DEF HasRead
  <2>2. Fire(r, n) = Act(s, n, True) /\ True \in Value
    BY DEF Fire, Firing, Value
  <2>3. Sound(s, secret)
    BY <1>7, <2>1, FiringSound
  <2>4. FiresOnce(s, first, check)
    BY <1>7, <2>1, FiresFiring DEF Going
  <2>5. Restorable(s, old)
    BY <1>1, <2>1, FiringStates, SameRestorable DEF Going
  <2> HIDE DEF s
  <2>. QED
    BY <2>1, <2>2, <2>3, <2>4, <2>5, GoingAct DEF Going
<1>8. CASE n \notin Effect /\ Top(r).op = "condition" /\ val # True
  <2> DEFINE q == Pop(r)
             flag == r.triggered[n] /\ n \in Once
             s == [q EXCEPT !.triggered[n] = flag]
  <2>1. HasRead(r, val) = s /\ n \in When
    BY <1>3, <1>8, Groups DEF HasRead
  <2>2. Moves(r, q) /\ q \in ReactiveRuntime
    BY <1>1, <1>8, MovesPop
  <2>3. q.triggered = r.triggered
    BY <1>1 DEF Pop, ReactiveRuntime
  <2> HIDE DEF q, n
  <2>4. /\ s.calls = q.calls /\ s.crashed = q.crashed /\ s.fired = q.fired
        /\ s.triggered = [q.triggered EXCEPT ![n] = flag] /\ SameStates(q, s)
    BY <2>2 DEF SameStates, ReactiveRuntime
  <2>5. q.triggered \in [When -> BOOLEAN] /\ Once \subseteq When
    BY <2>2, FieldTypes, ClientAssumption
  <2>6. n \in Once => flag = r.triggered[n]
    BY <2>1, <2>3, <2>5
  <2> HIDE DEF flag, s
  <2>7. \A w \in Once : s.triggered[w] = q.triggered[w]
    BY <2>1, <2>3, <2>4, <2>5, <2>6
  <2>8. Moves(q, s)
    BY <2>4, <2>7, CalmSame DEF Moves
  <2>9. s.calls \in Seq(Frame)
    BY <2>2, <2>4, FieldTypes
  <2>. QED
    BY <2>1, <2>2, <2>8, <2>9, MovesChain, GoingMoves
<1>. QED
  BY <1>2, <1>4, <1>5, <1>6, <1>7, <1>8

LEMMA GoingTrack ==
  ASSUME NEW r, NEW secret, Sound(r, secret), NEW n \in State \cup Derived
  PROVE  Moves(r, Track(r, n))
<1>1. SameButLinks(r, Track(r, n))
  BY TrackSound
<1>. QED
  BY <1>1, MovesSame DEF SameButLinks, SameStates

LEMMA GoingReadNext ==
  ASSUME NEW r, NEW secret, Sound(r, secret), r.calls # <<>>,
         Top(r).op \in {"compute", "condition"},
         NEW old, NEW first, NEW check \in BOOLEAN, Going(r, old, first, check)
  PROVE  Going(ReadNext(r), old, first, check)
<1> DEFINE n == Top(r).node
           at == Top(r).at
           source == Reads[n][at]
           read == Track(r, source)
           val == r.value[source]
           s == ReadNext(r)
<1>1. r \in ReactiveRuntime
  BY DEF Sound, Typed
<1>2. source \in State \cup Derived
  BY SourceRead
<1>3. s = IF MustCompute(r, source) THEN Get(r, source)
          ELSE IF val = False \/ at = Len(Reads[n]) THEN HasRead(read, val)
          ELSE NextRound(read)
  BY DEF ReadNext
<1>4. Get(r, source) = IF MustCompute(read, source) THEN Recompute(read, source) ELSE read
  BY DEF Get
<1>5. s.calls \in Seq(Frame)
  <2>1. Sound(s, secret)
    BY ReadSound
  <2>. QED
    BY <2>1, FieldTypes DEF Sound, Typed
<1>6. val \in Value
  BY <1>1, <1>2, FieldTypes, Groups
<1> HIDE DEF source, s
<1>7. Sound(read, secret) /\ SameButLinks(r, read) /\ Moves(r, read)
  BY <1>2, TrackSound, GoingTrack
<1> HIDE DEF read, val, at
<1>8. read.calls = r.calls /\ Top(read) = Top(r) /\ read \in ReactiveRuntime
  BY <1>7 DEF SameButLinks, Top, Sound, Typed
<1>9. Going(read, old, first, check)
  <2>1. read.calls \in Seq(Frame)
    BY <1>8, FieldTypes
  <2>. QED
    BY <1>7, <2>1, GoingMoves
<1>10. CASE s = Recompute(read, source) /\ source \in Derived
  <2>1. Moves(read, s)
    BY <1>7, <1>10, MovesRecompute, Groups
  <2>. QED
    BY <1>5, <1>9, <2>1, GoingMoves DEF s
<1>11. CASE s = read
  BY <1>9, <1>11 DEF s
<1>12. CASE s = HasRead(read, val)
  BY <1>6, <1>7, <1>8, <1>9, <1>12, GoingHasRead DEF s
<1>13. CASE s = NextRound(read)
  <2>1. Moves(read, s)
    BY <1>8, <1>13, MovesNextRound
  <2>. QED
    BY <1>5, <1>9, <2>1, GoingMoves DEF s
<1>14. MustCompute(r, source) => source \in Derived
  BY DEF MustCompute
<1>. QED
  BY <1>3, <1>4, <1>10, <1>11, <1>12, <1>13, <1>14

LEMMA GoingPush ==
  ASSUME NEW r \in ReactiveRuntime, NEW c \in Frame,
         NEW old, NEW first, NEW check, Going(r, old, first, check),
         c.op = "triggers" => check \/ (r.calls # <<>> /\ Last(r.calls).op = "settle"),
         c.op = "condition" => (c.node \in Once => ~r.triggered[c.node])
  PROVE  Going(Push(r, c), old, first, check) /\ Push(r, c) \in ReactiveRuntime
<1>1. FiresOnce(Push(r, c), first, check)
  BY FiresPush DEF Going
<1>2. SameStates(r, Push(r, c))
  BY DEF Push, SameStates, ReactiveRuntime
<1>3. r.calls \in Seq(Frame)
  BY FieldTypes
<1>4. Append(r.calls, c) \in Seq(Frame)
  BY <1>3, PushElements
<1>5. Push(r, c) \in ReactiveRuntime
  BY <1>4 DEF Push, ReactiveRuntime
<1>. QED
  BY <1>1, <1>2, <1>5, SameRestorable DEF Going

LEMMA GoingPropagate ==
  ASSUME NEW r \in ReactiveRuntime,
         NEW old, NEW first, NEW check, Going(r, old, first, check)
  PROVE  Going(Propagate(r), old, first, check)
<1>1. CASE r.is_propagating
  BY <1>1 DEF Propagate
<1>2. CASE ~r.is_propagating
  <2> DEFINE q == [r EXCEPT !.is_propagating = TRUE]
             c == NewCall(r, "settle", Nowhere, <<>>)
             one == Push(q, c)
             e == NewCall(one, "triggers", Nowhere, <<>>)
             two == Push(one, e)
             d == NewCall(r, "drain", Nowhere, <<>>)
  <2>1. Propagate(r) = Push(two, d)
    BY <1>2 DEF Propagate, CheckTriggers
  <2>2. c \in Frame /\ c.op = "settle" /\ d \in Frame /\ d.op = "drain"
    BY PlainFrame
  <2>3. q \in ReactiveRuntime /\ q.calls = r.calls
    BY DEF ReactiveRuntime
  <2>4. Moves(r, q)
    <3>1. /\ q.crashed = r.crashed /\ q.fired = r.fired /\ q.triggered = r.triggered
          /\ SameStates(r, q)
      BY DEF SameStates, ReactiveRuntime
    <3>. QED
      BY <2>3, <3>1, MovesSame
  <2> HIDE DEF q, c, d
  <2>5. Going(q, old, first, check)
    BY <2>3, <2>4, FieldTypes, GoingMoves
  <2>6. Going(one, old, first, check) /\ one \in ReactiveRuntime
    BY <2>2, <2>3, <2>5, GoingPush
  <2>7. one.calls # <<>> /\ Last(one.calls) = c
    <3>1. one.calls = Append(q.calls, c) /\ q.calls \in Seq(Frame)
      BY <2>3, FieldTypes DEF Push, ReactiveRuntime
    <3>. QED
      BY <2>2, <3>1, PushElements
  <2> HIDE DEF one
  <2>8. e \in Frame /\ e.op = "triggers"
    BY <2>6, PlainFrame
  <2> HIDE DEF e
  <2>9. Going(two, old, first, check) /\ two \in ReactiveRuntime
    BY <2>2, <2>6, <2>7, <2>8, GoingPush
  <2> HIDE DEF two
  <2>10. Going(Push(two, d), old, first, check)
    BY <2>2, <2>9, GoingPush
  <2>. QED
    BY <2>1, <2>10
<1>. QED
  BY <1>1, <1>2

LEMMA GoingTriggersNext ==
  ASSUME NEW r, NEW secret, Sound(r, secret), r.calls # <<>>, Top(r).op = "triggers",
         NEW old, NEW first, NEW check, Going(r, old, first, check)
  PROVE  Going(TriggersNext(r), old, first, check)
<1> DEFINE w == Created[Top(r).at]
           q == NextRound(r)
           d == NewCall(r, "condition", w, <<>>)
<1>1. r \in ReactiveRuntime /\ r.calls \in Seq(Frame)
  BY FieldTypes DEF Sound, Typed
<1>2. Moves(r, q) /\ q \in ReactiveRuntime
  BY <1>1, MovesNextRound
<1>3. q.triggered = r.triggered /\ q.calls \in Seq(Frame)
  <2>1. q.triggered = r.triggered
    BY <1>1 DEF NextRound, Resume, Push, Pop, ReactiveRuntime
  <2>. QED
    BY <1>2, <2>1, FieldTypes
<1> HIDE DEF q
<1>4. Going(q, old, first, check)
  BY <1>2, <1>3, GoingMoves
<1>5. CASE Top(r).at > Len(Created)
  <2>1. TriggersNext(r) = Pop(r)
    BY <1>5 DEF TriggersNext
  <2>2. Moves(r, Pop(r)) /\ Pop(r) \in ReactiveRuntime
    BY <1>1, MovesPop
  <2>. QED
    BY <2>1, <2>2, FieldTypes, GoingMoves
<1>6. CASE TriggersNext(r) = q
  BY <1>4, <1>6
<1>7. CASE TriggersNext(r) = Crashed(r)
  <2> DEFINE s == Crashed(r)
  <2>1. /\ s.calls = <<>> /\ s.crashed = TRUE /\ s.fired = r.fired
        /\ s.triggered = r.triggered /\ SameStates(r, s)
    BY <1>1 DEF Crashed, SameStates, ReactiveRuntime
  <2> HIDE DEF s
  <2>2. DOMAIN s.calls = {}
    BY <2>1, EmptySeq
  <2>3. FiresOnce(s, first, check)
    BY <2>1, <2>2 DEF FiresOnce, Going
  <2>4. Going(s, old, first, check)
    BY <2>1, <2>3, SameRestorable DEF Going
  <2>. QED
    BY <1>7, <2>4 DEF s
<1>8. CASE TriggersNext(r) = Push(q, d) /\ w \in When \cup UserData /\ ~(w \in Once /\ r.triggered[w])
  <2>1. w \in Node
    BY <1>8, Groups, ClientAssumption
  <2>2. d \in Frame /\ d.op = "condition" /\ d.node = w
    <3>1. <<>> \in Seq(Computed) /\ r.computing \in Computed \cup {Nowhere}
      BY <1>1, FieldTypes, EmptySeq
    <3>. QED
      BY <2>1, <3>1 DEF NewCall, Frame
  <2> HIDE DEF d, w
  <2>3. Going(Push(q, d), old, first, check)
    BY <1>2, <1>3, <1>4, <1>8, <2>2, GoingPush
  <2>. QED
    BY <1>8, <2>3
<1>9. TriggersNext(r) = IF Top(r).at > Len(Created) THEN Pop(r)
         ELSE IF \/ w \notin When \cup UserData \/ w \in r.disposed
                 \/ (w \in Once /\ r.triggered[w])
           THEN q
         ELSE IF Reads[w] = <<>> THEN Crashed(r) ELSE Push(q, d)
  BY DEF TriggersNext, q
<1> HIDE DEF w, d
<1>. QED
  BY <1>5, <1>6, <1>7, <1>8, <1>9

LEMMA GoingStep ==
  ASSUME NEW r, NEW secret, Sound(r, secret), r.calls # <<>>,
         NEW old, NEW first, NEW check \in BOOLEAN, Going(r, old, first, check)
  PROVE  Going(Step(r), old, first, check)
<1> DEFINE s == Step(r)
<1>1. r \in ReactiveRuntime /\ r.calls \in Seq(Frame)
  BY FieldTypes DEF Sound, Typed
<1>2. Top(r).op \in {"invalidate", "announce", "propagate", "drain", "triggers", "settle",
         "compute", "return", "condition", "mark", "commit"}
  BY <1>1, TopFrame DEF Frame
<1>3. s.calls \in Seq(Frame)
  <2>1. Sound(s, secret)
    BY StepSound
  <2> HIDE DEF s
  <2>. QED
    BY <2>1, FieldTypes DEF Sound, Typed
<1>4. ASSUME Moves(r, s) PROVE Going(s, old, first, check)
  BY <1>3, <1>4, GoingMoves
<1>5. CASE Top(r).op = "invalidate"
  BY <1>1, <1>4, <1>5, MovesInvalidateNext DEF Step
<1>6. CASE Top(r).op = "announce"
  BY <1>1, <1>4, <1>6, MovesAnnounceNext DEF Step
<1>7. CASE Top(r).op = "propagate"
  <2>1. Moves(r, Pop(r)) /\ Pop(r) \in ReactiveRuntime
    BY <1>1, <1>7, MovesPop
  <2>2. Going(Pop(r), old, first, check)
    BY <2>1, FieldTypes, GoingMoves
  <2>3. s = Propagate(Pop(r))
    BY <1>7 DEF Step
  <2>. QED
    BY <2>1, <2>2, <2>3, GoingPropagate
<1>8. CASE Top(r).op = "drain"
  BY <1>4, <1>8, MovesDrainNext DEF Step
<1>9. CASE Top(r).op = "triggers"
  BY <1>9, GoingTriggersNext DEF Step
<1>10. CASE Top(r).op = "settle"
  <2> DEFINE q == Pop(r)
  <2>1. Moves(r, q) /\ q \in ReactiveRuntime
    BY <1>1, <1>10, MovesPop
  <2>2. s = [q EXCEPT !.is_propagating = FALSE]
    BY <1>10 DEF Step
  <2> HIDE DEF q, s
  <2>3. Moves(q, s)
    <3>1. /\ s.calls = q.calls /\ s.crashed = q.crashed /\ s.fired = q.fired
          /\ s.triggered = q.triggered /\ SameStates(q, s)
      BY <2>1, <2>2 DEF SameStates, ReactiveRuntime
    <3>. QED
      BY <3>1, MovesSame
  <2>4. Moves(r, s)
    BY <2>1, <2>3, MovesChain
  <2>. QED
    BY <1>4, <2>4 DEF s
<1>11. CASE Top(r).op \in {"compute", "condition"}
  BY <1>11, GoingReadNext DEF Step
<1>12. CASE Top(r).op = "return"
  <2>1. s = Return(r, Nil) /\ Nil \in Value
    BY <1>12 DEF Step, Value
  <2>. QED
    BY <1>4, <1>12, <2>1, MovesReturn
<1>13. CASE Top(r).op = "mark"
  <2>1. s = Mark(r)
    BY <1>13 DEF Step
  <2>2. FiresOnce(Mark(r), first, check)
    BY <1>13, FiresMark DEF Going
  <2>3. SameStates(r, Mark(r))
    BY <1>1 DEF Mark, Pop, SameStates, ReactiveRuntime
  <2>. QED
    BY <2>1, <2>2, <2>3, SameRestorable DEF Going
<1>14. CASE Top(r).op = "commit"
  <2> DEFINE q == Pop(r)
  <2>1. Moves(r, q) /\ q \in ReactiveRuntime
    BY <1>1, <1>14, MovesPop
  <2>2. s = [q EXCEPT !.changes = <<>>]
    BY <1>14 DEF Step
  <2>3. ~r.in_transaction
    <3>1. Len(r.calls) \in DOMAIN r.calls /\ Top(r) = r.calls[Len(r.calls)]
      BY <1>1, TopFrame
    <3>. QED
      BY <1>14, <3>1 DEF Sound, Accounted, Closing
  <2>4. q.in_transaction = r.in_transaction
    BY <1>1 DEF Pop, ReactiveRuntime
  <2> HIDE DEF q, s
  <2>5. Moves(q, s)
    <3>1. /\ s.calls = q.calls /\ s.crashed = q.crashed /\ s.fired = q.fired
          /\ s.triggered = q.triggered /\ SameStates(q, s)
      BY <2>1, <2>2, <2>3, <2>4 DEF SameStates, ReactiveRuntime
    <3>. QED
      BY <3>1, MovesSame
  <2>6. Moves(r, s)
    BY <2>1, <2>5, MovesChain
  <2>. QED
    BY <1>4, <2>6 DEF s
<1>. QED
  BY <1>2, <1>5, <1>6, <1>7, <1>8, <1>9, <1>10, <1>11, <1>12, <1>13, <1>14

(* A call.                                                                 *)
Runnable(r, secret, old, first, check) ==
  Sound(r, secret) /\ Going(r, old, first, check) /\ check \in BOOLEAN

LEMMA RunKeeps ==
  ASSUME NEW r, NEW secret, NEW old, NEW first, NEW check,
         Runnable(r, secret, old, first, check)
  PROVE  Runnable(Run256(r), secret, old, first, check)
<1>1. ASSUME NEW q, Runnable(q, secret, old, first, check)
      PROVE  Runnable(Run1(q), secret, old, first, check)
  BY <1>1, StepSound, GoingStep DEF Runnable, Run1, Over
<1>2. ASSUME NEW q, Runnable(q, secret, old, first, check)
      PROVE  Runnable(Run4(q), secret, old, first, check)
  BY <1>1, <1>2 DEF Run4, FourTimes
<1>3. ASSUME NEW q, Runnable(q, secret, old, first, check)
      PROVE  Runnable(Run16(q), secret, old, first, check)
  BY <1>2, <1>3 DEF Run16, FourTimes
<1>4. ASSUME NEW q, Runnable(q, secret, old, first, check)
      PROVE  Runnable(Run64(q), secret, old, first, check)
  BY <1>3, <1>4 DEF Run64, FourTimes
<1>. QED
  BY <1>4 DEF Run256, FourTimes

-----------------------------------------------------------------------------
(* Between two calls of the client.                                        *)

RuntimeInv ==
  /\ Sound(rt, unannounced)
  /\ rt.calls = <<>>
  /\ Restorable(rt, saved)
  /\ saved \in [State -> Value] /\ unannounced \subseteq State
  /\ ~rt.crashed => \A w \in Once : rt.fired[w] > 0 => rt.triggered[w]

LEMMA EmptyStack == Stacked(<<>>, Nowhere) /\ DOMAIN <<>> = {} /\ <<>> \in Seq(Frame)
<1>1. <<>> \in Seq(Frame) /\ DOMAIN <<>> = {} /\ Len(<<>>) = 0
  BY EmptySeq
<1>2. 1 .. Len(<<>>) - 1 = {}
  BY <1>1
<1>. QED
  BY <1>1, <1>2 DEF Stacked

LEMMA RuntimeInit ==
  ASSUME Init
  PROVE  RuntimeInv
<1>1. /\ <<>> \in Seq(State \cup Derived) /\ <<>> \in Seq(Computed) /\ <<>> \in Seq(State)
      /\ <<>> \in Seq(Frame) /\ DOMAIN <<>> = {} /\ Len(<<>>) = 0
  BY EmptySeq
<1>2. /\ rt.value = [n \in Node |-> IF n \in State THEN False ELSE Nil]
      /\ rt.prev_value = [x \in State |-> False]
      /\ rt.state = [n \in Node |-> IF n \in State THEN "clean" ELSE "dirty"]
      /\ rt.deps = [n \in Node |-> <<>>] /\ rt.dependents = [n \in Node |-> <<>>]
      /\ rt.disposed = {} /\ rt.triggered = [w \in When |-> FALSE]
      /\ rt.fired = [w \in When |-> 0] /\ rt.seen = [e \in Effect |-> Nil]
      /\ rt.ran = {} /\ rt.missed = {} /\ rt.crashed = FALSE /\ rt.queue = <<>> /\ rt.computing = Nowhere
      /\ rt.is_propagating = FALSE /\ rt.in_transaction = FALSE /\ rt.changes = <<>>
      /\ rt.calls = <<>> /\ saved = NotSaved /\ unannounced = {}
  BY DEF Init
<1>3. rt \in ReactiveRuntime
  <2>1. /\ [n \in Node |-> IF n \in State THEN False ELSE Nil] \in [Node -> Value]
        /\ [x \in State |-> False] \in [State -> Value]
        /\ [n \in Node |-> IF n \in State THEN "clean" ELSE "dirty"]
             \in [Node -> {"clean", "dirty", "computing"}]
        /\ [e \in Effect |-> Nil] \in [Effect -> Value]
    BY DEF Value
  <2>2. /\ [n \in Node |-> <<>>] \in [Node -> Seq(State \cup Derived)]
        /\ [n \in Node |-> <<>>] \in [Node -> Seq(Computed)]
        /\ [w \in When |-> FALSE] \in [When -> BOOLEAN]
        /\ [w \in When |-> 0] \in [When -> 0 .. 2]
    BY <1>1
  <2>. QED
    BY <1>1, <2>1, <2>2 DEF Init, ReactiveRuntime
<1>4. Typed(rt)
  BY <1>1, <1>2, <1>3, BoundAssumption DEF Typed
<1>5. Linked(rt.deps, rt.dependents)
  <2>1. IsInjective(<<>>) /\ ToSet(<<>>) = {}
    BY <1>1 DEF IsInjective, ToSet
  <2>. QED
    BY <1>2, <2>1 DEF Linked
<1>6. Stacked(rt.calls, rt.computing)
  BY <1>2, EmptyStack
<1>7. Accounted(rt)
  <2>1. \A n \in Node : rt.state[n] # "computing"
    BY <1>2
  <2>. QED
    BY <1>1, <1>2, <2>1 DEF Accounted, Due, Settling, Closing
<1>8. Derivation(rt.calls, rt.deps, rt.state, rt.value,
                 Untold(rt.calls, rt.in_transaction, rt.changes, unannounced))
  <2>1. \A x \in State : rt.state[x] = "clean"
    BY <1>2, Groups
  <2>2. \A d \in Derived : rt.state[d] # "clean"
    BY <1>2, Groups
  <2>. QED
    BY <1>1, <1>2, <2>1, <2>2 DEF Derivation
<1>9. Restorable(rt, saved)
  BY <1>2 DEF Restorable
<1>10. saved \in [State -> Value]
  BY <1>2 DEF NotSaved, Value
<1>11. \A w \in Once : rt.fired[w] = 0
  BY <1>2, ClientAssumption
<1>. QED
  BY <1>2, <1>4, <1>5, <1>6, <1>7, <1>8, <1>9, <1>10, <1>11 DEF RuntimeInv, Sound

(* A call may begin.                                                       *)
LEMMA Begins ==
  ASSUME RuntimeInv, ~rt.crashed, NEW check \in BOOLEAN
  PROVE  /\ Runnable(rt, unannounced, saved, rt.fired, check)
         /\ rt \in ReactiveRuntime /\ Free(rt) /\ rt.computing = Nowhere
         /\ rt.calls = <<>> /\ rt.fired \in [When -> 0 .. 2] /\ Once \subseteq When
<1>1. rt \in ReactiveRuntime /\ rt.calls = <<>> /\ DOMAIN rt.calls = {}
  BY EmptyStack DEF RuntimeInv, Sound, Typed
<1>2. rt.computing = Nowhere
  BY <1>1 DEF RuntimeInv, Sound, Stacked
<1>3. Free(rt)
  BY <1>1 DEF Free
<1>4. FiresOnce(rt, rt.fired, check)
  BY <1>1 DEF FiresOnce, RuntimeInv
<1>5. rt.fired \in [When -> 0 .. 2]
  BY <1>1, FieldTypes
<1>. QED
  BY <1>1, <1>2, <1>3, <1>4, <1>5, ClientAssumption DEF Runnable, Going, RuntimeInv

(* What a call does to the when blocks that fire once.                     *)
FiredOnce(first, fired, check) ==
  \A w \in Once : fired[w] # first[w] => first[w] = 0 /\ (fired[w] = 1 \/ check)

LEMMA CallEnds ==
  ASSUME NEW q, NEW secret, NEW old, NEW first, first \in [When -> 0 .. 2], NEW check,
         Runnable(q, secret, old, first, check), NEW s, s = Run256(q), s.calls = <<>>
  PROVE  /\ Sound(s, secret) /\ Restorable(s, old)
         /\ ~s.crashed => \A w \in Once : s.fired[w] > 0 => s.triggered[w]
         /\ FiredOnce(first, s.fired, check)
<1>1. Runnable(s, secret, old, first, check)
  BY RunKeeps
<1>2. DOMAIN s.calls = {}
  BY EmptyStack
<1>3. \A w \in Once : first[w] \in 0 .. 2
  BY ClientAssumption
<1>4. FiresOnce(s, first, check)
  BY <1>1 DEF Runnable, Going
<1>5. ASSUME NEW w \in Once, s.fired[w] # first[w]
      PROVE  first[w] = 0 /\ (s.fired[w] = 1 \/ check)
  <2>1. ~(first[w] > 0)
    BY <1>4, <1>5 DEF FiresOnce
  <2>2. first[w] = 0
    BY <1>3, <2>1
  <2>3. ~check => s.fired[w] = 1
    BY <1>4, <1>5 DEF FiresOnce
  <2>. QED
    BY <2>2, <2>3
<1>. QED
  BY <1>1, <1>2, <1>4, <1>5 DEF Runnable, Going, FiresOnce, FiredOnce

(* A call that is over.                                                    *)
LEMMA CallKeeps ==
  ASSUME RuntimeInv, ~rt.crashed, NEW q, NEW check,
         Runnable(q, unannounced', saved', rt.fired, check), Runs(q),
         saved' \in [State -> Value], unannounced' \subseteq State
  PROVE  RuntimeInv' /\ FiredOnce(rt.fired, rt'.fired, check)
<1>1. rt.fired \in [When -> 0 .. 2]
  BY Begins
<1>2. rt' = Run256(q) /\ rt'.calls = <<>>
  BY DEF Runs, Over
<1>3. /\ Sound(rt', unannounced') /\ Restorable(rt', saved')
      /\ ~rt'.crashed => \A w \in Once : rt'.fired[w] > 0 => rt'.triggered[w]
      /\ FiredOnce(rt.fired, rt'.fired, check)
  BY <1>1, <1>2, CallEnds
<1>. QED
  BY <1>2, <1>3 DEF RuntimeInv

(* A call that takes no steps.                                             *)
LEMMA StillKeeps ==
  ASSUME RuntimeInv, ~rt.crashed, Sound(rt', unannounced'), rt'.calls = <<>>,
         Restorable(rt', saved'), rt'.fired = rt.fired, rt'.triggered = rt.triggered,
         saved' \in [State -> Value], unannounced' \subseteq State
  PROVE  RuntimeInv' /\ FiredOnce(rt.fired, rt'.fired, FALSE)
BY DEF RuntimeInv, FiredOnce

-----------------------------------------------------------------------------
(* The API.                                                                *)

LEMMA SetKeeps ==
  ASSUME RuntimeInv, ~rt.crashed, NEW x \in State, NEW val \in {False, True}, Set(x, val)
  PROVE  RuntimeInv' /\ FiredOnce(rt.fired, rt'.fired, FALSE)
<1> DEFINE q == SetValue(rt, x, val)
           hidden == IF rt.value[x] = val \/ rt.in_transaction THEN unannounced
                     ELSE unannounced \ {x}
<1>1. Runnable(rt, unannounced, saved, rt.fired, FALSE) /\ Free(rt)
  BY Begins
<1>2. val \in Value
  BY DEF Value
<1>3. hidden = unannounced \/ (hidden = unannounced \ {x} /\ ~rt.in_transaction /\ rt.value[x] # val)
  OBVIOUS
<1>4. unannounced' = hidden /\ saved' = saved /\ Runs(q)
  BY DEF Set
<1> HIDE DEF hidden, q
<1>5. Sound(q, hidden)
  BY <1>1, <1>2, <1>3, SetValueSound DEF Runnable, q
<1>6. Going(q, saved, rt.fired, FALSE)
  BY <1>1, <1>2, GoingSet DEF Runnable, q
<1>7. Runnable(q, unannounced', saved', rt.fired, FALSE)
  BY <1>4, <1>5, <1>6 DEF Runnable
<1>8. saved' \in [State -> Value] /\ unannounced' \subseteq State
  BY <1>3, <1>4 DEF RuntimeInv
<1>. QED
  BY <1>4, <1>7, <1>8, CallKeeps

(* A computation may begin when nothing runs.                              *)
LEMMA RecomputeRunnable ==
  ASSUME RuntimeInv, ~rt.crashed, NEW n \in Computed, n \in Derived => rt.state[n] = "dirty"
  PROVE  Runnable(Recompute(rt, n), unannounced, saved, rt.fired, FALSE)
<1> DEFINE c == NewCall(rt, "compute", n, <<>>)
           q == Recompute(rt, n)
<1>1. Runnable(rt, unannounced, saved, rt.fired, FALSE) /\ rt.calls = <<>>
  BY Begins
<1>2. c.op = "compute"
  BY DEF NewCall
<1> HIDE DEF c
<1>3. Fits(c, rt.calls)
  BY <1>1, <1>2 DEF Fits
<1>4. Sound(q, unannounced)
  BY <1>1, <1>3, RecomputeSound DEF Runnable, c
<1>5. Moves(rt, q)
  BY <1>1, MovesRecompute DEF Runnable
<1> HIDE DEF q
<1>6. q.calls \in Seq(Frame)
  BY <1>4, FieldTypes DEF Sound, Typed
<1>7. Going(q, saved, rt.fired, FALSE)
  BY <1>1, <1>5, <1>6, GoingMoves DEF Runnable
<1>. QED
  BY <1>4, <1>7 DEF Runnable, q

LEMMA ReadKeeps ==
  ASSUME RuntimeInv, ~rt.crashed, NEW d \in Derived, Read(d)
  PROVE  RuntimeInv' /\ FiredOnce(rt.fired, rt'.fired, FALSE)
<1>1. Runnable(rt, unannounced, saved, rt.fired, FALSE) /\ rt.computing = Nowhere
  BY Begins
<1>2. Track(rt, d) = rt
  BY <1>1 DEF Track
<1>3. Runnable(Get(rt, d), unannounced, saved, rt.fired, FALSE)
  <2>1. CASE MustCompute(rt, d)
    BY <1>2, <2>1, RecomputeRunnable, Groups DEF Get, MustCompute
  <2>2. CASE ~MustCompute(rt, d)
    BY <1>1, <1>2, <2>2 DEF Get
  <2>. QED
    BY <2>1, <2>2
<1>4. Runs(Get(rt, d)) /\ saved' = saved /\ unannounced' = unannounced
  BY DEF Read
<1>. QED
  BY <1>3, <1>4, CallKeeps DEF RuntimeInv

LEMMA RecomputeKeeps ==
  ASSUME RuntimeInv, ~rt.crashed, NEW e \in Effect, RecomputeNow(e)
  PROVE  RuntimeInv' /\ FiredOnce(rt.fired, rt'.fired, FALSE)
<1>1. e \in Computed /\ e \notin Derived
  BY Groups
<1>2. Runnable(Recompute(rt, e), unannounced, saved, rt.fired, FALSE)
  BY <1>1, RecomputeRunnable
<1>3. Runs(Recompute(rt, e)) /\ saved' = saved /\ unannounced' = unannounced
  BY DEF RecomputeNow
<1>. QED
  BY <1>2, <1>3, CallKeeps DEF RuntimeInv

LEMMA DeclareKeeps ==
  ASSUME RuntimeInv, ~rt.crashed, NEW e \in Effect, Declare(e)
  PROVE  RuntimeInv' /\ FiredOnce(rt.fired, rt'.fired, FALSE)
<1>1. Sound(rt, unannounced) /\ e \in Computed
  BY Groups DEF RuntimeInv
<1>2. Reads[e] # <<>> /\ rt' = AddDep(rt, e, Reads[e][1])
      /\ saved' = saved /\ unannounced' = unannounced
  BY DEF Declare
<1>3. Reads[e][1] \in State \cup Derived
  <2>1. Reads[e] \in Seq(State \cup Derived) /\ Len(Reads[e]) \in Nat
        /\ \A k \in 1 .. Len(Reads[e]) : Reads[e][k] \in State \cup Derived
    BY <1>1, SourceType
  <2>2. Len(Reads[e]) # 0
    BY <1>2, <2>1, EmptySeq
  <2>. QED
    BY <2>1, <2>2
<1>4. Sound(rt', unannounced') /\ SameButLinks(rt, rt')
  BY <1>1, <1>2, <1>3, AddDepSound
<1>5. SameStates(rt, rt')
  BY <1>4 DEF SameStates, SameButLinks
<1>6. Restorable(rt', saved')
  BY <1>2, <1>5, SameRestorable DEF RuntimeInv
<1>. QED
  BY <1>2, <1>4, <1>6, StillKeeps DEF RuntimeInv, SameButLinks

LEMMA CheckKeeps ==
  ASSUME RuntimeInv, ~rt.crashed, Check
  PROVE  RuntimeInv' /\ FiredOnce(rt.fired, rt'.fired, TRUE)
<1> DEFINE c == NewCall(rt, "triggers", Nowhere, <<>>)
           q == Push(rt, c)
<1>1. Runnable(rt, unannounced, saved, rt.fired, TRUE) /\ Free(rt) /\ rt \in ReactiveRuntime
  BY Begins
<1>2. Runs(q) /\ saved' = saved /\ unannounced' = unannounced
  BY DEF Check, CheckTriggers
<1>3. c \in Frame /\ c.op = "triggers"
  BY <1>1, PlainFrame
<1>4. Sound(q, unannounced)
  BY <1>1, PlainSound DEF Runnable
<1> HIDE DEF c
<1>5. Going(q, saved, rt.fired, TRUE)
  BY <1>1, <1>3, GoingPush DEF Runnable
<1> HIDE DEF q
<1>6. Runnable(q, unannounced, saved, rt.fired, TRUE)
  BY <1>4, <1>5 DEF Runnable
<1>. QED
  BY <1>2, <1>6, CallKeeps DEF RuntimeInv

LEMMA PollKeeps ==
  ASSUME RuntimeInv, ~rt.crashed, Poll
  PROVE  RuntimeInv' /\ FiredOnce(rt.fired, rt'.fired, FALSE)
<1> DEFINE q == Propagate(rt)
<1>1. Runnable(rt, unannounced, saved, rt.fired, FALSE) /\ Free(rt) /\ rt \in ReactiveRuntime
  BY Begins
<1>2. Runs(q) /\ saved' = saved /\ unannounced' = unannounced
  BY DEF Poll
<1>3. Sound(q, unannounced) /\ Going(q, saved, rt.fired, FALSE)
  BY <1>1, PropagateSound, GoingPropagate DEF Runnable
<1> HIDE DEF q
<1>4. Runnable(q, unannounced, saved, rt.fired, FALSE)
  BY <1>3 DEF Runnable
<1>. QED
  BY <1>2, <1>4, CallKeeps DEF RuntimeInv

(* A node that nobody reads is taken out of the graph.                     *)
LEMMA ClearSound ==
  ASSUME NEW r, NEW secret, Sound(r, secret), r.calls = <<>>, NEW n \in Sink
  PROVE  Sound(ClearDeps(r, n), secret) /\ SameButLinks(r, ClearDeps(r, n))
<1> DEFINE s == ClearDeps(r, n)
           untold == Untold(r.calls, r.in_transaction, r.changes, secret)
<1>1. r \in ReactiveRuntime /\ n \in Computed
  BY Groups DEF Sound, Typed
<1>2. /\ s \in ReactiveRuntime /\ Linked(s.deps, s.dependents) /\ SameButLinks(r, s)
      /\ \A m \in Node : m # n => s.deps[m] = r.deps[m]
  BY <1>1, LinksCleared DEF Sound
<1> HIDE DEF s
<1>3. Typed(s) /\ Accounted(s) /\ Stacked(s.calls, s.computing)
  BY <1>2 DEF Sound, Typed, Accounted, SameButLinks
<1>4. Derivation(r.calls, r.deps, r.state, r.value, untold)
  BY DEF Sound
<1> HIDE DEF untold
<1>5. Elsewhere(n, r.deps, r.state, s.deps, r.state)
  BY <1>1, <1>2 DEF Elsewhere, Unrelied
<1>6. ASSUME NEW d \in Derived, r.state[d] = "clean", d \notin Pending(r.calls)
      PROVE  Supported(d, s.deps, r.state, r.value, untold)
  <2>1. d # n /\ d \in Computed
    BY Groups
  <2>2. PICK k \in DOMAIN Reads[d] : Relies(d, k, r.deps, r.state) /\ Holds(d, k, r.value, untold)
    BY <1>4, <1>6 DEF Derivation, Supported
  <2>3. k \in Nat /\ k <= Len(Reads[d])
    BY <2>1, SourceType
  <2>4. Relies(d, k, s.deps, r.state)
    BY <1>5, <2>1, <2>2, <2>3, RelyElsewhere
  <2>. QED
    BY <2>2, <2>4 DEF Supported
<1>7. Derivation(r.calls, s.deps, r.state, r.value, untold)
  <2>1. DOMAIN r.calls = {}
    BY EmptyStack
  <2>. QED
    BY <1>4, <1>6, <2>1 DEF Derivation
<1>. QED
  BY <1>2, <1>3, <1>7 DEF Sound, SameButLinks, s, untold

LEMMA DisposeKeeps ==
  ASSUME RuntimeInv, ~rt.crashed, NEW n \in Sink, Dispose(n)
  PROVE  RuntimeInv' /\ FiredOnce(rt.fired, rt'.fired, FALSE)
<1> DEFINE q == [rt EXCEPT !.disposed = rt.disposed \cup {n}]
<1>1. Sound(rt, unannounced) /\ rt \in ReactiveRuntime /\ Len(rt.queue) <= BatchSize
      /\ rt.calls = <<>>
  BY DEF RuntimeInv, Sound, Typed
<1>2. rt.disposed \cup {n} \in SUBSET Sink
  BY <1>1, FieldTypes
<1>3. q \in ReactiveRuntime /\ SameCore(rt, q) /\ q.queue = rt.queue /\ q.fired = rt.fired
      /\ q.triggered = rt.triggered /\ q.prev_value = rt.prev_value /\ q.calls = <<>>
  BY <1>1, <1>2 DEF SameCore, ReactiveRuntime
<1>4. rt' = ClearDeps(q, n) /\ saved' = saved /\ unannounced' = unannounced
  BY DEF Dispose
<1> HIDE DEF q
<1>5. Sound(q, unannounced)
  BY <1>1, <1>3, SameSound
<1>6. Sound(rt', unannounced) /\ SameButLinks(q, rt')
  BY <1>3, <1>4, <1>5, ClearSound
<1>7. /\ rt'.calls = <<>> /\ rt'.fired = rt.fired /\ rt'.triggered = rt.triggered
      /\ SameStates(rt, rt')
  BY <1>3, <1>6 DEF SameButLinks, SameCore, SameStates
<1>8. Restorable(rt', saved)
  BY <1>7, SameRestorable DEF RuntimeInv
<1>. QED
  BY <1>4, <1>6, <1>7, <1>8, StillKeeps DEF RuntimeInv

LEMMA BeginKeeps ==
  ASSUME RuntimeInv, ~rt.crashed, Begin
  PROVE  RuntimeInv' /\ FiredOnce(rt.fired, rt'.fired, FALSE)
<1> DEFINE hidden == unannounced \cup ToSet(rt.changes)
<1>1. Sound(rt, unannounced) /\ rt \in ReactiveRuntime /\ rt.calls = <<>>
  BY DEF RuntimeInv, Sound, Typed
<1>2. <<>> \in Seq(State) /\ DOMAIN <<>> = {} /\ ToSet(<<>>) = {}
  BY EmptySeq DEF ToSet
<1>3. /\ rt' = [rt EXCEPT !.in_transaction = TRUE, !.changes = <<>>]
      /\ saved' = [x \in State |-> rt.value[x]] /\ unannounced' = hidden
  BY DEF Begin
<1>4. /\ rt' \in ReactiveRuntime /\ rt'.calls = <<>> /\ rt'.changes = <<>>
      /\ rt'.in_transaction = TRUE /\ rt'.queue = rt.queue /\ rt'.deps = rt.deps
      /\ rt'.dependents = rt.dependents /\ rt'.computing = rt.computing
      /\ rt'.crashed = rt.crashed /\ rt'.state = rt.state /\ rt'.value = rt.value
      /\ rt'.is_propagating = rt.is_propagating /\ rt'.fired = rt.fired
      /\ rt'.triggered = rt.triggered
  BY <1>1, <1>2, <1>3 DEF ReactiveRuntime
<1>5. Typed(rt')
  BY <1>1, <1>4 DEF Sound, Typed
<1>6. Accounted(rt')
  BY <1>1, <1>2, <1>4 DEF Sound, Accounted, Closing
<1>7. Derivation(rt.calls, rt.deps, rt.state, rt.value,
                 Untold(<<>>, TRUE, <<>>, hidden))
  <2>1. Untold(rt.calls, rt.in_transaction, rt.changes, unannounced)
          \subseteq Untold(<<>>, TRUE, <<>>, hidden)
    BY DEF Untold, ToSet
  <2>2. DOMAIN rt.calls = {}
    BY <1>1, <1>2
  <2>. QED
    BY <1>1, <2>1, <2>2, DerivationGrows DEF Sound
<1>8. Sound(rt', hidden)
  BY <1>1, <1>4, <1>5, <1>6, <1>7 DEF Sound
<1>9. saved' \in [State -> Value] /\ hidden \subseteq State
  <2>1. ToSet(rt.changes) \subseteq State
    <3>1. rt.changes \in Seq(State) /\ DOMAIN rt.changes = 1 .. Len(rt.changes)
      BY <1>1, FieldTypes, LenProperties
    <3>. QED
      BY <3>1, ElementOfSeq DEF ToSet
  <2>2. rt.value \in [Node -> Value]
    BY <1>1, FieldTypes
  <2>. QED
    BY <1>3, <2>1, <2>2, Groups DEF RuntimeInv
<1>10. Restorable(rt', saved')
  BY <1>2, <1>3, <1>4 DEF Restorable
<1>. QED
  BY <1>3, <1>4, <1>8, <1>9, <1>10, StillKeeps

(* Who knows of a change is a matter of words.                             *)
LEMMA SecretSound ==
  ASSUME NEW r, NEW secret, Sound(r, secret), NEW hidden,
         Untold(r.calls, r.in_transaction, r.changes, secret)
           \subseteq Untold(r.calls, r.in_transaction, r.changes, hidden)
  PROVE  Sound(r, hidden)
<1>1. Derivation(r.calls, r.deps, r.state, r.value,
                 Untold(r.calls, r.in_transaction, r.changes, hidden))
  <2>1. Derivation(r.calls, r.deps, r.state, r.value,
                   Untold(r.calls, r.in_transaction, r.changes, secret))
    BY DEF Sound
  <2>2. \A k \in DOMAIN r.calls :
          Deriving(r.calls[k]) => Progress(r.calls[k], r.deps, r.state, r.value)
    BY <2>1 DEF Derivation
  <2>. QED
    BY <2>1, <2>2, DerivationGrows
<1>. QED
  BY <1>1 DEF Sound

(* One of the frames that reactive_transaction_commit begins with.         *)
Opens(r, q, s, op, secret, old, first, check) ==
  /\ Sound(r, secret) /\ Free(r) /\ ~r.in_transaction /\ Going(r, old, first, check)
  /\ op \in {"commit", "propagate", "announce"}
  /\ q.computing = r.computing
  /\ s = Push(r, NewCall(q, op, Nowhere, <<>>))

LEMMA OpenPush ==
  ASSUME NEW r, NEW q, NEW s, NEW op, NEW secret, NEW old, NEW first, NEW check,
         Opens(r, q, s, op, secret, old, first, check)
  PROVE  /\ Sound(s, secret) /\ Going(s, old, first, check)
         /\ op # "announce" => Free(s)
         /\ ~s.in_transaction /\ s.computing = r.computing /\ s.changes = r.changes
         /\ s.calls # <<>> /\ Last(s.calls).op = op /\ Last(s.calls).at = 1
         /\ Len(s.calls) \in DOMAIN s.calls /\ s.calls[Len(s.calls)] = Last(s.calls)
<1> DEFINE c == NewCall(r, op, Nowhere, <<>>)
<1>0. /\ Sound(r, secret) /\ Free(r) /\ ~r.in_transaction /\ Going(r, old, first, check)
      /\ op \in {"commit", "propagate", "announce"} /\ q.computing = r.computing
  BY DEF Opens
<1>1. r \in ReactiveRuntime /\ ~r.crashed
  BY <1>0 DEF Sound, Typed, Free
<1>2. c \in Frame /\ c.op = op /\ c.at = 1
  BY <1>0, <1>1, PlainFrame
<1>3. s = Push(r, c)
  BY <1>0 DEF NewCall, Opens
<1>4. Sound(s, secret)
  <2>1. Sound(Push(r, c), secret)
    BY <1>0, PlainSound
  <2>. QED
    BY <1>3, <2>1
<1> HIDE DEF c
<1>5. Going(s, old, first, check)
  BY <1>0, <1>1, <1>2, <1>3, GoingPush
<1>6. s.in_transaction = r.in_transaction /\ s.computing = r.computing /\ s.changes = r.changes
      /\ s.calls = Append(r.calls, c) /\ s.crashed = r.crashed
  BY <1>1, <1>3 DEF Push, ReactiveRuntime
<1>7. r.calls \in Seq(Frame)
  BY <1>1, FieldTypes
<1>8. s.calls # <<>> /\ Last(s.calls) = c /\ s.calls \in Seq(Frame)
  BY <1>2, <1>6, <1>7, PushElements
<1>9. Len(s.calls) \in DOMAIN s.calls /\ s.calls[Len(s.calls)] = Last(s.calls)
  BY <1>8, FrontElements
<1>10. op # "announce" => Free(s)
  BY <1>0, <1>1, <1>2, <1>6, <1>8 DEF Free, Reading, Deriving
<1>. QED
  BY <1>0, <1>2, <1>4, <1>5, <1>6, <1>8, <1>9, <1>10

LEMMA CommitKeeps ==
  ASSUME RuntimeInv, ~rt.crashed, Commit
  PROVE  RuntimeInv' /\ FiredOnce(rt.fired, rt'.fired, FALSE)
<1> DEFINE hidden == unannounced \cup ToSet(rt.changes)
           open == [rt EXCEPT !.in_transaction = FALSE]
           one == Push(open, NewCall(open, "commit", Nowhere, <<>>))
           two == Push(one, NewCall(open, "propagate", Nowhere, <<>>))
           s == Push(two, NewCall(open, "announce", Nowhere, <<>>))
<1>1. /\ Sound(rt, unannounced) /\ rt \in ReactiveRuntime /\ rt.calls = <<>> /\ rt.in_transaction
      /\ DOMAIN rt.calls = {}
  BY EmptyStack DEF RuntimeInv, Sound, Typed, Commit
<1>2. Runs(s) /\ saved' = NotSaved /\ unannounced' = unannounced \ ToSet(rt.changes)
  BY DEF Commit
<1>3. /\ open \in ReactiveRuntime /\ open.calls = <<>> /\ open.changes = rt.changes
      /\ open.in_transaction = FALSE /\ open.queue = rt.queue /\ open.deps = rt.deps
      /\ open.dependents = rt.dependents /\ open.computing = rt.computing
      /\ open.crashed = rt.crashed /\ open.state = rt.state /\ open.value = rt.value
      /\ open.is_propagating = rt.is_propagating /\ open.fired = rt.fired
      /\ open.triggered = rt.triggered
  BY <1>1 DEF ReactiveRuntime
<1> HIDE DEF open
<1>4. Sound(open, hidden)
  <2>1. Typed(open) /\ Accounted(open)
    BY <1>1, <1>3 DEF Sound, Typed, Accounted
  <2>2. Derivation(rt.calls, rt.deps, rt.state, rt.value,
                   Untold(rt.calls, FALSE, rt.changes, hidden))
    <3>1. Untold(rt.calls, rt.in_transaction, rt.changes, unannounced)
            \subseteq Untold(rt.calls, FALSE, rt.changes, hidden)
      BY DEF Untold, ToSet
    <3> DEFINE few  == Untold(rt.calls, rt.in_transaction, rt.changes, unannounced)
               more == Untold(rt.calls, FALSE, rt.changes, hidden)
    <3>2. Derivation(rt.calls, rt.deps, rt.state, rt.value, few)
      BY <1>1 DEF Sound
    <3>3. \A k \in DOMAIN rt.calls :
            Deriving(rt.calls[k]) => Progress(rt.calls[k], rt.deps, rt.state, rt.value)
      BY <1>1
    <3>4. few \subseteq more
      BY <3>1
    <3> HIDE DEF few, more
    <3>5. Derivation(rt.calls, rt.deps, rt.state, rt.value, more)
      BY <3>2, <3>3, <3>4, DerivationGrows
    <3>. QED
      BY <3>5 DEF more
  <2>. QED
    BY <1>1, <1>3, <2>1, <2>2 DEF Sound
<1>5. Free(open)
  BY <1>3 DEF Free
<1>6. Going(open, NotSaved, rt.fired, FALSE)
  <2>1. Restorable(open, NotSaved)
    BY <1>3 DEF Restorable
  <2>2. Calm(rt, open)
    BY <1>1, <1>3, CalmSame
  <2>3. FiresOnce(rt, rt.fired, FALSE)
    BY Begins DEF Runnable, Going
  <2>4. FiresOnce(open, rt.fired, FALSE)
    BY <1>3, <2>2, <2>3, CalmFires, EmptyStack
  <2>. QED
    BY <2>1, <2>4 DEF Going
<1> HIDE DEF hidden
<1> DEFINE no == FALSE
<1>7. Opens(open, open, one, "commit", hidden, NotSaved, rt.fired, no)
  BY <1>3, <1>4, <1>5, <1>6 DEF Opens
<1> HIDE DEF one, no
<1>8. Opens(one, open, two, "propagate", hidden, NotSaved, rt.fired, no)
  <2>1. /\ Sound(one, hidden) /\ Going(one, NotSaved, rt.fired, no) /\ Free(one)
        /\ ~one.in_transaction /\ one.computing = open.computing /\ one.changes = open.changes
    BY <1>7, OpenPush
  <2>. QED
    BY <2>1 DEF Opens
<1> HIDE DEF two
<1>9. /\ Sound(s, hidden) /\ Going(s, NotSaved, rt.fired, FALSE)
      /\ s.changes = open.changes
      /\ \E k \in DOMAIN s.calls : s.calls[k].op = "announce" /\ s.calls[k].at = 1
  <2>1. one.computing = open.computing /\ one.changes = open.changes
    BY <1>7, OpenPush
  <2>2. /\ Sound(two, hidden) /\ Going(two, NotSaved, rt.fired, no) /\ Free(two)
        /\ ~two.in_transaction /\ two.computing = one.computing /\ two.changes = one.changes
    BY <1>8, OpenPush
  <2>3. Opens(two, open, s, "announce", hidden, NotSaved, rt.fired, no)
    BY <2>1, <2>2 DEF Opens
  <2> HIDE DEF s
  <2>4. /\ Sound(s, hidden) /\ Going(s, NotSaved, rt.fired, no)
        /\ s.changes = two.changes /\ Last(s.calls).op = "announce" /\ Last(s.calls).at = 1
        /\ Len(s.calls) \in DOMAIN s.calls /\ s.calls[Len(s.calls)] = Last(s.calls)
    BY <2>3, OpenPush
  <2>. QED
    BY <2>1, <2>2, <2>4 DEF no
<1> HIDE DEF s
<1>10. Untold(s.calls, s.in_transaction, s.changes, hidden)
         \subseteq Untold(s.calls, s.in_transaction, s.changes, unannounced')
  <2>1. ASSUME NEW x \in Untold(s.calls, s.in_transaction, s.changes, hidden)
        PROVE  x \in Untold(s.calls, s.in_transaction, s.changes, unannounced')
    <3>1. CASE x \in ToSet(rt.changes)
      <4>1. PICK i \in DOMAIN rt.changes : rt.changes[i] = x
        BY <3>1 DEF ToSet
      <4>2. i \in Nat \ {0}
        <5>1. rt.changes \in Seq(State)
          BY <1>1, FieldTypes
        <5>. QED
          BY <5>1, LenProperties
      <4>3. Open(s.calls, s.in_transaction, i)
        BY <1>9, <4>2 DEF Open
      <4>. QED
        BY <1>3, <1>9, <4>1, <4>3 DEF Untold
    <3>2. CASE x \notin ToSet(rt.changes)
      <4>1. x \in hidden
        BY <1>3, <1>9, <2>1, <3>2 DEF Untold, ToSet
      <4>2. x \in unannounced'
        BY <1>2, <3>2, <4>1 DEF hidden
      <4>. QED
        BY <4>2 DEF Untold
    <3>. QED
      BY <3>1, <3>2
  <2>. QED
    BY <2>1
<1>11. Sound(s, unannounced')
  BY <1>9, <1>10, SecretSound
<1>12. Runnable(s, unannounced', saved', rt.fired, FALSE)
  BY <1>2, <1>9, <1>11 DEF Runnable
<1>13. saved' \in [State -> Value] /\ unannounced' \subseteq State
  BY <1>2 DEF RuntimeInv, NotSaved, Value
<1>. QED
  BY <1>2, <1>12, <1>13, CallKeeps

LEMMA RollbackKeeps ==
  ASSUME RuntimeInv, ~rt.crashed, Rollback
  PROVE  RuntimeInv' /\ FiredOnce(rt.fired, rt'.fired, FALSE)
<1> DEFINE hidden == unannounced \cup ToSet(rt.changes)
           values == [n \in Node |-> IF Written(n) THEN rt.prev_value[n] ELSE rt.value[n]]
           untold == Untold(rt.calls, rt.in_transaction, rt.changes, unannounced)
<1>1. Sound(rt, unannounced) /\ rt \in ReactiveRuntime /\ rt.calls = <<>> /\ rt.in_transaction
  BY DEF RuntimeInv, Sound, Typed, Rollback
<1>2. <<>> \in Seq(State) /\ DOMAIN <<>> = {} /\ ToSet(<<>>) = {}
  BY EmptySeq DEF ToSet
<1>3. ToSet(rt.changes) \subseteq State
  <2>1. rt.changes \in Seq(State) /\ DOMAIN rt.changes = 1 .. Len(rt.changes)
    BY <1>1, FieldTypes, LenProperties
  <2>. QED
    BY <2>1, ElementOfSeq DEF ToSet
<1>4. values \in [Node -> Value]
  BY <1>1, <1>3, FieldTypes DEF Written
<1>5. \A n \in Node : n \notin ToSet(rt.changes) => values[n] = rt.value[n]
  BY DEF Written
<1>6. /\ rt' = [rt EXCEPT !.value = values, !.in_transaction = FALSE, !.changes = <<>>]
      /\ saved' = NotSaved /\ unannounced' = hidden
  BY DEF Rollback
<1> HIDE DEF values
<1>7. /\ rt' \in ReactiveRuntime /\ rt'.calls = <<>> /\ rt'.changes = <<>>
      /\ rt'.in_transaction = FALSE /\ rt'.queue = rt.queue /\ rt'.deps = rt.deps
      /\ rt'.dependents = rt.dependents /\ rt'.computing = rt.computing
      /\ rt'.crashed = rt.crashed /\ rt'.state = rt.state /\ rt'.value = values
      /\ rt'.is_propagating = rt.is_propagating /\ rt'.fired = rt.fired
      /\ rt'.triggered = rt.triggered
  BY <1>1, <1>2, <1>4, <1>6 DEF ReactiveRuntime
<1>8. Typed(rt')
  BY <1>1, <1>7 DEF Sound, Typed
<1>9. Accounted(rt')
  BY <1>1, <1>2, <1>7 DEF Sound, Accounted, Closing
<1>10. untold = hidden /\ Untold(<<>>, FALSE, <<>>, hidden) = hidden
  BY <1>1, <1>2 DEF Untold, ToSet, Open
<1>11. Derivation(rt.calls, rt.deps, rt.state, rt.value, hidden)
  BY <1>1, <1>10 DEF Sound
<1> HIDE DEF untold
<1>12. ASSUME NEW d \in Derived, rt.state[d] = "clean"
       PROVE  Supported(d, rt.deps, rt.state, values, hidden)
  <2>1. d \in Computed /\ d \in Node /\ d \notin ToSet(rt.changes)
    BY <1>3, Groups
  <2>2. Pending(rt.calls) = {}
    BY <1>1 DEF Pending
  <2>3. PICK k \in DOMAIN Reads[d] : Relies(d, k, rt.deps, rt.state) /\ Holds(d, k, rt.value, hidden)
    BY <1>11, <1>12, <2>2 DEF Derivation, Supported
  <2>4. /\ k \in Nat /\ k \in 1 .. k /\ \A j \in 1 .. k - 1 : j \in 1 .. k
        /\ \A j \in 1 .. k : Reads[d][j] \in Node
    BY <2>1, SourceType, Groups
  <2>5. CASE \E j \in 1 .. k : Reads[d][j] \in hidden
    BY <2>3, <2>5 DEF Holds, Supported
  <2>6. CASE ~(\E j \in 1 .. k : Reads[d][j] \in hidden)
    <3>1. \A j \in 1 .. k : values[Reads[d][j]] = rt.value[Reads[d][j]]
      BY <1>5, <2>4, <2>6
    <3>2. values[d] = rt.value[d]
      BY <1>5, <2>1
    <3>3. Gets(d, k, rt.value) /\ rt.value[d] = rt.value[Reads[d][k]]
      BY <2>3, <2>6 DEF Holds
    <3>4. Gets(d, k, values) /\ values[d] = values[Reads[d][k]]
      BY <2>4, <3>1, <3>2, <3>3 DEF Gets
    <3>. QED
      BY <2>3, <3>4 DEF Holds, Supported
  <2>. QED
    BY <2>5, <2>6
<1>13. Derivation(rt.calls, rt.deps, rt.state, values, hidden)
  <2>1. DOMAIN rt.calls = {}
    BY <1>1, EmptyStack
  <2>. QED
    BY <1>11, <1>12, <2>1 DEF Derivation
<1>14. Sound(rt', hidden)
  BY <1>1, <1>7, <1>8, <1>9, <1>10, <1>13 DEF Sound
<1>15. Restorable(rt', saved')
  BY <1>7 DEF Restorable
<1>16. saved' \in [State -> Value] /\ hidden \subseteq State
  BY <1>3, <1>6 DEF RuntimeInv, NotSaved, Value
<1>. QED
  BY <1>6, <1>7, <1>14, <1>15, <1>16, StillKeeps

-----------------------------------------------------------------------------
(* Every call keeps the invariant, and fires what fires once no more.      *)

LEMMA RuntimeCall ==
  ASSUME RuntimeInv, ~rt.crashed, Call
  PROVE  RuntimeInv' /\ FiredOnce(rt.fired, rt'.fired, Check)
<1> DEFINE Kept == RuntimeInv' /\ FiredOnce(rt.fired, rt'.fired, FALSE)
<1>1. Kept => RuntimeInv' /\ FiredOnce(rt.fired, rt'.fired, Check)
  BY DEF FiredOnce
<1>2. ASSUME NEW x \in State, NEW val \in {False, True}, Set(x, val) PROVE Kept
  BY <1>2, SetKeeps
<1>3. ASSUME NEW d \in Derived, Read(d) PROVE Kept
  BY <1>3, ReadKeeps
<1>4. ASSUME NEW e \in Effect, RecomputeNow(e) PROVE Kept
  BY <1>4, RecomputeKeeps
<1>5. ASSUME NEW e \in Effect, Declare(e) PROVE Kept
  BY <1>5, DeclareKeeps
<1>6. ASSUME NEW n \in Disposable, Dispose(n) PROVE Kept
  <2>1. n \in Sink
    BY ClientAssumption DEF ClientAssumption
  <2>. QED
    BY <1>6, <2>1, DisposeKeeps
<1>7. Begin => Kept
  BY BeginKeeps
<1>8. Commit => Kept
  BY CommitKeeps
<1>9. Rollback => Kept
  BY RollbackKeeps
<1>10. Poll => Kept
  BY PollKeeps
<1>11. CASE Check
  BY <1>11, CheckKeeps DEF FiredOnce
<1> HIDE DEF Kept
<1>. QED
  BY <1>1, <1>2, <1>3, <1>4, <1>5, <1>6, <1>7, <1>8, <1>9, <1>10, <1>11 DEF Call

LEMMA RuntimeStays ==
  ASSUME RuntimeInv, UNCHANGED vars
  PROVE  RuntimeInv'
<1>1. rt' = rt /\ saved' = saved /\ unannounced' = unannounced
  BY DEF vars
<1>. QED
  BY <1>1 DEF RuntimeInv

(* The invariant of the runtime between two calls: what holds of it at     *)
(* every step of a call (its links, its stack, what is being computed and  *)
(* how far, and what each clean value was made from) with an empty stack,  *)
(* what rollback needs, and the marks of the when blocks.                  *)
THEOREM RuntimeInductive == Spec => []RuntimeInv
<1>1. Init => RuntimeInv
  BY RuntimeInit
<1>2. RuntimeInv /\ [Next]_vars => RuntimeInv'
  <2>1. RuntimeInv /\ Next => RuntimeInv'
    BY RuntimeCall DEF Next
  <2>. QED
    BY <2>1, RuntimeStays
<1>. QED
  BY <1>1, <1>2, PTL DEF Spec

(* The runtime keeps its type, its queue its capacity, and between two     *)
(* calls nothing is being computed or propagated.                          *)
THEOREM TypeCorrect == Spec => []TypeOK
<1>1. RuntimeInv => TypeOK
  <2>. SUFFICES ASSUME RuntimeInv PROVE TypeOK
    OBVIOUS
  <2>1. Typed(rt) /\ Accounted(rt) /\ Stacked(rt.calls, rt.computing) /\ rt.calls = <<>>
    BY DEF RuntimeInv, Sound
  <2>2. DOMAIN rt.calls = {}
    BY <2>1, EmptyStack
  <2>3. rt.computing = Nowhere
    BY <2>1 DEF Stacked
  <2>4. ASSUME ~rt.crashed
        PROVE  (\A n \in Node : rt.state[n] # "computing") /\ ~rt.is_propagating
    <3>1. Due(rt.calls, rt.state) /\ (rt.is_propagating <=> Settling(rt.calls))
      BY <2>1, <2>4 DEF Accounted
    <3>. QED
      BY <2>2, <3>1 DEF Due, Settling
  <2>. QED
    BY <2>1, <2>3, <2>4 DEF TypeOK, Typed, RuntimeInv
<1>. QED
  BY <1>1, RuntimeInductive, PTL

(* How often an element is in a list without repetitions.                  *)
LEMMA OnceOrNever ==
  ASSUME NEW seq, IsInjective(seq), NEW m
  PROVE  Cardinality({i \in DOMAIN seq : seq[i] = m}) = IF m \in ToSet(seq) THEN 1 ELSE 0
<1> DEFINE places == {i \in DOMAIN seq : seq[i] = m}
<1>1. CASE m \in ToSet(seq)
  <2>1. PICK k \in DOMAIN seq : seq[k] = m
    BY <1>1 DEF ToSet
  <2>2. places = {k}
    BY <2>1 DEF IsInjective
  <2>. QED
    BY <1>1, <2>2, FS_Singleton
<1>2. CASE m \notin ToSet(seq)
  <2>1. places = {}
    BY <1>2 DEF ToSet
  <2>. QED
    BY <1>2, <2>1, FS_EmptySet
<1>. QED
  BY <1>1, <1>2

(* Both ends of the graph tell of the same dependencies, each of them      *)
(* once, whatever was read, cleared and disposed.                          *)
THEOREM LinksStayAlike == Spec => []LinksAgree
<1>1. RuntimeInv => LinksAgree
  <2>. SUFFICES ASSUME RuntimeInv, NEW m \in Node, NEW n \in Node
                PROVE  Cardinality({i \in DOMAIN rt.deps[n] : rt.deps[n][i] = m})
                         = Cardinality({i \in DOMAIN rt.dependents[m] : rt.dependents[m][i] = n})
    BY DEF LinksAgree
  <2>1. /\ IsInjective(rt.deps[n]) /\ IsInjective(rt.dependents[m])
        /\ m \in ToSet(rt.deps[n]) <=> n \in ToSet(rt.dependents[m])
    BY DEF RuntimeInv, Sound, Linked
  <2>2. Cardinality({i \in DOMAIN rt.deps[n] : rt.deps[n][i] = m})
          = IF m \in ToSet(rt.deps[n]) THEN 1 ELSE 0
    BY <2>1, OnceOrNever
  <2>3. Cardinality({i \in DOMAIN rt.dependents[m] : rt.dependents[m][i] = n})
          = IF n \in ToSet(rt.dependents[m]) THEN 1 ELSE 0
    BY <2>1, OnceOrNever
  <2>. QED
    BY <2>1, <2>2, <2>3
<1>. QED
  BY <1>1, RuntimeInductive, PTL

(* Rollback gives a state that was written once its value at the begin of  *)
(* the transaction back.                                                   *)
THEOREM RollbackGivesBack == Spec => RollbackRestores
<1> DEFINE Restores ==
      Rollback => \A x \in State : WrittenOnce(x) => rt'.value[x] = saved[x]
<1>1. RuntimeInv /\ [Next]_vars => [Restores]_vars
  <2>. SUFFICES ASSUME RuntimeInv, Rollback, NEW x \in State, WrittenOnce(x)
                PROVE  rt'.value[x] = saved[x]
    BY DEF Restores
  <2>1. rt.in_transaction /\ rt \in ReactiveRuntime /\ Restorable(rt, saved) /\ x \in Node
    BY Groups DEF Rollback, RuntimeInv, Sound, Typed
  <2>2. rt'.value[x] = IF Written(x) THEN rt.prev_value[x] ELSE rt.value[x]
    BY <2>1 DEF Rollback, ReactiveRuntime
  <2>3. Once1(rt.changes, x)
    BY DEF WrittenOnce, Once1
  <2>4. IF x \in ToSet(rt.changes) THEN Once1(rt.changes, x) => rt.prev_value[x] = saved[x]
        ELSE rt.value[x] = saved[x]
    BY <2>1 DEF Restorable
  <2>. QED
    BY <2>2, <2>3, <2>4 DEF Written
<1>. QED
  BY <1>1, RuntimeInductive, PTL DEF Spec, RollbackRestores

(* A when block with the flag "once" fires in one call of the API at most, *)
(* and twice in that one only if the client calls                          *)
(* reactive_check_triggers outside a propagation.                          *)
THEOREM OnceIsOneCall == Spec => OnceFiresOnce
<1> DEFINE Fires ==
      \A w \in Once : rt'.fired[w] # rt.fired[w] =>
        /\ rt.fired[w] = 0
        /\ rt'.fired[w] = 1 \/ Check
<1>1. RuntimeInv /\ [Next]_vars => [Fires]_vars
  <2>1. RuntimeInv /\ Next => Fires
    BY RuntimeCall DEF Next, FiredOnce
  <2>. QED
    BY <2>1
<1>. QED
  BY <1>1, RuntimeInductive, PTL DEF Spec, OnceFiresOnce

-----------------------------------------------------------------------------
(* What is derived is current.                                             *)

(* What a function gets that reads the first k sources.                    *)
LEMMA ReadOfGets ==
  ASSUME NEW n \in Computed, NEW f, NEW k \in DOMAIN Reads[n], Gets(n, k, f)
  PROVE  ReadOf(f, n) = f[Reads[n][k]]
<1> DEFINE Ends(i) == /\ \A j \in 1 .. i - 1 : f[Reads[n][j]] # False
                      /\ f[Reads[n][i]] = False \/ i = Len(Reads[n])
           end == CHOOSE i \in DOMAIN Reads[n] : Ends(i)
<1>1. DOMAIN Reads[n] = 1 .. Len(Reads[n]) /\ Len(Reads[n]) \in Nat
  BY SourceType
<1>2. Ends(k)
  BY DEF Gets
<1>3. ReadOf(f, n) = f[Reads[n][end]]
  BY DEF ReadOf
<1>4. ASSUME NEW i \in DOMAIN Reads[n], NEW j \in DOMAIN Reads[n], Ends(i), Ends(j)
      PROVE  ~(i < j)
  <2>1. SUFFICES ASSUME i < j PROVE FALSE
    OBVIOUS
  <2>2. i \in 1 .. j - 1 /\ i # Len(Reads[n])
    BY <1>1, <2>1
  <2>. QED
    BY <1>4, <2>2
<1>5. end \in DOMAIN Reads[n] /\ Ends(end)
  BY <1>2
<1> HIDE DEF end
<1>6. end = k
  <2>1. ~(end < k) /\ ~(k < end)
    BY <1>2, <1>4, <1>5
  <2>. QED
    BY <1>1, <1>5, <2>1
<1>. QED
  BY <1>3, <1>6

(* The function of a derived value gets something.                         *)
LEMMA SomethingIsRead ==
  ASSUME NEW d \in Derived, NEW f
  PROVE  \E k \in DOMAIN Reads[d] : Gets(d, k, f)
<1> DEFINE Ends == {i \in DOMAIN Reads[d] : f[Reads[d][i]] = False \/ i = Len(Reads[d])}
           k == Min(Ends)
<1>1. /\ DOMAIN Reads[d] = 1 .. Len(Reads[d]) /\ Len(Reads[d]) \in Nat
      /\ Reads[d] \in Seq(State \cup Derived)
  BY SourceType, Groups
<1>2. Len(Reads[d]) # 0
  BY <1>1, ClientAssumption, EmptySeq
<1>3. Ends \in SUBSET Nat /\ Len(Reads[d]) \in Ends
  BY <1>1, <1>2
<1>4. k \in Ends /\ \A y \in Ends : k <= y
  <2> HIDE DEF Ends
  <2>. QED
    BY <1>3, LeastOfAll
<1> HIDE DEF k
<1>5. ASSUME NEW j \in 1 .. k - 1 PROVE f[Reads[d][j]] # False
  <2>1. j \in DOMAIN Reads[d] /\ ~(k <= j)
    BY <1>1, <1>4
  <2>. QED
    BY <1>4, <2>1
<1>. QED
  BY <1>4, <1>5 DEF Gets

(* It is what the function gets from values that agree on its sources.     *)
LEMMA ReadAlike ==
  ASSUME NEW d \in Derived, NEW f, NEW g, \A m \in ToSet(Reads[d]) : f[m] = g[m]
  PROVE  ReadOf(f, d) = ReadOf(g, d)
<1>1. DOMAIN Reads[d] = 1 .. Len(Reads[d]) /\ Len(Reads[d]) \in Nat /\ d \in Computed
  BY SourceType, Groups
<1>2. PICK k \in DOMAIN Reads[d] : Gets(d, k, f)
  BY SomethingIsRead
<1>3. \A j \in DOMAIN Reads[d] : f[Reads[d][j]] = g[Reads[d][j]]
  BY DEF ToSet
<1>4. \A j \in 1 .. k - 1 : j \in DOMAIN Reads[d]
  BY <1>1
<1>5. Gets(d, k, g)
  BY <1>2, <1>3, <1>4 DEF Gets
<1>. QED
  BY <1>1, <1>2, <1>3, <1>5, ReadOfGets

(* The definition of Current, of the values of rank below r ...            *)
Follows(f, value, n) == f[n] = IF n \in State THEN value[n] ELSE ReadOf(f, n)

UpTo(f, value, r) ==
  \A n \in State \cup Derived : n \in State \/ Rank[n] < r => Follows(f, value, n)

(* ... and of one rank more.                                               *)
LEMMA OneRankMore ==
  ASSUME NEW f, NEW value, NEW r \in Nat, UpTo(f, value, r)
  PROVE  \E g : UpTo(g, value, r + 1)
<1> DEFINE g == [n \in State \cup Derived |-> IF n \in State THEN value[n] ELSE ReadOf(f, n)]
<1>1. \A n \in State \cup Derived : g[n] = IF n \in State THEN value[n] ELSE ReadOf(f, n)
  OBVIOUS
<1> HIDE DEF g
<1>2. \A n \in State \cup Derived : n \in State \/ Rank[n] < r => g[n] = f[n]
  BY <1>1 DEF UpTo, Follows
<1>3. ASSUME NEW n \in State \cup Derived, n \in State \/ Rank[n] < r + 1
      PROVE  Follows(g, value, n)
  <2>1. CASE n \in State
    BY <1>1, <2>1 DEF Follows
  <2>2. CASE n \notin State
    <3>1. n \in Derived /\ n \in Computed
      BY <2>2, Groups
    <3>2. ASSUME NEW m \in ToSet(Reads[n]) PROVE f[m] = g[m]
      <4>1. m \in State \cup Derived
        BY <3>1, SourceType DEF ToSet
      <4>2. Rank[m] < Rank[n] /\ Rank[m] \in Nat /\ Rank[n] \in Nat
        BY <3>1, <4>1, RankIsRank DEF Ranks
      <4>3. Rank[m] < r
        BY <1>3, <2>2, <4>2
      <4>. QED
        BY <1>2, <4>1, <4>3
    <3>3. ReadOf(f, n) = ReadOf(g, n)
      BY <3>1, <3>2, ReadAlike
    <3>. QED
      BY <1>1, <2>2, <3>3 DEF Follows
  <2>. QED
    BY <2>1, <2>2
<1>. QED
  BY <1>3 DEF UpTo

LEMMA EveryRank ==
  ASSUME NEW value, NEW r \in Nat
  PROVE  \E f : UpTo(f, value, r)
<1> DEFINE Missing == {i \in Nat : ~\E f : UpTo(f, value, i)}
<1> SUFFICES ASSUME Missing # {} PROVE FALSE
  OBVIOUS
<1>1. PICK i \in Missing : \A j \in Missing : i <= j
  <2>1. Missing \in SUBSET Nat
    OBVIOUS
  <2> HIDE DEF Missing
  <2>2. Min(Missing) \in Missing /\ \A j \in Missing : Min(Missing) <= j
    BY <2>1, LeastOfAll
  <2>. QED
    BY <2>2
<1>2. i \in Nat /\ ~\E f : UpTo(f, value, i)
  BY <1>1
<1>3. i # 0
  <2>1. SUFFICES ASSUME i = 0 PROVE FALSE
    OBVIOUS
  <2> DEFINE f == [n \in State |-> value[n]]
  <2>2. \A n \in State \cup Derived : ~(Rank[n] < 0)
    BY RankIsRank DEF Ranks
  <2>3. \A n \in State : Follows(f, value, n)
    BY DEF Follows
  <2> HIDE DEF f
  <2>4. UpTo(f, value, 0)
    BY <2>2, <2>3 DEF UpTo
  <2>. QED
    BY <1>2, <2>1, <2>4
<1>4. i - 1 \in Nat /\ i - 1 \notin Missing /\ (i - 1) + 1 = i
  BY <1>1, <1>2, <1>3
<1>5. PICK f : UpTo(f, value, i - 1)
  BY <1>4
<1>6. \E g : UpTo(g, value, (i - 1) + 1)
  <2> HIDE DEF Missing
  <2>. QED
    BY <1>4, <1>5, OneRankMore
<1>. QED
  BY <1>2, <1>4, <1>6

(* Current does what its definition says.                                  *)
LEMMA CurrentFollows ==
  \A n \in State \cup Derived : Follows(Current, rt.value, n)
<1> DEFINE IsCurrent(h) == h = [n \in State \cup Derived |->
                                  IF n \in State THEN rt.value[n] ELSE ReadOf(h, n)]
<1>1. Len(Created) + 1 \in Nat
  BY NodeAssumption, LenProperties
<1>2. PICK f : UpTo(f, rt.value, Len(Created) + 1)
  BY <1>1, EveryRank
<1>3. \A n \in State \cup Derived : Follows(f, rt.value, n)
  <2>1. \A n \in State \cup Derived : Rank[n] < Len(Created) + 1
    BY <1>1, RankIsRank DEF Ranks
  <2>. QED
    BY <1>2, <2>1 DEF UpTo
<1> DEFINE g == [n \in State \cup Derived |-> f[n]]
<1>4. \A n \in State \cup Derived : g[n] = f[n]
  OBVIOUS
<1>5. g = [n \in State \cup Derived |-> g[n]]
  OBVIOUS
<1> HIDE DEF g
<1>6. ASSUME NEW n \in State \cup Derived
      PROVE  g[n] = IF n \in State THEN rt.value[n] ELSE ReadOf(g, n)
  <2>1. CASE n \in State
    BY <1>3, <1>4, <2>1 DEF Follows
  <2>2. CASE n \notin State
    <3>1. n \in Derived
      BY <2>2
    <3>2. \A m \in ToSet(Reads[n]) : f[m] = g[m]
      BY <1>4, <3>1, SourceType, Groups DEF ToSet
    <3>3. ReadOf(f, n) = ReadOf(g, n)
      BY <3>1, <3>2, ReadAlike
    <3>. QED
      BY <1>3, <1>4, <2>2, <3>3 DEF Follows
  <2>. QED
    BY <2>1, <2>2
<1>7. IsCurrent(g)
  BY <1>5, <1>6, Zenon
<1>8. IsCurrent(Current)
  BY <1>7, Zenon DEF Current
<1> HIDE DEF g
<1>9. \A n \in State \cup Derived : Current[n] = IF n \in State THEN rt.value[n] ELSE ReadOf(Current, n)
  BY <1>8
<1>. QED
  BY <1>9 DEF Follows

(* What a derived value depends on is what its sources depend on.          *)
LEMMA SourcesOfSources ==
  ASSUME NEW d \in Derived, NEW m \in ToSet(Reads[d])
  PROVE  Sources[m] \subseteq Sources[d] /\ (m \in State => m \in Sources[d])
<1>1. \A S \in SUBSET Node : d \in S /\ Closed(S) => m \in S
  BY Groups DEF Closed
<1>2. d \in Node /\ m \in Node
  <2>1. d \in Computed /\ d \in Node /\ State \cup Derived \subseteq Node
    BY Groups
  <2>2. Reads[d] \in Seq(State \cup Derived)
    BY <2>1, ClientAssumption DEF ClientAssumption
  <2>3. m \in State \cup Derived
    BY <2>2 DEF ToSet
  <2>. QED
    BY <2>1, <2>3
<1>3. /\ Sources[d] = {x \in State : \A S \in SUBSET Node : d \in S /\ Closed(S) => x \in S}
      /\ Sources[m] = {x \in State : \A S \in SUBSET Node : m \in S /\ Closed(S) => x \in S}
  BY <1>2 DEF Sources
<1>. QED
  BY <1>1, <1>3

(* A clean value is the current one, unless one of the states that it      *)
(* depends on has changed without its being told.                          *)
LEMMA CleanIsCurrent ==
  ASSUME RuntimeInv, ~rt.in_transaction
  PROVE  \A d \in Derived :
           rt.state[d] = "clean" /\ Announced(d) => rt.value[d] = Current[d]
<1> DEFINE Right(d) == rt.state[d] = "clean" /\ Announced(d) => rt.value[d] = Current[d]
           Wrong == {d \in Derived : ~Right(d)}
           Wrongs == {i \in Nat : \E d \in Wrong : Rank[d] = i}
<1> SUFFICES ASSUME Wrong # {} PROVE FALSE
  OBVIOUS
<1>1. \A n \in State \cup Derived : Rank[n] \in Nat
  BY RankIsRank DEF Ranks
<1>2. PICK d \in Wrong : \A m \in Wrong : Rank[d] <= Rank[m]
  <2>1. Wrongs \in SUBSET Nat /\ Wrongs # {}
    BY <1>1
  <2>2. Min(Wrongs) \in Wrongs /\ \A i \in Wrongs : Min(Wrongs) <= i
    <3> HIDE DEF Wrongs
    <3>. QED
      BY <2>1, LeastOfAll
  <2>3. \A m \in Wrong : Rank[m] \in Wrongs
    BY <1>1
  <2>. QED
    BY <2>2, <2>3
<1>3. d \in Derived /\ d \in Computed /\ rt.state[d] = "clean" /\ Announced(d)
      /\ rt.value[d] # Current[d]
  BY <1>2, Groups
<1>4. \A m \in Derived : Rank[m] < Rank[d] => Right(m)
  BY <1>1, <1>2
<1> HIDE DEF Wrong, Wrongs
<1>5. PICK k \in DOMAIN Reads[d] :
        Relies(d, k, rt.deps, rt.state) /\ Holds(d, k, rt.value, unannounced)
  <2>1. Untold(rt.calls, rt.in_transaction, rt.changes, unannounced) = unannounced
    BY EmptyStack DEF Untold, Open, RuntimeInv
  <2>2. Pending(rt.calls) = {}
    BY DEF Pending, RuntimeInv
  <2>. QED
    BY <1>3, <2>1, <2>2 DEF RuntimeInv, Sound, Derivation, Supported
<1>6. DOMAIN Reads[d] = 1 .. Len(Reads[d]) /\ Len(Reads[d]) \in Nat
  BY <1>3, SourceType
<1>7. ASSUME NEW j \in 1 .. k
      PROVE  rt.value[Reads[d][j]] = Current[Reads[d][j]] /\ Reads[d][j] \notin unannounced
  <2> DEFINE m == Reads[d][j]
  <2>1. m \in ToSet(Reads[d]) /\ m \in State \cup Derived
    <3>1. j \in DOMAIN Reads[d]
      BY <1>6
    <3>. QED
      BY <1>3, <3>1, SourceType DEF ToSet
  <2>2. Sources[m] \subseteq Sources[d] /\ (m \in State => m \in Sources[d])
    BY <1>3, <2>1, SourcesOfSources
  <2>3. rt.state[m] = "clean"
    BY <1>5 DEF Relies
  <2>4. unannounced \subseteq State
    BY DEF RuntimeInv
  <2> HIDE DEF m
  <2>5. Announced(m) /\ m \notin unannounced
    BY <1>3, <2>2, <2>4 DEF Announced
  <2>6. CASE m \in State
    BY <2>1, <2>5, <2>6, CurrentFollows DEF Follows, m
  <2>7. CASE m \in Derived
    <3>1. Rank[m] < Rank[d]
      BY <1>3, <2>1, RankIsRank DEF Ranks
    <3>. QED
      BY <1>4, <2>3, <2>5, <2>7, <3>1 DEF m
  <2>. QED
    BY <2>1, <2>6, <2>7
<1>8. Gets(d, k, rt.value) /\ rt.value[d] = rt.value[Reads[d][k]]
  BY <1>5, <1>7 DEF Holds
<1>9. k \in 1 .. k /\ \A j \in 1 .. k - 1 : j \in 1 .. k
  BY <1>6
<1>10. Gets(d, k, Current)
  BY <1>7, <1>8, <1>9 DEF Gets
<1>11. ReadOf(Current, d) = Current[Reads[d][k]]
  BY <1>3, <1>10, ReadOfGets
<1>12. Current[d] = ReadOf(Current, d)
  BY <1>3, CurrentFollows, Groups DEF Follows
<1>. QED
  BY <1>3, <1>7, <1>8, <1>9, <1>11, <1>12

(* Outside a transaction a derived value that a read returns without       *)
(* computing it is the one that its sources have now, whatever its         *)
(* function read when it was computed, in whatever order invalidation and  *)
(* recomputation met and however many nodes the full queue forgot.         *)
THEOREM DerivedStaysCurrent == Spec => []DerivedCurrent
<1>1. RuntimeInv => DerivedCurrent
  BY CleanIsCurrent DEF DerivedCurrent
<1>. QED
  BY <1>1, RuntimeInductive, PTL
=============================================================================
