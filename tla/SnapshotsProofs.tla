-------------------------- MODULE SnapshotsProofs ---------------------------
(***************************************************************************)
(* Reference counts under snapshots, for any objects, locals and limits,   *)
(* and whatever the order in which snapshots are made, put back, evicted   *)
(* and destroyed.  That a count covers the copies is not inductive: the    *)
(* invariant says by how much it exceeds them, which is what StoreLocal    *)
(* took and RELEASE has not given back.                                    *)
(***************************************************************************)
EXTENDS Snapshots, ListLemmas

-----------------------------------------------------------------------------
(* The inductive invariant.                                                *)

MachineSound ==
  /\ made \subseteq Objects
  /\ refs \in [Objects -> Int] /\ surplus \in [Objects -> Int]
  /\ locals \in [Slots -> Value] /\ stack \in Seq(Value)
  /\ due \subseteq Slots

(* A pointer, dangling or not, is to a snapshot that has been created.     *)
Snapshot(snap, last) ==
  snap \in CompleteSnapshot /\ snap.prev \in 0 .. last /\ snap.next \in 0 .. last

HeapSound ==
  /\ next_id \in 1 .. MaxSnapshots + 1
  /\ DOMAIN snaps \subseteq 1 .. next_id - 1
  /\ snapshots \in 0 .. next_id - 1 /\ current \in 0 .. next_id - 1
  /\ \A i \in DOMAIN snaps : Snapshot(snaps[i], next_id - 1)

(* Nobody has what is not made yet.                                        *)
Unseen(o) ==
  /\ surplus[o] = 0
  /\ \A k \in Slots : locals[k] # o
  /\ \A k \in DOMAIN stack : stack[k] # o
  /\ Saved(o, snaps) = {}

Counted(o) ==
  /\ IsFiniteSet(Saved(o, snaps))
  /\ refs[o] = Holders(o) + surplus[o]

IInv ==
  /\ MachineSound
  /\ HeapSound
  /\ \A o \in Objects : Counted(o) /\ (o \notin made => Unseen(o))

-----------------------------------------------------------------------------
(* Counting.                                                               *)

(* How often a value occurs is a number, and zero when it does not.        *)
LEMMA TimesType ==
  ASSUME NEW o, NEW f, IsFiniteSet(DOMAIN f)
  PROVE  /\ Times(o, f) \in Nat
         /\ (\A k \in DOMAIN f : f[k] # o) => Times(o, f) = 0
<1> DEFINE P == {k \in DOMAIN f : f[k] = o}
<1>1. IsFiniteSet(P)
  BY FS_Subset, P \in SUBSET (DOMAIN f)
<1>2. Cardinality(P) \in Nat
  BY <1>1, FS_CardinalityType
<1>3. (\A k \in DOMAIN f : f[k] # o) => P = {}
  OBVIOUS
<1> QED
  BY <1>2, <1>3, FS_EmptySet DEF Times

(* One more element counts if it is the value.                             *)
LEMMA TimesExtend ==
  ASSUME NEW o, NEW f, NEW g, NEW n, IsFiniteSet(DOMAIN f), n \notin DOMAIN f,
         DOMAIN g = DOMAIN f \cup {n}, \A k \in DOMAIN f : g[k] = f[k]
  PROVE  Times(o, g) = Times(o, f) + (IF g[n] = o THEN 1 ELSE 0)
<1> DEFINE P == {k \in DOMAIN f : f[k] = o}   Q == {k \in DOMAIN g : g[k] = o}
<1>0. Times(o, f) = Cardinality(P) /\ Times(o, g) = Cardinality(Q)
  BY DEF Times
<1>1. IsFiniteSet(P)
  BY FS_Subset, P \in SUBSET (DOMAIN f)
<1>2. Cardinality(P) \in Nat
  BY <1>1, FS_CardinalityType
<1>3. CASE g[n] = o
  <2>1. Q = P \cup {n} /\ n \notin P
    BY <1>3
  <2>2. Cardinality(Q) = Cardinality(P) + 1
    <3> HIDE DEF P, Q
    <3> QED  BY <1>1, <2>1, FS_AddElement
  <2> QED
    BY <1>0, <1>3, <2>2
<1>4. CASE g[n] # o
  <2>1. Q = P
    BY <1>4
  <2> HIDE DEF P, Q
  <2> QED
    BY <1>0, <1>2, <1>4, <2>1
<1> QED
  BY <1>3, <1>4

(* A single value.                                                         *)
LEMMA TimesOne ==
  ASSUME NEW o, NEW v
  PROVE  Times(o, <<v>>) = IF v = o THEN 1 ELSE 0
<1> DEFINE f == << >>   g == <<v>>
<1>1. /\ DOMAIN f = {} /\ DOMAIN g = {1} /\ g[1] = v
  OBVIOUS
<1>2. IsFiniteSet(DOMAIN f) /\ Times(o, f) = 0
  BY <1>1, FS_EmptySet, TimesType
<1>3. Times(o, g) = Times(o, f) + (IF g[1] = o THEN 1 ELSE 0)
  <2>1. /\ 1 \notin DOMAIN f /\ DOMAIN g = DOMAIN f \cup {1} /\ \A k \in DOMAIN f : g[k] = f[k]
    BY <1>1
  <2> HIDE DEF f, g
  <2> QED  BY <1>2, <2>1, TimesExtend
<1> QED
  BY <1>1, <1>2, <1>3

(* Replacing an element.                                                   *)
LEMMA TimesExcept ==
  ASSUME NEW o, NEW f, NEW k \in DOMAIN f, NEW v, IsFiniteSet(DOMAIN f)
  PROVE  Times(o, [f EXCEPT ![k] = v]) = Times(o, f) - Times(o, <<f[k]>>) + Times(o, <<v>>)
<1> DEFINE g == [f EXCEPT ![k] = v]   h == [j \in DOMAIN f \ {k} |-> f[j]]
<1>1. /\ DOMAIN h = DOMAIN f \ {k} /\ \A j \in DOMAIN h : h[j] = f[j] /\ h[j] = g[j]
      /\ DOMAIN g = DOMAIN f /\ g[k] = v
  OBVIOUS
<1>2. IsFiniteSet(DOMAIN h)
  BY <1>1, FS_RemoveElement
<1> HIDE DEF g, h
<1>3. Times(o, h) \in Nat
  BY <1>2, TimesType
<1>4. Times(o, f) = Times(o, h) + (IF f[k] = o THEN 1 ELSE 0)
  BY <1>1, <1>2, TimesExtend
<1>5. Times(o, g) = Times(o, h) + (IF g[k] = o THEN 1 ELSE 0)
  BY <1>1, <1>2, TimesExtend
<1>6. Times(o, g) = Times(o, f) - Times(o, <<f[k]>>) + Times(o, <<v>>)
  BY <1>1, <1>3, <1>4, <1>5, TimesOne
<1> QED
  BY <1>6 DEF g

(* Pushing a value.                                                        *)
LEMMA TimesPush ==
  ASSUME NEW o, NEW S, NEW s \in Seq(S), NEW v \in S
  PROVE  Times(o, Append(s, v)) = Times(o, s) + Times(o, <<v>>)
<1>1. /\ Len(s) \in Nat /\ DOMAIN s = 1 .. Len(s)
      /\ DOMAIN Append(s, v) = 1 .. Len(s) + 1
      /\ \A k \in 1 .. Len(s) : Append(s, v)[k] = s[k]
      /\ Append(s, v)[Len(s) + 1] = v
  BY AppendElements, LenProperties
<1>2. IsFiniteSet(DOMAIN s)
  BY <1>1, FS_Interval
<1>3. Len(s) + 1 \notin DOMAIN s /\ DOMAIN Append(s, v) = DOMAIN s \cup {Len(s) + 1}
  BY <1>1
<1> DEFINE t == Append(s, v)   n == Len(s) + 1
<1>4. /\ n \notin DOMAIN s /\ DOMAIN t = DOMAIN s \cup {n} /\ t[n] = v
      /\ \A k \in DOMAIN s : t[k] = s[k]
  BY <1>1, <1>3
<1> HIDE DEF t, n
<1>5. Times(o, t) = Times(o, s) + (IF t[n] = o THEN 1 ELSE 0)
  BY <1>2, <1>4, TimesExtend
<1> QED
  BY <1>4, <1>5, TimesOne DEF t

(* Popping one.                                                            *)
LEMMA TimesPop ==
  ASSUME NEW o, NEW S, NEW s \in Seq(S), s # << >>
  PROVE  /\ Len(s) \in DOMAIN s /\ s[Len(s)] \in S
         /\ SubSeq(s, 1, Len(s) - 1) \in Seq(S)
         /\ DOMAIN SubSeq(s, 1, Len(s) - 1) \subseteq DOMAIN s
         /\ \A k \in DOMAIN SubSeq(s, 1, Len(s) - 1) : SubSeq(s, 1, Len(s) - 1)[k] = s[k]
         /\ Times(o, SubSeq(s, 1, Len(s) - 1)) = Times(o, s) - Times(o, <<s[Len(s)]>>)
<1> DEFINE n == Len(s)   t == SubSeq(s, 1, Len(s) - 1)
<1>1. n \in Nat \ {0} /\ DOMAIN s = 1 .. n /\ n \in DOMAIN s
  BY LenProperties, EmptySeq
<1>2. s[n] \in S /\ \A k \in 1 .. n : s[k] \in S
  BY <1>1, ElementOfSeq
<1>3. t \in Seq(S) /\ Len(t) = n - 1 /\ \A k \in 1 .. n - 1 : t[k] = s[k]
  BY <1>1, <1>2, SubSeqProperties
<1>4. DOMAIN t = 1 .. n - 1
  BY <1>3, LenProperties
<1>5. IsFiniteSet(DOMAIN t) /\ n \notin DOMAIN t /\ DOMAIN s = DOMAIN t \cup {n}
  <2>1. n - 1 \in Int /\ n \notin 1 .. n - 1 /\ 1 .. n = (1 .. n - 1) \cup {n}
    BY <1>1
  <2>2. IsFiniteSet(1 .. n - 1)
    BY <2>1, FS_Interval
  <2> HIDE DEF n, t
  <2> QED
    BY <1>1, <1>4, <2>1, <2>2
<1> HIDE DEF t
<1>6. Times(o, s) = Times(o, t) + (IF s[n] = o THEN 1 ELSE 0)
  BY <1>3, <1>4, <1>5, TimesExtend
<1>7. Times(o, t) \in Nat
  BY <1>5, TimesType
<1>8. Times(o, t) = Times(o, s) - Times(o, <<s[n]>>)
  BY <1>6, <1>7, TimesOne
<1>9. DOMAIN t \subseteq DOMAIN s /\ \A k \in DOMAIN t : t[k] = s[k]
  BY <1>1, <1>3, <1>4
<1> QED
  BY <1>1, <1>2, <1>3, <1>8, <1>9 DEF t

Labelled(S, i, label) == {<<i, label, k>> : k \in S}

(* As many copies as places.                                               *)
LEMMA LabelsCount ==
  ASSUME NEW S, IsFiniteSet(S), NEW i, NEW label
  PROVE  /\ IsFiniteSet(Labelled(S, i, label))
         /\ Cardinality(Labelled(S, i, label)) = Cardinality(S)
<1> DEFINE T == {<<i, label, k>> : k \in S}
           f == [k \in S |-> <<i, label, k>>]
<1>1. f \in [S -> T] /\ \A k \in S : f[k] = <<i, label, k>>
  OBVIOUS
<1>2. \A j, k \in S : f[j] = f[k] => j = k
  BY <1>1
<1>3. \A c \in T : \E k \in S : f[k] = c
  BY <1>1
<1>4. f \in Bijection(S, T)
  <2> HIDE DEF f, T
  <2>1. DOMAIN f = S
    BY <1>1
  <2>2. IsInjective(f)
    BY <1>2, <2>1 DEF IsInjective
  <2> QED
    BY <1>1, <1>3, <2>2 DEF Bijection, Injection, Surjection
<1>5. ExistsBijection(S, T)
  BY <1>4 DEF ExistsBijection
<1> HIDE DEF T
<1>6. IsFiniteSet(T) /\ Cardinality(T) = Cardinality(S)
  BY <1>5, FS_Bijection
<1> QED
  BY <1>6 DEF T, Labelled

(* A snapshot has a copy for each time the value occurs in it.             *)
LEMMA CopiesCount ==
  ASSUME NEW o, NEW i, NEW snap, DOMAIN snap.locals = Slots,
         IsFiniteSet(Slots), IsFiniteSet(DOMAIN snap.stack)
  PROVE  /\ IsFiniteSet(Copies(o, i, snap))
         /\ Cardinality(Copies(o, i, snap)) = Times(o, snap.locals) + Times(o, snap.stack)
<1> DEFINE L == {k \in Slots : snap.locals[k] = o}
           S == {k \in DOMAIN snap.stack : snap.stack[k] = o}
           TL == Labelled(L, i, "locals")
           TS == Labelled(S, i, "stack")
<1>1. IsFiniteSet(L) /\ IsFiniteSet(S)
  <2>1. L \in SUBSET Slots /\ S \in SUBSET DOMAIN snap.stack
    OBVIOUS
  <2> QED
    BY <2>1, FS_Subset
<1>2. Cardinality(L) = Times(o, snap.locals) /\ Cardinality(S) = Times(o, snap.stack)
  BY DEF Times
<1>3. Copies(o, i, snap) = TL \cup TS
  BY DEF Copies, Labelled
<1>4. TL \cap TS = {}
  <2>1. \A k \in L, j \in S : <<i, "locals", k>> # <<i, "stack", j>>
    OBVIOUS
  <2> HIDE DEF L, S
  <2> QED
    BY <2>1 DEF Labelled
<1> HIDE DEF L, S
<1>5. IsFiniteSet(TL) /\ Cardinality(TL) = Cardinality(L)
  BY <1>1, LabelsCount
<1>6. IsFiniteSet(TS) /\ Cardinality(TS) = Cardinality(S)
  BY <1>1, LabelsCount
<1> HIDE DEF TL, TS
<1>7. /\ IsFiniteSet(TL \cup TS)
      /\ Cardinality(TL \cup TS) = Cardinality(TL) + Cardinality(TS) - Cardinality(TL \cap TS)
  BY <1>5, <1>6, FS_Union
<1>8. Cardinality(L) \in Nat /\ Cardinality(S) \in Nat /\ Cardinality(TL \cap TS) = 0
  BY <1>1, <1>4, FS_CardinalityType, FS_EmptySet
<1> QED
  BY <1>2, <1>3, <1>5, <1>6, <1>7, <1>8

(* A snapshot more in the heap adds its copies, whatever becomes of the    *)
(* pointers of the others.                                                 *)
LEMMA SavedAdd ==
  ASSUME NEW o, NEW s, NEW t, NEW n, n \notin DOMAIN s, DOMAIN t = DOMAIN s \cup {n},
         \A i \in DOMAIN s : t[i].locals = s[i].locals /\ t[i].stack = s[i].stack,
         IsFiniteSet(Saved(o, s)), IsFiniteSet(Copies(o, n, t[n]))
  PROVE  /\ IsFiniteSet(Saved(o, t))
         /\ Saved(o, t) = Saved(o, s) \cup Copies(o, n, t[n])
         /\ Cardinality(Saved(o, t)) = Cardinality(Saved(o, s)) + Cardinality(Copies(o, n, t[n]))
<1> DEFINE A == Saved(o, s)   B == Copies(o, n, t[n])
<1>1. \A i \in DOMAIN s : Copies(o, i, t[i]) = Copies(o, i, s[i])
  BY DEF Copies
<1>2. Saved(o, t) = A \cup B
  <2>1. \A c : c \in Saved(o, t) <=> \E i \in DOMAIN t : c \in Copies(o, i, t[i])
    BY DEF Saved
  <2>2. \A c : c \in Saved(o, s) <=> \E i \in DOMAIN s : c \in Copies(o, i, s[i])
    BY DEF Saved
  <2>3. \A c : c \in Saved(o, t) <=> c \in A \/ c \in B
    BY <1>1, <2>1, <2>2
  <2> QED
    BY <2>3
<1>3. A \cap B = {}
  <2>1. \A c \in A : c[1] \in DOMAIN s
    BY DEF Saved, Copies
  <2>2. \A c \in B : c[1] = n
    BY DEF Copies
  <2> HIDE DEF A, B
  <2> QED
    BY <2>1, <2>2
<1> HIDE DEF A, B
<1>4. IsFiniteSet(A) /\ IsFiniteSet(B)
  BY DEF A, B
<1>5. /\ IsFiniteSet(A \cup B)
      /\ Cardinality(A \cup B) = Cardinality(A) + Cardinality(B) - Cardinality(A \cap B)
  BY <1>4, FS_Union
<1>6. Cardinality(A) \in Nat /\ Cardinality(B) \in Nat /\ Cardinality(A \cap B) = 0
  BY <1>3, <1>4, FS_CardinalityType, FS_EmptySet
<1> QED
  BY <1>2, <1>5, <1>6 DEF A, B

(* One less takes them away.                                               *)
LEMMA SavedRemove ==
  ASSUME NEW o, NEW s, NEW t, NEW n \in DOMAIN s, DOMAIN t = DOMAIN s \ {n},
         \A i \in DOMAIN t : t[i].locals = s[i].locals /\ t[i].stack = s[i].stack,
         IsFiniteSet(Saved(o, s)), IsFiniteSet(Copies(o, n, s[n]))
  PROVE  /\ IsFiniteSet(Saved(o, t))
         /\ Saved(o, t) \subseteq Saved(o, s)
         /\ Cardinality(Saved(o, t)) = Cardinality(Saved(o, s)) - Cardinality(Copies(o, n, s[n]))
<1>1. Saved(o, t) \subseteq Saved(o, s)
  <2>1. \A i \in DOMAIN t : i \in DOMAIN s /\ Copies(o, i, t[i]) = Copies(o, i, s[i])
    BY DEF Copies
  <2> QED
    BY <2>1 DEF Saved
<1>2. IsFiniteSet(Saved(o, t))
  BY <1>1, FS_Subset
<1>3. /\ n \notin DOMAIN t /\ DOMAIN s = DOMAIN t \cup {n}
      /\ \A i \in DOMAIN t : s[i].locals = t[i].locals /\ s[i].stack = t[i].stack
  OBVIOUS
<1>4. Cardinality(Saved(o, s)) = Cardinality(Saved(o, t)) + Cardinality(Copies(o, n, s[n]))
  <2>1. IsFiniteSet(Copies(o, n, s[n]))
    OBVIOUS
  <2>2. n \notin DOMAIN t
    BY <1>3
  <2>3. DOMAIN s = DOMAIN t \cup {n}
    BY <1>3
  <2>4. \A i \in DOMAIN t : s[i].locals = t[i].locals /\ s[i].stack = t[i].stack
    BY <1>3
  <2> QED
    BY ONLY <1>2, <2>1, <2>2, <2>3, <2>4, SavedAdd
<1>5. Cardinality(Saved(o, t)) \in Nat /\ Cardinality(Copies(o, n, s[n])) \in Nat
  BY <1>2, FS_CardinalityType
<1> QED
  BY <1>1, <1>2, <1>4, <1>5

-----------------------------------------------------------------------------
(* The state.                                                              *)

(* What a snapshot keeps, and its copies.                                  *)
LEMMA SnapshotFacts ==
  ASSUME ProgramIsSound, NEW snap \in CompleteSnapshot, NEW o, NEW i
  PROVE  /\ snap.locals \in [Slots -> Value] /\ snap.stack \in Seq(Value)
         /\ snap.due \subseteq Slots
         /\ IsFiniteSet(Copies(o, i, snap))
         /\ Times(o, snap.locals) \in Nat /\ Times(o, snap.stack) \in Nat
         /\ Cardinality(Copies(o, i, snap)) = Times(o, snap.locals) + Times(o, snap.stack)
<1>1. snap.locals \in [Slots -> Value] /\ snap.stack \in Seq(Value) /\ snap.due \subseteq Slots
  BY DEF CompleteSnapshot
<1>2. DOMAIN snap.locals = Slots /\ DOMAIN snap.stack = 1 .. Len(snap.stack)
  BY <1>1, LenProperties
<1>3. Len(snap.stack) \in Nat
  BY <1>1, LenProperties
<1>4. IsFiniteSet(Slots) /\ IsFiniteSet(DOMAIN snap.locals) /\ IsFiniteSet(DOMAIN snap.stack)
  BY <1>2, <1>3, FS_Interval DEF ProgramIsSound
<1>5. Times(o, snap.locals) \in Nat /\ Times(o, snap.stack) \in Nat
  BY <1>4, TimesType
<1> QED
  BY <1>1, <1>2, <1>4, <1>5, CopiesCount

(* The same of the machine.                                                *)
LEMMA MachineFacts ==
  ASSUME ProgramIsSound, IInv, NEW o \in Objects
  PROVE  /\ IsFiniteSet(DOMAIN locals) /\ IsFiniteSet(DOMAIN stack)
         /\ DOMAIN locals = Slots
         /\ Times(o, locals) \in Nat /\ Times(o, stack) \in Nat
         /\ Cardinality(Saved(o, snaps)) \in Nat
         /\ IsFiniteSet(Saved(o, snaps))
         /\ refs[o] \in Int /\ surplus[o] \in Int
         /\ refs[o] = Times(o, locals) + Times(o, stack) + Cardinality(Saved(o, snaps)) + surplus[o]
<1>1. locals \in [Slots -> Value] /\ stack \in Seq(Value)
  BY DEF IInv, MachineSound
<1>2. DOMAIN locals = Slots /\ DOMAIN stack = 1 .. Len(stack) /\ Len(stack) \in Nat
  BY <1>1, LenProperties
<1>3. IsFiniteSet(DOMAIN locals) /\ IsFiniteSet(DOMAIN stack)
  BY <1>2, FS_Interval DEF ProgramIsSound
<1>4. Times(o, locals) \in Nat /\ Times(o, stack) \in Nat
  BY <1>3, TimesType
<1>5. IsFiniteSet(Saved(o, snaps)) /\ refs[o] = Holders(o) + surplus[o]
  BY DEF IInv, Counted
<1>6. Cardinality(Saved(o, snaps)) \in Nat
  BY <1>5, FS_CardinalityType
<1>7. refs[o] \in Int /\ surplus[o] \in Int
  BY DEF IInv, MachineSound
<1> QED
  BY <1>2, <1>3, <1>4, <1>5, <1>6, <1>7 DEF Holders

(* One value is held once or not at all.                                   *)
LEMMA OneType ==
  ASSUME NEW o, NEW v
  PROVE  Times(o, <<v>>) \in Nat /\ (v # o => Times(o, <<v>>) = 0)
BY TimesOne

Snapshots(s, last) == \A k \in DOMAIN s : Snapshot(s[k], last)

(* The same snapshots, but for their pointers.                             *)
Relinked(s, t, last) ==
  /\ DOMAIN t = DOMAIN s
  /\ \A k \in DOMAIN s : /\ Snapshot(t[k], last)
                        /\ t[k].locals = s[k].locals
                        /\ t[k].stack = s[k].stack

(* Setting a pointer keeps what the snapshots hold.                        *)
LEMMA SetKeeps ==
  ASSUME NEW last \in Nat, last <= MaxSnapshots, MaxSnapshots \in Nat,
         NEW s, Snapshots(s, last),
         NEW i, NEW field \in {"prev", "next"}, NEW j \in 0 .. last
  PROVE  Relinked(s, Set(s, i, field, j), last)
<1>0. \A k \in DOMAIN s : Snapshot(s[k], last)
  BY DEF Snapshots
<1>1. CASE i = NULL
  BY <1>0, <1>1 DEF Set, Relinked
<1>2. CASE i # NULL
  <2> DEFINE t == [s EXCEPT ![i][field] = j]
  <2>1. Set(s, i, field, j) = t
    BY <1>2 DEF Set
  <2>2. DOMAIN t = DOMAIN s
    OBVIOUS
  <2>3. \A k \in DOMAIN s : k # i => t[k] = s[k]
    OBVIOUS
  <2>4. ASSUME i \in DOMAIN s
        PROVE  /\ Snapshot(t[i], last)
               /\ t[i].locals = s[i].locals /\ t[i].stack = s[i].stack
    <3>1. t[i] = [s[i] EXCEPT ![field] = j]
      BY <2>4
    <3>2. s[i] \in CompleteSnapshot /\ s[i].prev \in 0 .. last /\ s[i].next \in 0 .. last
      BY <1>0, <2>4 DEF Snapshot
    <3>3. j \in 0 .. MaxSnapshots
      OBVIOUS
    <3> HIDE DEF t
    <3>4. CASE field = "prev"
      BY <3>1, <3>2, <3>3, <3>4 DEF Snapshot, CompleteSnapshot
    <3>5. CASE field = "next"
      BY <3>1, <3>2, <3>3, <3>5 DEF Snapshot, CompleteSnapshot
    <3> QED
      BY <3>4, <3>5
  <2> HIDE DEF t
  <2> QED
    BY <1>0, <2>1, <2>2, <2>3, <2>4 DEF Relinked
<1> QED
  BY <1>1, <1>2

-----------------------------------------------------------------------------
(* Instructions of the machine.                                            *)

(* They leave the heap of snapshots as it is.                              *)
LEMMA HeapKeeps ==
  ASSUME HeapSound, UNCHANGED manager
  PROVE  HeapSound'
BY DEF HeapSound, manager, Snapshot

(* The new object has the one reference of the stack; nobody had it.       *)
LEMMA LoadConstKeeps ==
  ASSUME ProgramIsSound, IInv, LoadConst
  PROVE  IInv'
<1>1. MachineSound /\ HeapSound
  BY DEF IInv
<1>2. PICK o \in Objects \ made :
         /\ made' = made \cup {o}
         /\ refs' = [refs EXCEPT ![o] = 1]
         /\ stack' = Append(stack, o)
  BY DEF LoadConst
<1>3. UNCHANGED <<locals, due, surplus>> /\ UNCHANGED manager /\ snaps' = snaps
  BY DEF LoadConst, manager
<1>4. o \in Value /\ stack \in Seq(Value)
  BY <1>1, <1>2 DEF MachineSound, Value
<1>5. /\ stack' \in Seq(Value)
      /\ \A p : Times(p, stack') = Times(p, stack) + Times(p, <<o>>)
      /\ \A k \in DOMAIN stack' : stack'[k] = o \/ (k \in DOMAIN stack /\ stack'[k] = stack[k])
  BY <1>2, <1>4, TimesPush, AppendElements, LenProperties
<1>6. MachineSound'
  BY <1>1, <1>2, <1>3, <1>5 DEF MachineSound
<1>7. HeapSound'
  BY <1>1, <1>3, HeapKeeps
<1>8. ASSUME NEW p \in Objects
      PROVE  Counted(p)' /\ (p \notin made' => Unseen(p)')
  <2>1. /\ Times(p, locals) \in Nat /\ Times(p, stack) \in Nat
        /\ Cardinality(Saved(p, snaps)) \in Nat /\ IsFiniteSet(Saved(p, snaps))
        /\ refs[p] \in Int /\ surplus[p] \in Int
        /\ refs[p] = Times(p, locals) + Times(p, stack) + Cardinality(Saved(p, snaps)) + surplus[p]
    BY MachineFacts
  <2>2. Times(p, <<o>>) = IF p = o THEN 1 ELSE 0
    BY TimesOne
  <2>3. refs'[p] = IF p = o THEN 1 ELSE refs[p]
    BY <1>1, <1>2 DEF MachineSound
  <2>4. p = o => /\ Times(p, locals) = 0 /\ Times(p, stack) = 0
                 /\ Cardinality(Saved(p, snaps)) = 0 /\ surplus[p] = 0
    <3> SUFFICES ASSUME p = o
                 PROVE  /\ Times(p, locals) = 0 /\ Times(p, stack) = 0
                        /\ Cardinality(Saved(p, snaps)) = 0 /\ surplus[p] = 0
      OBVIOUS
    <3>1. Unseen(p)
      BY <1>2 DEF IInv
    <3>2. IsFiniteSet(DOMAIN locals) /\ IsFiniteSet(DOMAIN stack) /\ DOMAIN locals = Slots
      BY MachineFacts
    <3>3. Times(p, locals) = 0 /\ Times(p, stack) = 0
      BY <3>1, <3>2, TimesType DEF Unseen
    <3> QED
      BY <3>1, <3>3, FS_EmptySet DEF Unseen
  <2>5. Times(p, stack') = Times(p, stack) + Times(p, <<o>>)
    BY <1>5
  <2>6. refs'[p] = Times(p, locals) + Times(p, stack') + Cardinality(Saved(p, snaps)) + surplus[p]
    <3>1. CASE p = o
      BY <2>2, <2>3, <2>4, <2>5, <3>1
    <3>2. CASE p # o
      BY <2>1, <2>2, <2>3, <2>5, <3>2
    <3> QED
      BY <3>1, <3>2
  <2>7. Counted(p)'
    BY <1>3, <2>1, <2>6 DEF Counted, Holders
  <2>8. p \notin made' => Unseen(p)'
    <3> SUFFICES ASSUME p \notin made' PROVE Unseen(p)'
      OBVIOUS
    <3>1. p # o /\ Unseen(p)
      BY <1>2 DEF IInv
    <3> QED
      BY <1>3, <1>5, <3>1 DEF Unseen
  <2> QED
    BY <2>7, <2>8
<1> QED
  BY <1>6, <1>7, <1>8 DEF IInv

(* The value goes from the stack to the local, and the reference it is     *)
(* given besides is surplus.                                               *)
LEMMA StoreLocalKeeps ==
  ASSUME ProgramIsSound, IInv, StoreLocal
  PROVE  IInv'
<1>1. MachineSound /\ HeapSound
  BY DEF IInv
<1> DEFINE value == stack[Len(stack)]
<1>2. PICK k \in Slots :
         /\ refs' = value_retain(value_release(refs, <<locals[k]>>), <<value>>)
         /\ locals' = [locals EXCEPT ![k] = value]
         /\ due' = due \cup {k}
         /\ surplus' = value_retain(surplus, <<value>>)
  BY DEF StoreLocal
<1>3. /\ stack # << >> /\ stack' = SubSeq(stack, 1, Len(stack) - 1)
      /\ made' = made /\ UNCHANGED manager /\ snaps' = snaps
  BY DEF StoreLocal, manager
<1>4. /\ stack \in Seq(Value) /\ locals \in [Slots -> Value]
      /\ refs \in [Objects -> Int] /\ surplus \in [Objects -> Int]
  BY <1>1 DEF MachineSound
<1>5. /\ Len(stack) \in DOMAIN stack /\ value \in Value /\ stack' \in Seq(Value)
      /\ DOMAIN stack' \subseteq DOMAIN stack
      /\ \A j \in DOMAIN stack' : stack'[j] = stack[j]
      /\ \A p : Times(p, stack') = Times(p, stack) - Times(p, <<value>>)
  BY <1>3, <1>4, TimesPop
<1>6. value = stack[Len(stack)]
  OBVIOUS
<1> HIDE DEF value
<1>7. \A p \in Objects : Times(p, <<value>>) \in Nat /\ Times(p, <<locals[k]>>) \in Nat
  BY OneType
<1>8. /\ \A p \in Objects : refs'[p] = refs[p] - Times(p, <<locals[k]>>) + Times(p, <<value>>)
      /\ \A p \in Objects : surplus'[p] = surplus[p] + Times(p, <<value>>)
      /\ DOMAIN refs' = Objects /\ DOMAIN surplus' = Objects
      /\ refs' = [p \in Objects |-> refs'[p]] /\ surplus' = [p \in Objects |-> surplus'[p]]
  BY <1>2 DEF value_retain, value_release
<1>9. refs' \in [Objects -> Int] /\ surplus' \in [Objects -> Int]
  <2>1. ASSUME NEW p \in Objects
        PROVE  refs'[p] \in Int /\ surplus'[p] \in Int
    <3>1. refs[p] \in Int /\ surplus[p] \in Int
      BY <1>4
    <3>2. Times(p, <<value>>) \in Nat /\ Times(p, <<locals[k]>>) \in Nat
      BY <1>7
    <3>3. /\ refs'[p] = refs[p] - Times(p, <<locals[k]>>) + Times(p, <<value>>)
          /\ surplus'[p] = surplus[p] + Times(p, <<value>>)
      BY <1>8
    <3> QED
      BY <3>1, <3>2, <3>3
  <2> QED
    BY <1>8, <2>1
<1>10. MachineSound'
  BY <1>1, <1>2, <1>3, <1>5, <1>9 DEF MachineSound
<1>11. HeapSound'
  BY <1>1, <1>3, HeapKeeps
<1>12. ASSUME NEW p \in Objects
       PROVE  Counted(p)' /\ (p \notin made' => Unseen(p)')
  <2>1. /\ Times(p, locals) \in Nat /\ Times(p, stack) \in Nat
        /\ Cardinality(Saved(p, snaps)) \in Nat /\ IsFiniteSet(Saved(p, snaps))
        /\ refs[p] \in Int /\ surplus[p] \in Int
        /\ refs[p] = Times(p, locals) + Times(p, stack) + Cardinality(Saved(p, snaps)) + surplus[p]
    BY MachineFacts
  <2>2. Times(p, locals') = Times(p, locals) - Times(p, <<locals[k]>>) + Times(p, <<value>>)
    <3>1. k \in DOMAIN locals /\ IsFiniteSet(DOMAIN locals)
      BY MachineFacts
    <3>2. Times(p, [locals EXCEPT ![k] = value])
            = Times(p, locals) - Times(p, <<locals[k]>>) + Times(p, <<value>>)
      BY <3>1, TimesExcept
    <3> QED
      BY <1>2, <3>2
  <2>3. /\ Times(p, stack') = Times(p, stack) - Times(p, <<value>>)
        /\ Times(p, <<value>>) \in Nat /\ Times(p, <<locals[k]>>) \in Nat
        /\ refs'[p] = refs[p] - Times(p, <<locals[k]>>) + Times(p, <<value>>)
        /\ surplus'[p] = surplus[p] + Times(p, <<value>>)
    BY <1>5, <1>7, <1>8
  <2>4. refs'[p] = Times(p, locals') + Times(p, stack') + Cardinality(Saved(p, snaps)) + surplus'[p]
    BY <2>1, <2>2, <2>3
  <2>5. Counted(p)'
    BY <1>3, <2>1, <2>4 DEF Counted, Holders
  <2>6. p \notin made' => Unseen(p)'
    <3> SUFFICES ASSUME p \notin made' PROVE Unseen(p)'
      OBVIOUS
    <3>1. Unseen(p)
      BY <1>3 DEF IInv
    <3>2. value # p
      BY <1>5, <1>6, <3>1 DEF Unseen
    <3>3. Times(p, <<value>>) = 0
      BY <3>2, OneType
    <3>4. surplus'[p] = 0
      BY <2>3, <3>1, <3>3 DEF Unseen
    <3>5. \A j \in Slots : locals'[j] # p
      BY <1>2, <1>4, <3>1, <3>2 DEF Unseen
    <3>6. \A j \in DOMAIN stack' : stack'[j] # p
      BY <1>5, <3>1 DEF Unseen
    <3> QED
      BY <1>3, <3>1, <3>4, <3>5, <3>6 DEF Unseen
  <2> QED
    BY <2>5, <2>6
<1> QED
  BY <1>10, <1>11, <1>12 DEF IInv

(* The reference of the stack is given back.                               *)
LEMMA PopKeeps ==
  ASSUME ProgramIsSound, IInv, Pop
  PROVE  IInv'
<1>1. MachineSound /\ HeapSound
  BY DEF IInv
<1> DEFINE value == stack[Len(stack)]
<1>2. /\ refs' = value_release(refs, <<value>>)
      /\ stack # << >> /\ stack' = SubSeq(stack, 1, Len(stack) - 1)
      /\ UNCHANGED <<made, locals, due, surplus>> /\ UNCHANGED manager /\ snaps' = snaps
  BY DEF Pop, manager
<1>3. stack \in Seq(Value) /\ refs \in [Objects -> Int]
  BY <1>1 DEF MachineSound
<1>4. /\ stack' \in Seq(Value) /\ DOMAIN stack' \subseteq DOMAIN stack
      /\ \A j \in DOMAIN stack' : stack'[j] = stack[j]
      /\ \A p : Times(p, stack') = Times(p, stack) - Times(p, <<value>>)
  BY <1>2, <1>3, TimesPop
<1> HIDE DEF value
<1>5. \A p \in Objects : Times(p, <<value>>) \in Nat
  BY OneType
<1>6. /\ \A p \in Objects : refs'[p] = refs[p] - Times(p, <<value>>)
      /\ refs' = [p \in Objects |-> refs'[p]]
  BY <1>2 DEF value_release
<1>7. refs' \in [Objects -> Int]
  BY <1>3, <1>5, <1>6
<1>8. MachineSound'
  BY <1>1, <1>2, <1>4, <1>7 DEF MachineSound
<1>9. HeapSound'
  BY <1>1, <1>2, HeapKeeps
<1>10. ASSUME NEW p \in Objects
       PROVE  Counted(p)' /\ (p \notin made' => Unseen(p)')
  <2>1. /\ Times(p, locals) \in Nat /\ Times(p, stack) \in Nat
        /\ Cardinality(Saved(p, snaps)) \in Nat /\ IsFiniteSet(Saved(p, snaps))
        /\ refs[p] \in Int /\ surplus[p] \in Int
        /\ refs[p] = Times(p, locals) + Times(p, stack) + Cardinality(Saved(p, snaps)) + surplus[p]
    BY MachineFacts
  <2>2. /\ Times(p, stack') = Times(p, stack) - Times(p, <<value>>)
        /\ Times(p, <<value>>) \in Nat /\ refs'[p] = refs[p] - Times(p, <<value>>)
    BY <1>4, <1>5, <1>6
  <2>3. refs'[p] = Times(p, locals) + Times(p, stack') + Cardinality(Saved(p, snaps)) + surplus[p]
    BY <2>1, <2>2
  <2>4. Counted(p)'
    BY <1>2, <2>1, <2>3 DEF Counted, Holders
  <2>5. p \notin made' => Unseen(p)'
    BY <1>2, <1>4 DEF IInv, Unseen
  <2> QED
    BY <2>4, <2>5
<1> QED
  BY <1>8, <1>9, <1>10 DEF IInv

(* The local keeps its value: what is given back is surplus, or is missing *)
(* from now on.                                                            *)
LEMMA ReleaseLocalKeeps ==
  ASSUME ProgramIsSound, IInv, ReleaseLocal
  PROVE  IInv'
<1>1. MachineSound /\ HeapSound
  BY DEF IInv
<1>2. PICK k \in due :
         /\ refs' = value_release(refs, <<locals[k]>>)
         /\ due' = due \ {k}
         /\ surplus' = value_release(surplus, <<locals[k]>>)
  BY DEF ReleaseLocal
<1>3. UNCHANGED <<made, locals, stack>> /\ UNCHANGED manager /\ snaps' = snaps
  BY DEF ReleaseLocal, manager
<1>4. /\ refs \in [Objects -> Int] /\ surplus \in [Objects -> Int] /\ k \in Slots
  BY <1>1 DEF MachineSound
<1> DEFINE value == locals[k]
<1>5. /\ \A p \in Objects : refs'[p] = refs[p] - Times(p, <<value>>)
      /\ \A p \in Objects : surplus'[p] = surplus[p] - Times(p, <<value>>)
      /\ refs' = [p \in Objects |-> refs'[p]] /\ surplus' = [p \in Objects |-> surplus'[p]]
  BY <1>2 DEF value_release
<1>6. value = locals[k]
  OBVIOUS
<1> HIDE DEF value
<1>7. \A p \in Objects : Times(p, <<value>>) \in Nat
  BY OneType
<1>8. refs' \in [Objects -> Int] /\ surplus' \in [Objects -> Int]
  BY <1>4, <1>5, <1>7
<1>9. MachineSound'
  BY <1>1, <1>2, <1>3, <1>8 DEF MachineSound
<1>10. HeapSound'
  BY <1>1, <1>3, HeapKeeps
<1>11. ASSUME NEW p \in Objects
       PROVE  Counted(p)' /\ (p \notin made' => Unseen(p)')
  <2>1. /\ Times(p, locals) \in Nat /\ Times(p, stack) \in Nat
        /\ Cardinality(Saved(p, snaps)) \in Nat /\ IsFiniteSet(Saved(p, snaps))
        /\ refs[p] \in Int /\ surplus[p] \in Int
        /\ refs[p] = Times(p, locals) + Times(p, stack) + Cardinality(Saved(p, snaps)) + surplus[p]
    BY MachineFacts
  <2>2. /\ Times(p, <<value>>) \in Nat /\ refs'[p] = refs[p] - Times(p, <<value>>)
        /\ surplus'[p] = surplus[p] - Times(p, <<value>>)
    BY <1>5, <1>7
  <2>3. refs'[p] = Times(p, locals) + Times(p, stack) + Cardinality(Saved(p, snaps)) + surplus'[p]
    BY <2>1, <2>2
  <2>4. Counted(p)'
    BY <1>3, <2>1, <2>3 DEF Counted, Holders
  <2>5. p \notin made' => Unseen(p)'
    <3> SUFFICES ASSUME p \notin made' PROVE Unseen(p)'
      OBVIOUS
    <3>1. Unseen(p)
      BY <1>3 DEF IInv
    <3>2. Times(p, <<value>>) = 0
      BY <1>4, <1>6, <3>1, OneType DEF Unseen
    <3>3. surplus'[p] = 0
      BY <2>2, <3>1, <3>2 DEF Unseen
    <3> QED
      BY <1>3, <3>1, <3>3 DEF Unseen
  <2> QED
    BY <2>4, <2>5
<1> QED
  BY <1>9, <1>10, <1>11 DEF IInv

-----------------------------------------------------------------------------
(* Operations of the manager.                                              *)

(* What is put back was counted by the snapshot, and is counted once more. *)
LEMMA RestoreKeeps ==
  ASSUME ProgramIsSound, IInv, NEW i \in DOMAIN snaps, Restore(i)
  PROVE  IInv'
<1>1. MachineSound /\ HeapSound
  BY DEF IInv
<1> DEFINE snap == snaps[i]
<1>2. /\ refs' = value_retain(value_retain(value_release(value_release(refs, locals), stack),
                                          snap.locals), snap.stack)
      /\ locals' = snap.locals /\ stack' = snap.stack /\ due' = snap.due /\ current' = i
      /\ made' = made /\ surplus' = surplus /\ snaps' = snaps
      /\ snapshots' = snapshots /\ next_id' = next_id
  BY DEF Restore
<1>3. snap \in CompleteSnapshot
  BY <1>1 DEF HeapSound, Snapshot
<1>4. \A p \in Objects : /\ Copies(p, i, snap) \subseteq Saved(p, snaps)
  BY DEF Saved
<1> HIDE DEF snap
<1>5. /\ snap.locals \in [Slots -> Value] /\ snap.stack \in Seq(Value) /\ snap.due \subseteq Slots
      /\ \A p : Times(p, snap.locals) \in Nat /\ Times(p, snap.stack) \in Nat
  BY <1>3, SnapshotFacts
<1>6. /\ \A p \in Objects : refs'[p] = refs[p] - Times(p, locals) - Times(p, stack)
                                            + Times(p, snap.locals) + Times(p, snap.stack)
      /\ refs' = [p \in Objects |-> refs'[p]]
  BY <1>2 DEF value_retain, value_release
<1>7. ASSUME NEW p \in Objects
      PROVE  Counted(p)' /\ refs'[p] \in Int
  <2>1. /\ Times(p, locals) \in Nat /\ Times(p, stack) \in Nat
        /\ Cardinality(Saved(p, snaps)) \in Nat /\ IsFiniteSet(Saved(p, snaps))
        /\ refs[p] \in Int /\ surplus[p] \in Int
        /\ refs[p] = Times(p, locals) + Times(p, stack) + Cardinality(Saved(p, snaps)) + surplus[p]
    BY MachineFacts
  <2>2. Times(p, snap.locals) \in Nat /\ Times(p, snap.stack) \in Nat
    BY <1>5
  <2>3. refs'[p] = refs[p] - Times(p, locals) - Times(p, stack)
                     + Times(p, snap.locals) + Times(p, snap.stack)
    BY <1>6
  <2>4. refs'[p] = Times(p, snap.locals) + Times(p, snap.stack)
                     + Cardinality(Saved(p, snaps)) + surplus[p]
    BY <2>1, <2>2, <2>3
  <2>5. refs'[p] = Times(p, locals') + Times(p, stack') + Cardinality(Saved(p, snaps')) + surplus'[p]
    BY <1>2, <2>4
  <2>6. Counted(p)'
    BY <1>2, <2>1, <2>5 DEF Counted, Holders
  <2>7. refs'[p] \in Int
    BY <2>1, <2>2, <2>4
  <2> QED
    BY <2>6, <2>7
<1>8. MachineSound'
  <2>1. refs' \in [Objects -> Int]
    BY <1>6, <1>7
  <2> QED
    BY <1>1, <1>2, <1>5, <2>1 DEF MachineSound
<1>9. HeapSound'
  BY <1>1, <1>2 DEF HeapSound, Snapshot
<1>10. ASSUME NEW p \in Objects, p \notin made'
       PROVE  Unseen(p)'
  <2>1. Unseen(p)
    BY <1>2, <1>10 DEF IInv
  <2>2. Copies(p, i, snap) = {}
    BY <1>4, <2>1 DEF Unseen
  <2>3. /\ \A k \in Slots : snap.locals[k] # p
        /\ \A k \in DOMAIN snap.stack : snap.stack[k] # p
    BY <2>2 DEF Copies
  <2> QED
    BY <1>2, <2>1, <2>3 DEF Unseen
<1> QED
  BY <1>7, <1>8, <1>9, <1>10 DEF IInv

(* What leaves the heap gives its references back.                         *)
LEMMA DestroyKeeps ==
  ASSUME ProgramIsSound, IInv, snapshot_destroy
  PROVE  IInv'
<1>1. MachineSound /\ HeapSound
  BY DEF IInv
<1>2. PICK i \in Listed :
         /\ snapshots' = IF snaps[i].prev = NULL THEN snaps[i].next ELSE snapshots
         /\ snaps' = Without(Set(Set(snaps, snaps[i].prev, "next", snaps[i].next),
                                 snaps[i].next, "prev", snaps[i].prev), i)
         /\ current' = IF current = i THEN snaps[i].prev ELSE current
         /\ refs' = Release(refs, snaps[i])
  BY DEF snapshot_destroy
<1>3. UNCHANGED <<made, locals, stack, due, surplus, next_id>>
  BY DEF snapshot_destroy
<1> DEFINE snap == snaps[i]   last == next_id - 1
           prev == snap.prev   next == snap.next
           first == Set(snaps, prev, "next", next)
           second == Set(first, next, "prev", prev)
<1>4. i \in DOMAIN snaps
  BY DEF Listed, Reachable
<1>5. /\ last \in Nat /\ last <= MaxSnapshots /\ MaxSnapshots \in Nat /\ next_id - 1 = last
      /\ \A k \in DOMAIN snaps : Snapshot(snaps[k], last)
  BY <1>1 DEF HeapSound, ProgramIsSound
<1>6. Snapshot(snap, last) /\ snap \in CompleteSnapshot
      /\ prev \in 0 .. last /\ next \in 0 .. last
  BY <1>4, <1>5 DEF Snapshot
<1>7. /\ snaps' = Without(second, i)
      /\ snapshots' = IF prev = NULL THEN next ELSE snapshots
      /\ current' = IF current = i THEN prev ELSE current
      /\ refs' = Release(refs, snap) /\ snap = snaps[i]
  BY <1>2
<1> HIDE DEF snap, last, prev, next
<1>8. /\ DOMAIN first = DOMAIN snaps
      /\ \A k \in DOMAIN snaps : /\ Snapshot(first[k], last)
                                /\ first[k].locals = snaps[k].locals
                                /\ first[k].stack = snaps[k].stack
  <2>1. last \in Nat /\ last <= MaxSnapshots /\ MaxSnapshots \in Nat
    BY <1>5
  <2>2. Snapshots(snaps, last)
    BY <1>5 DEF Snapshots
  <2>3. next \in 0 .. last
    BY <1>6
  <2>4. "next" \in {"prev", "next"}
    OBVIOUS
  <2>5. Relinked(snaps, Set(snaps, prev, "next", next), last)
    BY ONLY <2>1, <2>2, <2>3, <2>4, SetKeeps
  <2> QED
    BY <2>5 DEF Relinked
<1> HIDE DEF first
<1>9. /\ DOMAIN second = DOMAIN snaps
      /\ \A k \in DOMAIN snaps : /\ Snapshot(second[k], last)
                                /\ second[k].locals = snaps[k].locals
                                /\ second[k].stack = snaps[k].stack
  <2>1. last \in Nat /\ last <= MaxSnapshots /\ MaxSnapshots \in Nat
    BY <1>5
  <2>2. Snapshots(first, last)
    BY <1>8 DEF Snapshots
  <2>3. prev \in 0 .. last
    BY <1>6
  <2>4. "prev" \in {"prev", "next"}
    OBVIOUS
  <2>5. Relinked(first, Set(first, next, "prev", prev), last)
    BY ONLY <2>1, <2>2, <2>3, <2>4, SetKeeps
  <2> QED
    BY <1>8, <2>5 DEF Relinked
<1> HIDE DEF second
<1>10. /\ DOMAIN snaps' = DOMAIN snaps \ {i}
       /\ \A k \in DOMAIN snaps' : /\ Snapshot(snaps'[k], last)
                                  /\ snaps'[k].locals = snaps[k].locals
                                  /\ snaps'[k].stack = snaps[k].stack
  BY <1>7, <1>9 DEF Without
<1>11. HeapSound'
  <2>1. DOMAIN snaps' \subseteq 1 .. last
    BY <1>1, <1>5, <1>10 DEF HeapSound
  <2>2. snapshots' \in 0 .. last /\ current' \in 0 .. last
    BY <1>1, <1>5, <1>6, <1>7 DEF HeapSound
  <2>3. next_id' \in 1 .. MaxSnapshots + 1 /\ next_id' - 1 = last
    BY <1>1, <1>3, <1>5 DEF HeapSound
  <2> QED
    BY <1>10, <2>1, <2>2, <2>3 DEF HeapSound
<1>12. /\ \A p \in Objects : refs'[p] = refs[p] - Times(p, snap.stack) - Times(p, snap.locals)
       /\ refs' = [p \in Objects |-> refs'[p]]
  BY <1>7 DEF Release, value_release
<1>13. ASSUME NEW p \in Objects
       PROVE  Counted(p)' /\ refs'[p] \in Int /\ (p \notin made' => Unseen(p)')
  <2>1. /\ Times(p, locals) \in Nat /\ Times(p, stack) \in Nat
        /\ Cardinality(Saved(p, snaps)) \in Nat /\ IsFiniteSet(Saved(p, snaps))
        /\ refs[p] \in Int /\ surplus[p] \in Int
        /\ refs[p] = Times(p, locals) + Times(p, stack) + Cardinality(Saved(p, snaps)) + surplus[p]
    BY MachineFacts
  <2>2. /\ IsFiniteSet(Copies(p, i, snaps[i]))
        /\ Times(p, snap.locals) \in Nat /\ Times(p, snap.stack) \in Nat
        /\ Cardinality(Copies(p, i, snaps[i])) = Times(p, snap.locals) + Times(p, snap.stack)
    BY <1>6, <1>7, SnapshotFacts
  <2>3. /\ IsFiniteSet(Saved(p, snaps')) /\ Saved(p, snaps') \subseteq Saved(p, snaps)
        /\ Cardinality(Saved(p, snaps'))
              = Cardinality(Saved(p, snaps)) - Cardinality(Copies(p, i, snaps[i]))
    BY <1>4, <1>10, <2>1, <2>2, SavedRemove
  <2>4. refs'[p] = refs[p] - Times(p, snap.stack) - Times(p, snap.locals)
    BY <1>12
  <2>5. refs'[p] = Times(p, locals) + Times(p, stack) + Cardinality(Saved(p, snaps')) + surplus[p]
    BY <2>1, <2>2, <2>3, <2>4
  <2>6. refs'[p] = Times(p, locals') + Times(p, stack') + Cardinality(Saved(p, snaps')) + surplus'[p]
    BY <1>3, <2>5
  <2>7. Counted(p)'
    BY <2>3, <2>6 DEF Counted, Holders
  <2>8. refs'[p] \in Int
    BY <2>1, <2>2, <2>4
  <2>9. p \notin made' => Unseen(p)'
    BY <1>3, <2>3 DEF IInv, Unseen
  <2> QED
    BY <2>7, <2>8, <2>9
<1>14. MachineSound'
  <2>1. refs' \in [Objects -> Int]
    BY <1>12, <1>13
  <2> QED
    BY <1>1, <1>3, <2>1 DEF MachineSound
<1> QED
  BY <1>11, <1>13, <1>14 DEF IInv

(* The new snapshot takes a reference for each of its copies; what the     *)
(* eviction frees gives its own back.                                      *)
LEMMA CreateKeeps ==
  ASSUME ProgramIsSound, IInv, snapshot_create
  PROVE  IInv'
<1>1. MachineSound /\ HeapSound
  BY DEF IInv
<1> DEFINE id == next_id
           before == IF snapshots = NULL THEN NULL ELSE current
           snap == [locals |-> locals, stack |-> stack, due |-> due,
                    prev |-> before, next |-> NULL]
           added == [i \in DOMAIN snaps \cup {id} |-> IF i = id THEN snap ELSE snaps[i]]
           linked == Set(added, before, "next", id)
           first == IF snapshots = NULL THEN id ELSE snapshots
           held == value_retain(value_retain(refs, locals), stack)
           next == linked[first].next
           freed == Set(linked, next, "prev", NULL)
<1>2. /\ \/ /\ snaps' = linked /\ snapshots' = first /\ current' = id /\ refs' = held
         \/ /\ first \in DOMAIN linked
            /\ snapshots' = next /\ snaps' = Without(freed, first)
            /\ current' = IF first = id THEN NULL ELSE id
            /\ refs' = Release(held, linked[first])
      /\ next_id' = id + 1
  BY DEF snapshot_create, Overfull
<1>3. id <= MaxSnapshots /\ UNCHANGED <<made, locals, stack, due, surplus>>
  BY DEF snapshot_create
<1>4. /\ id \in Nat /\ MaxSnapshots \in Nat /\ id = next_id /\ id \in 1 .. MaxSnapshots
      /\ DOMAIN snaps \subseteq 1 .. id - 1 /\ id \notin DOMAIN snaps
      /\ snapshots \in 0 .. id - 1 /\ current \in 0 .. id - 1
      /\ \A i \in DOMAIN snaps : Snapshot(snaps[i], id - 1)
  BY <1>1, <1>3 DEF HeapSound, ProgramIsSound
<1>5. before \in 0 .. id /\ first \in 0 .. id
  BY <1>4 DEF NULL
<1>6. snap.locals = locals /\ snap.stack = stack /\ snap.due = due
  OBVIOUS
<1>7. Snapshot(snap, id)
  <2>1. /\ locals \in [Slots -> Value] /\ stack \in Seq(Value) /\ due \in SUBSET Slots
        /\ before \in 0 .. MaxSnapshots /\ NULL \in 0 .. MaxSnapshots /\ NULL \in 0 .. id
    BY <1>1, <1>4, <1>5 DEF MachineSound, NULL
  <2> HIDE DEF before, id
  <2> QED
    BY <1>5, <2>1 DEF Snapshot, CompleteSnapshot
<1>8. /\ DOMAIN added = DOMAIN snaps \cup {id} /\ added[id] = snap
      /\ \A i \in DOMAIN snaps : added[i] = snaps[i]
  BY <1>4
<1> HIDE DEF id, before, snap, added, first
<1>9. \A i \in DOMAIN snaps : Snapshot(snaps[i], id)
  BY <1>4 DEF Snapshot
<1>10. \A i \in DOMAIN added : Snapshot(added[i], id)
  BY <1>7, <1>8, <1>9
<1>11. /\ DOMAIN linked = DOMAIN added
       /\ \A i \in DOMAIN added : /\ Snapshot(linked[i], id)
                                 /\ linked[i].locals = added[i].locals
                                 /\ linked[i].stack = added[i].stack
  <2>1. id \in Nat /\ id <= MaxSnapshots /\ MaxSnapshots \in Nat
    BY <1>4
  <2>2. Snapshots(added, id)
    BY <1>10 DEF Snapshots
  <2>3. id \in 0 .. id
    BY <1>4
  <2>4. "next" \in {"prev", "next"}
    OBVIOUS
  <2>5. Relinked(added, Set(added, before, "next", id), id)
    BY ONLY <2>1, <2>2, <2>3, <2>4, SetKeeps
  <2> QED
    BY <2>5 DEF Relinked
<1> HIDE DEF linked
<1>12. /\ DOMAIN linked = DOMAIN snaps \cup {id}
       /\ linked[id].locals = locals /\ linked[id].stack = stack
       /\ \A i \in DOMAIN snaps : linked[i].locals = snaps[i].locals /\ linked[i].stack = snaps[i].stack
       /\ \A i \in DOMAIN linked : Snapshot(linked[i], id) /\ linked[i] \in CompleteSnapshot
  BY <1>6, <1>8, <1>11 DEF Snapshot
<1>13. /\ \A p \in Objects : held[p] = refs[p] + Times(p, locals) + Times(p, stack)
       /\ held = [p \in Objects |-> held[p]]
  BY DEF value_retain
<1> HIDE DEF held
<1>14. ASSUME NEW p \in Objects
       PROVE  /\ IsFiniteSet(Saved(p, linked)) /\ Cardinality(Saved(p, linked)) \in Nat
              /\ held[p] \in Int
              /\ held[p] = Times(p, locals) + Times(p, stack) + Cardinality(Saved(p, linked)) + surplus[p]
              /\ p \notin made => Saved(p, linked) = {}
  <2>1. /\ Times(p, locals) \in Nat /\ Times(p, stack) \in Nat
        /\ Cardinality(Saved(p, snaps)) \in Nat /\ IsFiniteSet(Saved(p, snaps))
        /\ refs[p] \in Int /\ surplus[p] \in Int
        /\ refs[p] = Times(p, locals) + Times(p, stack) + Cardinality(Saved(p, snaps)) + surplus[p]
    BY MachineFacts
  <2>2. id \in DOMAIN linked /\ linked[id] \in CompleteSnapshot
    BY <1>12
  <2>3. /\ IsFiniteSet(Copies(p, id, linked[id]))
        /\ Cardinality(Copies(p, id, linked[id])) = Times(p, linked[id].locals) + Times(p, linked[id].stack)
    BY <2>2, SnapshotFacts
  <2>4. Cardinality(Copies(p, id, linked[id])) = Times(p, locals) + Times(p, stack)
    BY <1>12, <2>3
  <2>5. /\ IsFiniteSet(Saved(p, linked))
        /\ Saved(p, linked) = Saved(p, snaps) \cup Copies(p, id, linked[id])
        /\ Cardinality(Saved(p, linked))
              = Cardinality(Saved(p, snaps)) + Cardinality(Copies(p, id, linked[id]))
    <3>1. id \notin DOMAIN snaps
      BY <1>4
    <3>2. DOMAIN linked = DOMAIN snaps \cup {id}
      BY <1>12
    <3>3. \A i \in DOMAIN snaps : linked[i].locals = snaps[i].locals /\ linked[i].stack = snaps[i].stack
      BY <1>12
    <3>4. IsFiniteSet(Saved(p, snaps)) /\ IsFiniteSet(Copies(p, id, linked[id]))
      BY <2>1, <2>3
    <3> QED
      BY ONLY <3>1, <3>2, <3>3, <3>4, SavedAdd
  <2>6. held[p] = refs[p] + Times(p, locals) + Times(p, stack)
    BY <1>13
  <2>7. Cardinality(Saved(p, linked)) = Cardinality(Saved(p, snaps)) + Times(p, locals) + Times(p, stack)
    BY <2>1, <2>4, <2>5
  <2>8. held[p] = Times(p, locals) + Times(p, stack) + Cardinality(Saved(p, linked)) + surplus[p]
    BY <2>1, <2>6, <2>7
  <2>9. held[p] \in Int /\ Cardinality(Saved(p, linked)) \in Nat
    BY <2>1, <2>6, <2>7
  <2>10. p \notin made => Saved(p, linked) = {}
    <3> SUFFICES ASSUME p \notin made PROVE Saved(p, linked) = {}
      OBVIOUS
    <3>1. Unseen(p)
      BY DEF IInv
    <3>2. \A k \in Slots : linked[id].locals[k] # p
      BY <1>12, <3>1 DEF Unseen
    <3>3. \A k \in DOMAIN linked[id].stack : linked[id].stack[k] # p
      BY <1>12, <3>1 DEF Unseen
    <3>4. Copies(p, id, linked[id]) = {}
      BY <3>2, <3>3 DEF Copies
    <3> QED
      BY <2>5, <3>1, <3>4 DEF Unseen
  <2> QED
    BY <2>5, <2>8, <2>9, <2>10
<1>15. DOMAIN linked \subseteq 1 .. id
  BY <1>4, <1>12
<1>16. next_id' = id + 1 /\ next_id' - 1 = id /\ next_id' \in 1 .. MaxSnapshots + 1
  BY <1>2, <1>4
<1>17. CASE snaps' = linked /\ snapshots' = first /\ current' = id /\ refs' = held
  <2>1. HeapSound'
    <3>1. snapshots' \in 0 .. id /\ current' \in 0 .. id
      BY <1>4, <1>5, <1>17
    <3> QED
      BY <1>12, <1>15, <1>16, <1>17, <3>1 DEF HeapSound
  <2>2. MachineSound'
    <3>1. held \in [Objects -> Int]
      BY <1>13, <1>14
    <3> QED
      BY <1>1, <1>3, <1>17, <3>1 DEF MachineSound
  <2>3. ASSUME NEW p \in Objects
        PROVE  Counted(p)' /\ (p \notin made' => Unseen(p)')
    <3>1. Counted(p)'
      BY <1>3, <1>14, <1>17 DEF Counted, Holders
    <3>2. p \notin made' => Unseen(p)'
      BY <1>3, <1>14, <1>17 DEF IInv, Unseen
    <3> QED
      BY <3>1, <3>2
  <2> QED
    BY <2>1, <2>2, <2>3 DEF IInv
<1>18. CASE /\ first \in DOMAIN linked
            /\ snapshots' = next /\ snaps' = Without(freed, first)
            /\ current' = IF first = id THEN NULL ELSE id
            /\ refs' = Release(held, linked[first])
  <2> DEFINE old == linked[first]
  <2>1. /\ old \in CompleteSnapshot /\ next \in 0 .. id /\ old = linked[first]
    BY <1>12, <1>18 DEF Snapshot
  <2> HIDE DEF old, next
  <2>2. /\ DOMAIN freed = DOMAIN linked
        /\ \A i \in DOMAIN linked : /\ Snapshot(freed[i], id)
                                   /\ freed[i].locals = linked[i].locals
                                   /\ freed[i].stack = linked[i].stack
    <3>1. id \in Nat /\ id <= MaxSnapshots /\ MaxSnapshots \in Nat
      BY <1>4
    <3>2. Snapshots(linked, id)
      BY <1>12 DEF Snapshots
    <3>3. NULL \in 0 .. id
      BY <1>4 DEF NULL
    <3>4. "prev" \in {"prev", "next"}
      OBVIOUS
    <3>5. Relinked(linked, Set(linked, next, "prev", NULL), id)
      BY ONLY <3>1, <3>2, <3>3, <3>4, SetKeeps
    <3> QED
      BY <3>5 DEF Relinked
  <2> HIDE DEF freed
  <2>3. /\ DOMAIN snaps' = DOMAIN linked \ {first}
        /\ \A k \in DOMAIN snaps' : /\ Snapshot(snaps'[k], id)
                                   /\ snaps'[k].locals = linked[k].locals
                                   /\ snaps'[k].stack = linked[k].stack
    BY <1>18, <2>2 DEF Without
  <2>4. HeapSound'
    <3>1. snapshots' \in 0 .. id /\ current' \in 0 .. id
      BY <1>4, <1>18, <2>1 DEF NULL
    <3> QED
      BY <1>15, <1>16, <2>3, <3>1 DEF HeapSound
  <2>5. /\ \A p \in Objects : refs'[p] = held[p] - Times(p, old.stack) - Times(p, old.locals)
        /\ refs' = [p \in Objects |-> refs'[p]]
    BY <1>18, <2>1 DEF Release, value_release
  <2>6. ASSUME NEW p \in Objects
        PROVE  Counted(p)' /\ refs'[p] \in Int /\ (p \notin made' => Unseen(p)')
    <3>1. /\ Times(p, locals) \in Nat /\ Times(p, stack) \in Nat /\ surplus[p] \in Int
      BY MachineFacts
    <3>2. /\ Cardinality(Saved(p, linked)) \in Nat /\ IsFiniteSet(Saved(p, linked))
          /\ held[p] \in Int
          /\ held[p] = Times(p, locals) + Times(p, stack) + Cardinality(Saved(p, linked)) + surplus[p]
      BY <1>14
    <3>3. /\ IsFiniteSet(Copies(p, first, linked[first]))
          /\ Times(p, old.locals) \in Nat /\ Times(p, old.stack) \in Nat
          /\ Cardinality(Copies(p, first, linked[first])) = Times(p, old.locals) + Times(p, old.stack)
      BY <2>1, SnapshotFacts
    <3>4. /\ IsFiniteSet(Saved(p, snaps')) /\ Saved(p, snaps') \subseteq Saved(p, linked)
          /\ Cardinality(Saved(p, snaps'))
                = Cardinality(Saved(p, linked)) - Cardinality(Copies(p, first, linked[first]))
      <4>1. first \in DOMAIN linked
        BY <1>18
      <4>2. DOMAIN snaps' = DOMAIN linked \ {first}
        BY <2>3
      <4>3. \A k \in DOMAIN snaps' : snaps'[k].locals = linked[k].locals
                                    /\ snaps'[k].stack = linked[k].stack
        BY <2>3
      <4>4. IsFiniteSet(Saved(p, linked)) /\ IsFiniteSet(Copies(p, first, linked[first]))
        BY <3>2, <3>3
      <4> QED
        BY ONLY <4>1, <4>2, <4>3, <4>4, SavedRemove
    <3>5. refs'[p] = held[p] - Times(p, old.stack) - Times(p, old.locals)
      BY <2>5
    <3>6. refs'[p] = Times(p, locals) + Times(p, stack) + Cardinality(Saved(p, snaps')) + surplus[p]
      BY <3>1, <3>2, <3>3, <3>4, <3>5
    <3>7. refs'[p] = Times(p, locals') + Times(p, stack') + Cardinality(Saved(p, snaps')) + surplus'[p]
      BY <1>3, <3>6
    <3>8. Counted(p)'
      BY <3>4, <3>7 DEF Counted, Holders
    <3>9. refs'[p] \in Int
      BY <3>2, <3>3, <3>5
    <3>10. p \notin made' => Unseen(p)'
      BY <1>3, <1>14, <3>4 DEF IInv, Unseen
    <3> QED
      BY <3>8, <3>9, <3>10
  <2>7. MachineSound'
    <3>1. refs' \in [Objects -> Int]
      BY <2>5, <2>6
    <3> QED
      BY <1>1, <1>3, <3>1 DEF MachineSound
  <2> QED
    BY <2>4, <2>6, <2>7 DEF IInv
<1> QED
  BY <1>2, <1>17, <1>18

-----------------------------------------------------------------------------
(* The list.  That it is sound is not inductive: what is created while the *)
(* current snapshot is astray hangs behind nothing that a walk meets, and  *)
(* one has to know that it never gets back in, and where it points to.     *)

(* The head begins the list, and what a walk over it meets is linked both  *)
(* ways, the older one before.                                             *)
Linked(s, head) ==
  /\ head # NULL => head \in DOMAIN s /\ s[head].prev = NULL
  /\ \A k \in Reachable(s, head) :
       s[k].next # NULL =>
         s[k].next \in DOMAIN s /\ s[k].next > k /\ s[s[k].next].prev = k

(* Snapshot c is in a part of the heap no walk from the head meets, and    *)
(* that the way back from c does not leave.                                *)
Outside(s, head, c) ==
  \E S \in SUBSET (DOMAIN s \ Reachable(s, head)) :
    c \in S /\ \A k \in S : s[k].prev \in S \cup {NULL}

(* Where the current snapshot may be.                                      *)
Placed(s, head, c, lost) ==
  \/ head = NULL /\ c = NULL
  \/ c \in Reachable(s, head)
  \/ lost /\ (c = NULL \/ Outside(s, head, c))

ListInv ==
  /\ Linked(snaps, snapshots)
  /\ Placed(snaps, snapshots, current, astray)
  /\ Cardinality(Listed) <= max_snapshots

(* The ids of a heap are not NULL.                                         *)
Heap(s) == DOMAIN s \subseteq Nat \ {NULL}

(* A set a walk does not leave and that begins at the head has all it      *)
(* meets.                                                                  *)
LEMMA ReachableWithin ==
  ASSUME NEW s, NEW head, NEW S \in SUBSET DOMAIN s, ClosedUnderNext(s, S),
         head \in DOMAIN s => head \in S
  PROVE  Reachable(s, head) \subseteq S
BY DEF Reachable

(* The head is met, and what follows what is met.                          *)
LEMMA ReachableIsClosed ==
  ASSUME NEW s, NEW head
  PROVE  /\ Reachable(s, head) \subseteq DOMAIN s
         /\ head \in DOMAIN s => head \in Reachable(s, head)
         /\ head \notin DOMAIN s => Reachable(s, head) = {}
         /\ ClosedUnderNext(s, Reachable(s, head))
<1>1. Reachable(s, head) \subseteq DOMAIN s
  BY DEF Reachable
<1>2. head \in DOMAIN s => head \in Reachable(s, head)
  BY DEF Reachable
<1>3. head \notin DOMAIN s => Reachable(s, head) = {}
  <2> SUFFICES ASSUME head \notin DOMAIN s PROVE Reachable(s, head) \subseteq {}
    OBVIOUS
  <2>1. ClosedUnderNext(s, {}) /\ {} \in SUBSET DOMAIN s
    BY DEF ClosedUnderNext
  <2> QED
    BY <2>1, ReachableWithin
<1>4. ASSUME NEW k \in Reachable(s, head), s[k].next \in DOMAIN s
      PROVE  s[k].next \in Reachable(s, head)
  <2> SUFFICES ASSUME NEW S \in SUBSET DOMAIN s, ClosedUnderNext(s, S),
                      head \in DOMAIN s => head \in S
               PROVE  s[k].next \in S
    BY <1>4 DEF Reachable
  <2>1. k \in S
    BY DEF Reachable
  <2> QED
    BY <1>4, <2>1 DEF ClosedUnderNext
<1> QED
  BY <1>1, <1>2, <1>3, <1>4 DEF ClosedUnderNext

(* What is met is the head or follows what is met.                         *)
LEMMA ReachableHasPrevious ==
  ASSUME NEW s, Heap(s), NEW head, Linked(s, head), NEW i \in Reachable(s, head)
  PROVE  /\ s[i].prev = NULL <=> i = head
         /\ i # head => /\ s[i].prev \in Reachable(s, head)
                        /\ s[s[i].prev].next = i
                        /\ s[i].prev < i
<1> DEFINE L == Reachable(s, head)
<1>1. L \subseteq DOMAIN s /\ ClosedUnderNext(s, L) /\ (head \in DOMAIN s => head \in L)
      /\ (head \notin DOMAIN s => L = {})
  BY ReachableIsClosed
<1>2. head \in DOMAIN s /\ s[head].prev = NULL
  BY <1>1 DEF Linked, Heap
<1>3. CASE i # head
  <2>1. PICK q \in L : s[q].next = i
    <3> SUFFICES ASSUME \A q \in L : s[q].next # i
                 PROVE  FALSE
      OBVIOUS
    <3>1. ClosedUnderNext(s, L \ {i})
      BY <1>1 DEF ClosedUnderNext
    <3>2. L \ {i} \in SUBSET DOMAIN s /\ head \in L \ {i}
      BY <1>1, <1>2, <1>3
    <3>3. L \subseteq L \ {i}
      <4> DEFINE S == L \ {i}
      <4>1. S \in SUBSET DOMAIN s /\ ClosedUnderNext(s, S) /\ head \in S
        BY <3>1, <3>2
      <4> HIDE DEF S
      <4>2. Reachable(s, head) \subseteq S
        BY <4>1, ReachableWithin
      <4> QED
        BY <4>2 DEF S
    <3> QED
      BY <3>3
  <2>2. i \in DOMAIN s /\ q \in DOMAIN s /\ i # NULL /\ q # NULL /\ i \in Nat /\ q \in Nat
    BY <1>1 DEF Heap
  <2>3. s[i].prev = q /\ i > q
    BY <2>1, <2>2 DEF Linked
  <2> QED
    BY <1>3, <2>1, <2>2, <2>3
<1> QED
  BY <1>2, <1>3

(* What writing to a pointer of a snapshot leaves of the pointers.         *)
LEMMA SetFields ==
  ASSUME NEW s, NEW i, NEW j \in 0 .. MaxSnapshots,
         \A k \in DOMAIN s : s[k] \in CompleteSnapshot /\ k # NULL
  PROVE  /\ DOMAIN Set(s, i, "next", j) = DOMAIN s
         /\ DOMAIN Set(s, i, "prev", j) = DOMAIN s
         /\ \A k \in DOMAIN s :
              /\ Set(s, i, "next", j)[k] \in CompleteSnapshot
              /\ Set(s, i, "next", j)[k].next = IF k = i THEN j ELSE s[k].next
              /\ Set(s, i, "next", j)[k].prev = s[k].prev
              /\ Set(s, i, "prev", j)[k] \in CompleteSnapshot
              /\ Set(s, i, "prev", j)[k].next = s[k].next
              /\ Set(s, i, "prev", j)[k].prev = IF k = i THEN j ELSE s[k].prev
<1>1. CASE i = NULL
  BY <1>1 DEF Set
<1>2. CASE i # NULL
  <2>1. Set(s, i, "next", j) = [s EXCEPT ![i]["next"] = j]
        /\ Set(s, i, "prev", j) = [s EXCEPT ![i]["prev"] = j]
    BY <1>2 DEF Set
  <2>2. ASSUME NEW k \in DOMAIN s
        PROVE  /\ [s EXCEPT ![i]["next"] = j][k] = IF k = i THEN [s[k] EXCEPT !["next"] = j] ELSE s[k]
               /\ [s EXCEPT ![i]["prev"] = j][k] = IF k = i THEN [s[k] EXCEPT !["prev"] = j] ELSE s[k]
    OBVIOUS
  <2>3. ASSUME NEW r \in CompleteSnapshot
        PROVE  /\ [r EXCEPT !["next"] = j] \in CompleteSnapshot
               /\ [r EXCEPT !["next"] = j].next = j /\ [r EXCEPT !["next"] = j].prev = r.prev
               /\ [r EXCEPT !["prev"] = j] \in CompleteSnapshot
               /\ [r EXCEPT !["prev"] = j].prev = j /\ [r EXCEPT !["prev"] = j].next = r.next
    BY DEF CompleteSnapshot
  <2>4. DOMAIN [s EXCEPT ![i]["next"] = j] = DOMAIN s /\ DOMAIN [s EXCEPT ![i]["prev"] = j] = DOMAIN s
    OBVIOUS
  <2> QED
    BY <2>1, <2>2, <2>3, <2>4
<1> QED
  BY <1>1, <1>2

(* What a snapshot unlinked from the list leaves of the pointers.          *)
Unlinked(s, i) ==
  Without(Set(Set(s, s[i].prev, "next", s[i].next), s[i].next, "prev", s[i].prev), i)

\* t has the fields of s without i.
WithoutPointersTo(s, i, t) ==
  /\ DOMAIN t = DOMAIN s \ {i}
  /\ \A k \in DOMAIN s \ {i} :
       /\ t[k].next = IF k = s[i].prev THEN s[i].next ELSE s[k].next
       /\ t[k].prev = IF k = s[i].next THEN s[i].prev ELSE s[k].prev

LEMMA UnlinkedFields ==
  ASSUME NEW last \in Nat, last <= MaxSnapshots, MaxSnapshots \in Nat,
         NEW s, Snapshots(s, last), Heap(s), NEW i \in DOMAIN s
  PROVE  WithoutPointersTo(s, i, Unlinked(s, i))
<1> DEFINE p == s[i].prev   n == s[i].next
           s1 == Set(s, p, "next", n)   s2 == Set(s1, n, "prev", p)
<1>1. \A k \in DOMAIN s : s[k] \in CompleteSnapshot /\ k # NULL
  BY DEF Snapshots, Snapshot, Heap
<1>2. p \in 0 .. last /\ n \in 0 .. last /\ p \in 0 .. MaxSnapshots /\ n \in 0 .. MaxSnapshots
  BY DEF Snapshots, Snapshot
<1>3. Unlinked(s, i) = Without(s2, i)
  BY DEF Unlinked
<1> HIDE DEF p, n
<1>4. /\ DOMAIN s1 = DOMAIN s
      /\ \A k \in DOMAIN s : /\ s1[k] \in CompleteSnapshot
                             /\ s1[k].next = IF k = p THEN n ELSE s[k].next
                             /\ s1[k].prev = s[k].prev
  BY <1>1, <1>2, SetFields DEF s1
<1> HIDE DEF s1
<1>5. /\ DOMAIN s2 = DOMAIN s
      /\ \A k \in DOMAIN s : /\ s2[k].next = s1[k].next
                             /\ s2[k].prev = IF k = n THEN p ELSE s1[k].prev
  BY <1>1, <1>2, <1>4, SetFields DEF s2
<1> HIDE DEF s2
<1>6. /\ DOMAIN Without(s2, i) = DOMAIN s \ {i}
      /\ \A k \in DOMAIN s \ {i} : Without(s2, i)[k] = s2[k]
  BY <1>5 DEF Without
<1> QED
  BY <1>3, <1>4, <1>5, <1>6 DEF p, n, WithoutPointersTo

(* Unlinking a snapshot, the head or another, takes it out of the walk and *)
(* nothing else, and what is left is linked.                               *)
LEMMA UnlinkKeeps ==
  ASSUME NEW last \in Nat, last <= MaxSnapshots, MaxSnapshots \in Nat,
         NEW s, Snapshots(s, last), Heap(s),
         NEW head, Linked(s, head), NEW i \in Reachable(s, head),
         NEW rest, rest = IF s[i].prev = NULL THEN s[i].next ELSE head
  PROVE  /\ Linked(Unlinked(s, i), rest)
         /\ Reachable(Unlinked(s, i), rest) = Reachable(s, head) \ {i}
<1> DEFINE L == Reachable(s, head)   t == Unlinked(s, i)
           p == s[i].prev   n == s[i].next   M == L \ {i}
<1>1. /\ L \subseteq DOMAIN s /\ i \in L /\ i \in DOMAIN s /\ DOMAIN s \subseteq Nat \ {NULL}
      /\ head \in DOMAIN s /\ head \in L
      /\ \A k \in L : s[k].next \in DOMAIN s => s[k].next \in L
  BY ReachableIsClosed DEF Heap, ClosedUnderNext
<1>2. /\ p = NULL <=> i = head
      /\ i # head => p \in L /\ s[p].next = i /\ p < i
  BY ReachableHasPrevious
<1>3. n # NULL => n \in DOMAIN s /\ n > i /\ s[n].prev = i
  BY DEF Linked
<1>4. s[head].prev = NULL
  BY <1>1 DEF Linked, Heap
<1>5. \A k \in L : s[k].next # NULL =>
        s[k].next \in DOMAIN s /\ s[k].next > k /\ s[s[k].next].prev = k
  BY DEF Linked
<1>6. /\ DOMAIN t = DOMAIN s \ {i}
      /\ \A k \in DOMAIN s \ {i} : /\ t[k].next = IF k = p THEN n ELSE s[k].next
                                   /\ t[k].prev = IF k = n THEN p ELSE s[k].prev
  <2>1. /\ last \in Nat /\ last <= MaxSnapshots /\ MaxSnapshots \in Nat
        /\ Snapshots(s, last) /\ Heap(s) /\ i \in DOMAIN s
    BY <1>1
  <2>2. WithoutPointersTo(s, i, Unlinked(s, i))
    BY ONLY <2>1, UnlinkedFields
  <2> QED
    BY <2>2 DEF WithoutPointersTo
<1>7. rest = IF p = NULL THEN n ELSE head
  OBVIOUS
<1> HIDE DEF L, t, p, n
<1>8. p # i /\ n # i /\ (n # NULL => n # head)
  BY <1>1, <1>2, <1>3, <1>4
<1>9. M \in SUBSET DOMAIN t
  BY <1>1, <1>6
<1>10. \A k \in M : t[k].next \in DOMAIN t => t[k].next \in M
  <2> SUFFICES ASSUME NEW k \in M, t[k].next \in DOMAIN t PROVE t[k].next \in M
    OBVIOUS
  <2>1. CASE k = p
    BY <1>1, <1>3, <1>6, <1>8, <2>1 DEF n
  <2>2. CASE k # p
    BY <1>1, <1>6, <2>2
  <2> QED
    BY <2>1, <2>2
<1>11. rest \in DOMAIN t => rest \in M
  <2>1. CASE p = NULL
    BY <1>1, <1>6, <1>7, <1>8, <2>1 DEF n
  <2>2. CASE p # NULL
    BY <1>1, <1>2, <1>7, <2>2
  <2> QED
    BY <2>1, <2>2
<1>12. Reachable(t, rest) \subseteq M
  <2>1. ClosedUnderNext(t, M)
    BY <1>10 DEF ClosedUnderNext
  <2> HIDE DEF M
  <2> QED
    BY <1>9, <1>11, <2>1, ReachableWithin
<1>13. ASSUME NEW S \in SUBSET DOMAIN t, ClosedUnderNext(t, S), rest \in DOMAIN t => rest \in S
       PROVE  M \subseteq S
  <2>1. \A k \in S : t[k].next \in DOMAIN t => t[k].next \in S
    BY <1>13 DEF ClosedUnderNext
  <2>2. S \subseteq DOMAIN s /\ i \notin S
    BY <1>6
  <2>3. CASE p = NULL \/ p \in S
    <3> DEFINE T == S \cup {i}
    <3>1. n \in DOMAIN s => n \in S
      <4> SUFFICES ASSUME n \in DOMAIN s PROVE n \in S
        OBVIOUS
      <4>1. n \in DOMAIN t
        BY <1>6, <1>8
      <4>2. CASE p = NULL
        BY <1>7, <1>13, <4>1, <4>2
      <4>3. CASE p \in S
        BY <1>6, <2>1, <2>2, <4>1, <4>3
      <4> QED
        BY <2>3, <4>2, <4>3
    <3>2. ASSUME NEW k \in T, s[k].next \in DOMAIN s PROVE s[k].next \in T
      <4>1. CASE k = i
        BY <3>1, <3>2, <4>1 DEF n
      <4>2. CASE k # i
        <5>1. k \in S /\ k \in DOMAIN s \ {i}
          BY <2>2, <4>2
        <5>2. CASE k = p
          BY <1>2, <5>1, <5>2, <1>1
        <5>3. CASE k # p
          BY <1>6, <2>1, <3>2, <5>1, <5>3
        <5> QED
          BY <5>2, <5>3
      <4> QED
        BY <4>1, <4>2
    <3>3. ClosedUnderNext(s, T)
      BY <3>2 DEF ClosedUnderNext
    <3>4. T \in SUBSET DOMAIN s
      BY <1>1, <2>2
    <3>5. head \in T
      <4>1. CASE p = NULL
        BY <1>2, <4>1
      <4>2. CASE p # NULL
        BY <1>1, <1>2, <1>6, <1>7, <1>13, <4>2
      <4> QED
        BY <4>1, <4>2
    <3> HIDE DEF T
    <3>6. L \subseteq T
      BY <3>3, <3>4, <3>5, ReachableWithin DEF L
    <3> QED
      BY <3>6 DEF T
  <2>4. CASE p # NULL /\ p \notin S
    <3> DEFINE T == S \cap L
    <3>1. head \in T
      BY <1>1, <1>2, <1>6, <1>7, <1>13, <2>4
    <3>2. ASSUME NEW k \in T, s[k].next \in DOMAIN s PROVE s[k].next \in T
      <4>1. k \in L /\ k \in S /\ k # p /\ k \in DOMAIN s \ {i} /\ s[k].next # NULL
        BY <1>1, <2>2, <2>4, <3>2
      <4>2. s[k].next \in L /\ s[s[k].next].prev = k
        BY <1>1, <1>5, <3>2, <4>1
      <4>3. s[k].next # i
        BY <4>1, <4>2 DEF p
      <4>4. t[k].next = s[k].next
        BY <1>6, <4>1
      <4>5. s[k].next \in S
        BY <1>6, <2>1, <3>2, <4>1, <4>3, <4>4
      <4> QED
        BY <4>2, <4>5
    <3>3. ClosedUnderNext(s, T)
      BY <3>2 DEF ClosedUnderNext
    <3>4. T \in SUBSET DOMAIN s /\ i \notin T
      BY <2>2
    <3> HIDE DEF T
    <3>5. L \subseteq T
      BY <3>1, <3>3, <3>4, ReachableWithin DEF L
    <3> QED
      BY <1>1, <3>4, <3>5
  <2> QED
    BY <2>3, <2>4
<1>14. M \subseteq Reachable(t, rest)
  <2> HIDE DEF M
  <2> QED
    BY <1>9, <1>13 DEF Reachable
<1>15. Reachable(t, rest) = M
  BY <1>12, <1>14
<1>16. rest # NULL => rest \in DOMAIN t /\ t[rest].prev = NULL
  <2> SUFFICES ASSUME rest # NULL PROVE rest \in DOMAIN t /\ t[rest].prev = NULL
    OBVIOUS
  <2>1. CASE p = NULL
    BY <1>3, <1>6, <1>7, <1>8, <2>1
  <2>2. CASE p # NULL
    BY <1>1, <1>2, <1>4, <1>6, <1>7, <1>8, <2>2
  <2> QED
    BY <2>1, <2>2
<1>17. ASSUME NEW k \in M, t[k].next # NULL
       PROVE  t[k].next \in DOMAIN t /\ t[k].next > k /\ t[t[k].next].prev = k
  <2>0. k \in L /\ k # i /\ k \in DOMAIN s \ {i} /\ k # NULL /\ k \in Nat /\ i \in Nat
    BY <1>1
  <2>1. CASE k = p
    <3>1. t[k].next = n
      BY <1>6, <2>0, <2>1
    <3>2. n # NULL /\ n \in DOMAIN t /\ n > i /\ n \in Nat
      BY <1>1, <1>3, <1>6, <1>8, <1>17, <3>1
    <3>3. p < i
      BY <1>2, <2>0, <2>1
    <3>4. t[n].prev = k
      BY <1>6, <2>1, <3>2
    <3> QED
      BY <2>0, <2>1, <3>1, <3>2, <3>3, <3>4
  <2>2. CASE k # p
    <3>1. t[k].next = s[k].next
      BY <1>6, <2>0, <2>2
    <3>2. s[k].next \in DOMAIN s /\ s[k].next > k /\ s[s[k].next].prev = k
      BY <1>5, <1>17, <2>0, <3>1
    <3>3. s[k].next # i
      BY <2>2, <3>2 DEF p
    <3>4. s[k].next # n
      BY <1>3, <1>17, <2>0, <3>1, <3>2
    <3> QED
      BY <1>6, <3>1, <3>2, <3>3, <3>4
  <2> QED
    BY <2>1, <2>2
<1>18. Linked(t, rest)
  BY <1>15, <1>16, <1>17 DEF Linked
<1> QED
  BY <1>15, <1>18 DEF L, t

(* t is s with a snapshot id more, put behind c if c is in s.              *)
AppendedTo(s, t, c, id) ==
  /\ DOMAIN t = DOMAIN s \cup {id}
  /\ t[id].prev = c /\ t[id].next = NULL
  /\ \A k \in DOMAIN s : /\ t[k].prev = s[k].prev
                         /\ t[k].next = IF k = c THEN id ELSE s[k].next

(* The first snapshot of a list.                                           *)
LEMMA AppendFirst ==
  ASSUME NEW s, NEW t, Heap(s), NEW id \in Nat \ {NULL}, id \notin DOMAIN s,
         AppendedTo(s, t, NULL, id)
  PROVE  Linked(t, id) /\ Reachable(t, id) = {id}
<1>1. id \in DOMAIN t /\ t[id].prev = NULL /\ t[id].next = NULL /\ NULL \notin DOMAIN t
  BY DEF AppendedTo, Heap
<1>2. ClosedUnderNext(t, {id}) /\ {id} \in SUBSET DOMAIN t
  BY <1>1 DEF ClosedUnderNext
<1>3. Reachable(t, id) \subseteq {id}
  <2> DEFINE S == {id}
  <2>1. ClosedUnderNext(t, S) /\ S \in SUBSET DOMAIN t /\ id \in S
    BY <1>2
  <2> HIDE DEF S
  <2>2. Reachable(t, id) \subseteq S
    BY <2>1, ReachableWithin
  <2> QED
    BY <2>2 DEF S
<1>4. Reachable(t, id) = {id}
  BY <1>1, <1>3, ReachableIsClosed
<1> QED
  BY <1>1, <1>4 DEF Linked

(* One behind a snapshot of the list.                                      *)
LEMMA AppendBehind ==
  ASSUME NEW s, NEW t, Heap(s), NEW id \in Nat \ {NULL}, \A k \in DOMAIN s : k < id,
         NEW head, Linked(s, head), NEW c \in Reachable(s, head), AppendedTo(s, t, c, id)
  PROVE  /\ Linked(t, head) /\ id \in Reachable(t, head)
         /\ Reachable(t, head) \subseteq Reachable(s, head) \cup {id}
<1> DEFINE L == Reachable(s, head)   T == Reachable(t, head)
<1>1. /\ L \subseteq DOMAIN s /\ DOMAIN s \subseteq Nat \ {NULL} /\ c \in L
      /\ head \in DOMAIN s /\ head \in L
      /\ \A k \in L : s[k].next \in DOMAIN s => s[k].next \in L
  BY ReachableIsClosed DEF Heap, ClosedUnderNext
<1>2. /\ DOMAIN t = DOMAIN s \cup {id} /\ t[id].prev = c /\ t[id].next = NULL
      /\ \A k \in DOMAIN s : /\ t[k].prev = s[k].prev
                             /\ t[k].next = IF k = c THEN id ELSE s[k].next
  BY DEF AppendedTo
<1>3. s[head].prev = NULL
  BY <1>1 DEF Linked, Heap
<1>4. \A k \in L : s[k].next # NULL =>
        s[k].next \in DOMAIN s /\ s[k].next > k /\ s[s[k].next].prev = k
  BY DEF Linked
<1>5. id \notin DOMAIN s
  BY <1>1
<1>6. T \subseteq L \cup {id}
  <2> DEFINE S == L \cup {id}
  <2>1. S \in SUBSET DOMAIN t /\ head \in S
    BY <1>1, <1>2
  <2>2. ASSUME NEW k \in S, t[k].next \in DOMAIN t PROVE t[k].next \in S
    <3>1. CASE k = id
      BY <1>1, <1>2, <2>2, <3>1
    <3>2. CASE k = c
      BY <1>1, <1>2, <3>2
    <3>3. CASE k # id /\ k # c
      <4>1. k \in L /\ t[k].next = s[k].next
        BY <1>1, <1>2, <3>3
      <4> QED
        BY <1>1, <1>2, <2>2, <4>1
    <3> QED
      BY <3>1, <3>2, <3>3
  <2>3. ClosedUnderNext(t, S)
    BY <2>2 DEF ClosedUnderNext
  <2> HIDE DEF S
  <2>4. T \subseteq S
    BY <2>1, <2>3, ReachableWithin
  <2> QED
    BY <2>4 DEF S
<1> HIDE DEF L
<1>7. ASSUME NEW S \in SUBSET DOMAIN t, ClosedUnderNext(t, S), head \in DOMAIN t => head \in S
      PROVE  id \in S
  <2>1. \A k \in S : t[k].next \in DOMAIN t => t[k].next \in S
    BY <1>7 DEF ClosedUnderNext
  <2>2. CASE c \in S
    BY <1>1, <1>2, <2>1, <2>2
  <2>3. CASE c \notin S
    <3> DEFINE R == S \cap DOMAIN s
    <3>1. R \in SUBSET DOMAIN s /\ head \in R /\ c \notin R
      BY <1>1, <1>2, <1>7, <2>3
    <3>2. ASSUME NEW k \in R, s[k].next \in DOMAIN s PROVE s[k].next \in R
      <4>1. t[k].next = s[k].next
        BY <1>2, <2>3
      <4> QED
        BY <1>2, <2>1, <3>2, <4>1
    <3>3. ClosedUnderNext(s, R)
      BY <3>2 DEF ClosedUnderNext
    <3> HIDE DEF R
    <3>4. L \subseteq R
      BY <3>1, <3>3, ReachableWithin DEF L
    <3> QED
      BY <1>1, <3>1, <3>4
  <2> QED
    BY <2>2, <2>3
<1>8. id \in T
  BY <1>2, <1>7 DEF Reachable
<1>9. head \in DOMAIN t /\ t[head].prev = NULL
  BY <1>1, <1>2, <1>3
<1> HIDE DEF T
<1>10. ASSUME NEW k \in T, t[k].next # NULL
       PROVE  t[k].next \in DOMAIN t /\ t[k].next > k /\ t[t[k].next].prev = k
  <2>1. CASE k = id
    BY <1>2, <1>10, <2>1
  <2>2. CASE k = c
    BY <1>1, <1>2, <2>2
  <2>3. CASE k # id /\ k # c
    <3>1. k \in L /\ k \in DOMAIN s /\ t[k].next = s[k].next
      BY <1>1, <1>2, <1>6, <2>3
    <3>2. s[k].next \in DOMAIN s /\ s[k].next > k /\ s[s[k].next].prev = k
      BY <1>4, <1>10, <3>1
    <3> QED
      BY <1>2, <3>1, <3>2
  <2> QED
    BY <2>1, <2>2, <2>3
<1>11. Linked(t, head)
  BY <1>9, <1>10 DEF Linked, T
<1> QED
  BY <1>6, <1>8, <1>11 DEF T, L

(* One behind the current snapshot where that is astray: a walk does not   *)
(* meet it.                                                                *)
LEMMA AppendOutside ==
  ASSUME NEW s, NEW t, Heap(s), NEW id \in Nat \ {NULL}, id \notin DOMAIN s,
         NEW head, head # NULL, Linked(s, head),
         NEW c, c \notin Reachable(s, head), c = NULL \/ Outside(s, head, c),
         AppendedTo(s, t, c, id)
  PROVE  /\ Linked(t, head) /\ Reachable(t, head) \subseteq Reachable(s, head)
         /\ Outside(t, head, id)
<1> DEFINE L == Reachable(s, head)   T == Reachable(t, head)
<1>1. /\ L \subseteq DOMAIN s /\ DOMAIN s \subseteq Nat \ {NULL} /\ c \notin L
      /\ head \in DOMAIN s /\ head \in L
      /\ \A k \in L : s[k].next \in DOMAIN s => s[k].next \in L
  BY ReachableIsClosed DEF Heap, ClosedUnderNext, Linked
<1>2. /\ DOMAIN t = DOMAIN s \cup {id} /\ t[id].prev = c /\ t[id].next = NULL
      /\ \A k \in DOMAIN s : /\ t[k].prev = s[k].prev
                             /\ t[k].next = IF k = c THEN id ELSE s[k].next
  BY DEF AppendedTo
<1>3. s[head].prev = NULL
  BY <1>1 DEF Linked
<1>4. \A k \in L : s[k].next # NULL =>
        s[k].next \in DOMAIN s /\ s[k].next > k /\ s[s[k].next].prev = k
  BY DEF Linked
<1>5. T \subseteq L
  <2>1. L \in SUBSET DOMAIN t
    BY <1>1, <1>2
  <2>2. ASSUME NEW k \in L, t[k].next \in DOMAIN t PROVE t[k].next \in L
    <3>1. k \in DOMAIN s /\ t[k].next = s[k].next
      BY <1>1, <1>2
    <3>2. s[k].next \in DOMAIN s
      BY <1>1, <1>2, <1>4, <2>2, <3>1
    <3> QED
      BY <1>1, <3>1, <3>2
  <2>3. ClosedUnderNext(t, L)
    BY <2>2 DEF ClosedUnderNext
  <2> HIDE DEF L
  <2> QED
    BY <1>1, <2>1, <2>3, ReachableWithin
<1>6. Linked(t, head)
  <2>1. head \in DOMAIN t /\ t[head].prev = NULL
    BY <1>1, <1>2, <1>3
  <2>2. ASSUME NEW k \in T, t[k].next # NULL
        PROVE  t[k].next \in DOMAIN t /\ t[k].next > k /\ t[t[k].next].prev = k
    <3>1. k \in L /\ k \in DOMAIN s /\ t[k].next = s[k].next
      BY <1>1, <1>2, <1>5
    <3>2. s[k].next \in DOMAIN s /\ s[k].next > k /\ s[s[k].next].prev = k
      BY <1>4, <2>2, <3>1
    <3> QED
      BY <1>2, <3>1, <3>2
  <2> QED
    BY <2>1, <2>2 DEF Linked
<1>7. PICK S \in SUBSET (DOMAIN s \ L) :
        /\ c \in S \cup {NULL}
        /\ \A k \in S : s[k].prev \in S \cup {NULL}
  <2>1. CASE c = NULL
    <3>1. {} \in SUBSET (DOMAIN s \ L) /\ c \in {} \cup {NULL}
      BY <2>1
    <3> QED
      BY <3>1
  <2>2. CASE Outside(s, head, c)
    BY <2>2 DEF Outside
  <2> QED
    BY <2>1, <2>2
<1>8. Outside(t, head, id)
  <2> DEFINE R == S \cup {id}
  <2> HIDE DEF L, T
  <2>1. R \in SUBSET (DOMAIN t \ T) /\ id \in R
    BY <1>1, <1>2, <1>5
  <2>2. \A k \in R : t[k].prev \in R \cup {NULL}
    BY <1>2, <1>7
  <2> HIDE DEF R
  <2> QED
    BY <2>1, <2>2 DEF Outside, T
<1> QED
  BY <1>5, <1>6, <1>8

(* The pieces that are finite.                                             *)
LEMMA ListIsFinite ==
  ASSUME NEW s, NEW n \in Nat, DOMAIN s \subseteq 1 .. n, NEW head
  PROVE  IsFiniteSet(Reachable(s, head)) /\ Cardinality(Reachable(s, head)) \in Nat
<1>1. IsFiniteSet(1 .. n) /\ Reachable(s, head) \in SUBSET (1 .. n)
  BY FS_Interval, ReachableIsClosed
<1> QED
  BY <1>1, FS_Subset, FS_CardinalityType

(* Destroying a listed snapshot.                                           *)
LEMMA DestroyKeepsList ==
  ASSUME ProgramIsSound, IInv, ListInv, snapshot_destroy
  PROVE  ListInv'
<1>1. PICK i \in Listed :
         /\ snapshots' = IF snaps[i].prev = NULL THEN snaps[i].next ELSE snapshots
         /\ snaps' = Unlinked(snaps, i)
         /\ current' = IF current = i THEN snaps[i].prev ELSE current
         /\ astray' = (astray \/ (current = i /\ snaps[i].prev = NULL /\ snaps[i].next # NULL))
  BY DEF snapshot_destroy, Unlinked
<1> DEFINE last == next_id - 1   L == Listed
<1>2. /\ last \in Nat /\ last <= MaxSnapshots /\ MaxSnapshots \in Nat /\ max_snapshots \in Nat
      /\ Snapshots(snaps, last) /\ Heap(snaps) /\ DOMAIN snaps \subseteq 1 .. last
  BY DEF IInv, HeapSound, ProgramIsSound, Snapshots, Heap, NULL
<1>3. /\ Linked(snaps, snapshots) /\ Cardinality(L) <= max_snapshots
      /\ i \in Reachable(snaps, snapshots) /\ L = Reachable(snaps, snapshots)
  BY DEF ListInv, Listed
<1> HIDE DEF last, L
<1>4. Linked(snaps', snapshots') /\ Reachable(snaps', snapshots') = L \ {i}
  <2> DEFINE rest == IF snaps[i].prev = NULL THEN snaps[i].next ELSE snapshots
  <2>1. rest = IF snaps[i].prev = NULL THEN snaps[i].next ELSE snapshots
    OBVIOUS
  <2> HIDE DEF rest
  <2>2. /\ Linked(Unlinked(snaps, i), rest)
        /\ Reachable(Unlinked(snaps, i), rest) = Reachable(snaps, snapshots) \ {i}
    BY ONLY <1>2, <1>3, <2>1, UnlinkKeeps
  <2> QED
    BY <1>1, <1>3, <2>1, <2>2
<1>5. Cardinality(L \ {i}) <= max_snapshots
  <2>1. IsFiniteSet(L) /\ Cardinality(L) \in Nat
    BY <1>2, <1>3, ListIsFinite
  <2>2. Cardinality(L \ {i}) = Cardinality(L) - 1
    BY <1>3, <2>1, FS_RemoveElement
  <2> QED
    BY <1>2, <1>3, <2>1, <2>2
<1>6. WithoutPointersTo(snaps, i, snaps')
  <2>1. i \in DOMAIN snaps
    BY <1>3, ReachableIsClosed
  <2>2. WithoutPointersTo(snaps, i, Unlinked(snaps, i))
    BY ONLY <1>2, <2>1, UnlinkedFields
  <2> QED
    BY <1>1, <2>2
<1>7. /\ snaps[i].prev = NULL <=> i = snapshots
      /\ i # snapshots => snaps[i].prev \in L /\ snaps[i].prev # i
  <2>1. Heap(snaps) /\ Linked(snaps, snapshots) /\ i \in Reachable(snaps, snapshots)
    BY <1>2, <1>3
  <2>2. /\ snaps[i].prev = NULL <=> i = snapshots
        /\ i # snapshots => /\ snaps[i].prev \in Reachable(snaps, snapshots)
                            /\ snaps[i].prev < i
    BY ONLY <2>1, ReachableHasPrevious
  <2>3. i \in Nat
    BY <1>3, <1>2, ReachableIsClosed
  <2> QED
    BY <1>3, <2>2, <2>3
<1>8. L \subseteq DOMAIN snaps /\ NULL \notin DOMAIN snaps
      /\ (snaps[i].next # NULL => snaps[i].next \in L)
  <2>1. ClosedUnderNext(snaps, L) /\ L \subseteq DOMAIN snaps
    BY <1>3, ReachableIsClosed
  <2>2. snaps[i].next # NULL => snaps[i].next \in DOMAIN snaps
    BY <1>3 DEF Linked
  <2> QED
    BY <1>2, <1>3, <2>1, <2>2 DEF ClosedUnderNext, Heap
<1>9. Placed(snaps, snapshots, current, astray)
  BY DEF ListInv
<1>10. Placed(snaps', snapshots', current', astray')
  <2>1. CASE current = i /\ i # snapshots
    <3>1. current' \in L \ {i}
      BY <1>1, <1>7, <2>1
    <3> QED
      BY <1>4, <3>1 DEF Placed
  <2>2. CASE current = i /\ i = snapshots
    <3>1. current' = NULL /\ snapshots' = snaps[i].next
      BY <1>1, <1>7, <2>2
    <3>2. snapshots' = NULL \/ astray'
      BY <1>1, <1>7, <2>2
    <3> QED
      BY <3>1, <3>2 DEF Placed
  <2>3. CASE current # i
    <3>1. current' = current
      BY <1>1, <2>3
    <3>2. CASE current \in L
      BY <1>4, <2>3, <3>1, <3>2 DEF Placed
    <3>3. CASE snapshots = NULL /\ current = NULL
      BY <1>3, <1>8, <3>3, ReachableIsClosed
    <3>4. CASE astray /\ current = NULL
      BY <1>1, <3>1, <3>4 DEF Placed
    <3>5. CASE astray /\ Outside(snaps, snapshots, current)
      <4>1. PICK S \in SUBSET (DOMAIN snaps \ L) :
              current \in S /\ \A k \in S : snaps[k].prev \in S \cup {NULL}
        BY <1>3, <3>5 DEF Outside
      <4>2. S \in SUBSET (DOMAIN snaps' \ (L \ {i}))
        BY <1>3, <1>6 DEF WithoutPointersTo
      <4>3. \A k \in S : snaps'[k].prev = snaps[k].prev
        <5> SUFFICES ASSUME NEW k \in S PROVE snaps'[k].prev = snaps[k].prev
          OBVIOUS
        <5>1. k \in DOMAIN snaps \ {i} /\ k \notin L /\ k # NULL
          BY <1>3, <1>8
        <5>2. k # snaps[i].next
          BY <1>8, <5>1
        <5> QED
          BY <1>6, <5>1, <5>2 DEF WithoutPointersTo
      <4>4. Outside(snaps', snapshots', current')
        BY <1>4, <3>1, <4>1, <4>2, <4>3 DEF Outside
      <4> QED
        BY <1>1, <3>5, <4>4 DEF Placed
    <3> QED
      BY <1>3, <1>9, <3>2, <3>3, <3>4, <3>5 DEF Placed
  <2> QED
    BY <2>1, <2>2, <2>3
<1>11. Listed' = L \ {i}
  BY <1>4 DEF Listed
<1> QED
  BY <1>4, <1>5, <1>10, <1>11 DEF ListInv

(* What snapshot_create does to the pointers, before any eviction.         *)
LEMMA CreateAppends ==
  ASSUME ProgramIsSound, IInv, snapshot_create
  PROVE  \E linked, first :
           /\ AppendedTo(snaps, linked, IF snapshots = NULL THEN NULL ELSE current, next_id)
           /\ Snapshots(linked, next_id) /\ DOMAIN linked \subseteq 1 .. next_id
           /\ first = IF snapshots = NULL THEN next_id ELSE snapshots
           /\ \/ /\ ~Overfull(linked, first)
                 /\ snaps' = linked /\ snapshots' = first /\ current' = next_id
              \/ /\ Overfull(linked, first)
                 /\ snapshots' = linked[first].next
                 /\ snaps' = Without(Set(linked, linked[first].next, "prev", NULL), first)
                 /\ current' = IF first = next_id THEN NULL ELSE next_id
<1> DEFINE id == next_id
           before == IF snapshots = NULL THEN NULL ELSE current
           snap == [locals |-> locals, stack |-> stack, due |-> due,
                    prev |-> before, next |-> NULL]
           added == [i \in DOMAIN snaps \cup {id} |-> IF i = id THEN snap ELSE snaps[i]]
           linked == Set(added, before, "next", id)
           first == IF snapshots = NULL THEN id ELSE snapshots
<1>1. \/ /\ ~Overfull(linked, first)
         /\ snaps' = linked /\ snapshots' = first /\ current' = id
      \/ /\ Overfull(linked, first)
         /\ snapshots' = linked[first].next
         /\ snaps' = Without(Set(linked, linked[first].next, "prev", NULL), first)
         /\ current' = IF first = id THEN NULL ELSE id
  BY DEF snapshot_create
<1>2. /\ id \in Nat /\ MaxSnapshots \in Nat /\ id \in 1 .. MaxSnapshots
      /\ DOMAIN snaps \subseteq 1 .. id - 1 /\ id \notin DOMAIN snaps
      /\ current \in 0 .. id - 1
      /\ \A i \in DOMAIN snaps : Snapshot(snaps[i], id - 1)
  BY DEF IInv, HeapSound, ProgramIsSound, snapshot_create
<1>3. before \in 0 .. id - 1 /\ before # id /\ NULL \in 0 .. MaxSnapshots
  BY <1>2 DEF NULL
<1>4. snap \in CompleteSnapshot /\ snap.prev = before /\ snap.next = NULL
  <2>1. /\ locals \in [Slots -> Value] /\ stack \in Seq(Value) /\ due \in SUBSET Slots
        /\ before \in 0 .. MaxSnapshots /\ NULL \in 0 .. MaxSnapshots
    BY <1>2, <1>3 DEF IInv, MachineSound
  <2> HIDE DEF before
  <2> QED
    BY <2>1 DEF CompleteSnapshot
<1>5. /\ DOMAIN added = DOMAIN snaps \cup {id} /\ added[id] = snap
      /\ \A i \in DOMAIN snaps : added[i] = snaps[i]
  BY <1>2
<1>6. /\ before = IF snapshots = NULL THEN NULL ELSE current
      /\ first = IF snapshots = NULL THEN id ELSE snapshots
  OBVIOUS
<1> HIDE DEF before, snap, added, first
<1>7. \A i \in DOMAIN added : added[i] \in CompleteSnapshot /\ i # NULL
  BY <1>2, <1>4, <1>5 DEF Snapshot, NULL
<1>8. /\ DOMAIN linked = DOMAIN added
      /\ \A k \in DOMAIN added :
           /\ linked[k] \in CompleteSnapshot
           /\ linked[k].next = IF k = before THEN id ELSE added[k].next
           /\ linked[k].prev = added[k].prev
  <2>1. id \in 0 .. MaxSnapshots
    BY <1>2
  <2> QED
    BY <1>7, <2>1, SetFields
<1> HIDE DEF linked
<1>9. AppendedTo(snaps, linked, before, id)
  BY <1>3, <1>4, <1>5, <1>8 DEF AppendedTo
<1>10. Snapshots(linked, id)
  <2> SUFFICES ASSUME NEW k \in DOMAIN linked PROVE Snapshot(linked[k], id)
    BY DEF Snapshots
  <2>1. linked[k] \in CompleteSnapshot
    BY <1>8
  <2>2. linked[k].prev \in 0 .. id
    <3>1. CASE k = id
      BY <1>2, <1>3, <1>4, <1>5, <1>8, <3>1
    <3>2. CASE k # id
      BY <1>2, <1>5, <1>8, <3>2 DEF Snapshot
    <3> QED
      BY <3>1, <3>2
  <2>3. linked[k].next \in 0 .. id
    <3>1. CASE k = before
      BY <1>2, <1>8, <3>1
    <3>2. CASE k # before /\ k = id
      BY <1>2, <1>4, <1>5, <1>8, <3>2 DEF NULL
    <3>3. CASE k # before /\ k # id
      BY <1>2, <1>5, <1>8, <3>3 DEF Snapshot
    <3> QED
      BY <3>1, <3>2, <3>3
  <2> QED
    BY <2>1, <2>2, <2>3 DEF Snapshot
<1>11. DOMAIN linked \subseteq 1 .. id
  BY <1>2, <1>5, <1>8
<1> QED
  BY <1>1, <1>6, <1>9, <1>10, <1>11

(* Creating a snapshot, and evicting the oldest.                           *)
LEMMA CreateKeepsList ==
  ASSUME ProgramIsSound, IInv, ListInv, snapshot_create
  PROVE  ListInv'
<1> DEFINE id == next_id   L == Listed
<1>1. PICK linked, first :
        /\ AppendedTo(snaps, linked, IF snapshots = NULL THEN NULL ELSE current, id)
        /\ Snapshots(linked, id) /\ DOMAIN linked \subseteq 1 .. id
        /\ first = IF snapshots = NULL THEN id ELSE snapshots
        /\ \/ /\ ~Overfull(linked, first)
              /\ snaps' = linked /\ snapshots' = first /\ current' = id
           \/ /\ Overfull(linked, first)
              /\ snapshots' = linked[first].next
              /\ snaps' = Without(Set(linked, linked[first].next, "prev", NULL), first)
              /\ current' = IF first = id THEN NULL ELSE id
  BY CreateAppends
<1>2. /\ id \in Nat \ {NULL} /\ MaxSnapshots \in Nat /\ id <= MaxSnapshots
      /\ max_snapshots \in Nat
      /\ Heap(snaps) /\ DOMAIN snaps \subseteq 1 .. id - 1 /\ id \notin DOMAIN snaps
      /\ id - 1 \in Nat /\ (\A k \in DOMAIN snaps : k < id)
  BY DEF IInv, HeapSound, ProgramIsSound, Heap, NULL, snapshot_create
<1>3. /\ Linked(snaps, snapshots) /\ Placed(snaps, snapshots, current, astray)
      /\ Cardinality(L) <= max_snapshots /\ L = Reachable(snaps, snapshots)
  BY DEF ListInv, Listed
<1>4. astray' = astray
  BY DEF snapshot_create
<1> HIDE DEF id, L
<1>5. NULL \notin DOMAIN snaps /\ L \subseteq DOMAIN snaps
  BY <1>2, <1>3, ReachableIsClosed DEF Heap
<1> DEFINE T == Reachable(linked, first)
<1>6. /\ Linked(linked, first) /\ T \subseteq L \cup {id}
      /\ id \in T \/ (astray /\ T \subseteq L /\ Outside(linked, first, id))
  <2>1. CASE snapshots = NULL
    <3>1. first = id /\ AppendedTo(snaps, linked, NULL, id)
      BY <1>1, <2>1
    <3>2. Linked(linked, id) /\ Reachable(linked, id) = {id}
      BY ONLY <1>2, <3>1, AppendFirst
    <3> QED
      BY <3>1, <3>2
  <2>2. CASE snapshots # NULL /\ current \in L
    <3>1. first = snapshots /\ AppendedTo(snaps, linked, current, id)
      BY <1>1, <2>2
    <3>2. current \in Reachable(snaps, snapshots) /\ Linked(snaps, snapshots)
      BY <1>3, <2>2
    <3>3. /\ Linked(linked, snapshots) /\ id \in Reachable(linked, snapshots)
          /\ Reachable(linked, snapshots) \subseteq Reachable(snaps, snapshots) \cup {id}
      BY ONLY <1>2, <3>1, <3>2, AppendBehind
    <3> QED
      BY <1>3, <3>1, <3>3
  <2>3. CASE snapshots # NULL /\ current \notin L
    <3>1. first = snapshots /\ AppendedTo(snaps, linked, current, id)
      BY <1>1, <2>3
    <3>2. /\ snapshots # NULL /\ Linked(snaps, snapshots)
          /\ current \notin Reachable(snaps, snapshots)
          /\ astray /\ (current = NULL \/ Outside(snaps, snapshots, current))
      BY <1>3, <2>3 DEF Placed
    <3>3. /\ Linked(linked, snapshots) /\ Outside(linked, snapshots, id)
          /\ Reachable(linked, snapshots) \subseteq Reachable(snaps, snapshots)
      BY ONLY <1>2, <3>1, <3>2, AppendOutside
    <3> QED
      BY <1>3, <3>1, <3>2, <3>3
  <2> QED
    BY <2>1, <2>2, <2>3
<1>7. IsFiniteSet(T) /\ Cardinality(T) \in Nat /\ IsFiniteSet(L) /\ Cardinality(L) \in Nat
  BY <1>1, <1>2, <1>3, ListIsFinite
<1>8. NULL \notin DOMAIN linked /\ first \in DOMAIN linked /\ first \in T /\ first # NULL
      /\ linked[first].prev = NULL
  <2>1. first # NULL
    BY <1>1, <1>2
  <2>2. first \in DOMAIN linked /\ linked[first].prev = NULL
    BY <1>6, <2>1 DEF Linked
  <2>3. NULL \notin DOMAIN linked
    BY <1>1 DEF NULL
  <2> QED
    BY <2>1, <2>2, <2>3, ReachableIsClosed
<1>9. CASE /\ ~Overfull(linked, first)
           /\ snaps' = linked /\ snapshots' = first /\ current' = id
  <2>1. Listed' = T
    BY <1>9 DEF Listed
  <2>2. Cardinality(T) <= max_snapshots
    BY <1>2, <1>7, <1>8, <1>9 DEF Overfull
  <2>3. Placed(snaps', snapshots', current', astray')
    BY <1>4, <1>6, <1>9 DEF Placed
  <2> QED
    BY <1>6, <1>9, <2>1, <2>2, <2>3 DEF ListInv
<1>10. CASE /\ Overfull(linked, first)
            /\ snapshots' = linked[first].next
            /\ snaps' = Without(Set(linked, linked[first].next, "prev", NULL), first)
            /\ current' = IF first = id THEN NULL ELSE id
  <2>1. snaps' = Unlinked(linked, first)
    BY <1>8, <1>10 DEF Unlinked, Set
  <2>2. Linked(snaps', snapshots') /\ Reachable(snaps', snapshots') = T \ {first}
    <3>1. /\ id \in Nat /\ id <= MaxSnapshots /\ MaxSnapshots \in Nat /\ Snapshots(linked, id)
          /\ Heap(linked) /\ Linked(linked, first) /\ first \in Reachable(linked, first)
      BY <1>1, <1>2, <1>6, <1>8 DEF Heap, NULL
    <3> DEFINE rest == linked[first].next
    <3>2. rest = IF linked[first].prev = NULL THEN linked[first].next ELSE first
      BY <1>8
    <3> HIDE DEF rest
    <3>3. /\ Linked(Unlinked(linked, first), rest)
          /\ Reachable(Unlinked(linked, first), rest) = Reachable(linked, first) \ {first}
      BY ONLY <3>1, <3>2, UnlinkKeeps
    <3> QED
      BY <1>10, <2>1, <3>3 DEF rest
  <2>3. Cardinality(T) > max_snapshots
    BY <1>10 DEF Overfull
  <2>4. id \in T
    <3> SUFFICES ASSUME T \subseteq L PROVE FALSE
      BY <1>6
    <3>1. Cardinality(T) <= Cardinality(L)
      <4> HIDE DEF T
      <4> QED
        BY <1>7, FS_Subset
    <3> QED
      BY <1>2, <1>3, <1>7, <2>3, <3>1
  <2>5. Cardinality(T \ {first}) <= max_snapshots
    <3> HIDE DEF T
    <3>1. Cardinality(T \ {first}) = Cardinality(T) - 1
      BY <1>7, <1>8, FS_RemoveElement
    <3>2. Cardinality(T) <= Cardinality(L \cup {id})
      <4>1. IsFiniteSet(L \cup {id}) /\ T \in SUBSET (L \cup {id})
        BY <1>6, <1>7, FS_AddElement
      <4> DEFINE U == L \cup {id}
      <4> HIDE DEF U
      <4>2. IsFiniteSet(U) /\ T \in SUBSET U
        BY <4>1 DEF U
      <4>3. Cardinality(T) <= Cardinality(U)
        BY <4>2, FS_Subset
      <4> QED
        BY <4>3 DEF U
    <3>3. Cardinality(L \cup {id}) = Cardinality(L) + 1
      BY <1>2, <1>5, <1>7, FS_AddElement
    <3> QED
      BY <1>2, <1>3, <1>7, <3>1, <3>2, <3>3
  <2>6. Placed(snaps', snapshots', current', astray')
    <3>1. CASE first # id
      BY <1>10, <2>2, <2>4, <3>1 DEF Placed
    <3>2. CASE first = id
      <4>1. snapshots = NULL
        BY <1>1, <1>2, <1>3, <3>2 DEF Linked
      <4>2. linked[id].next = NULL
        BY <1>1 DEF AppendedTo
      <4> QED
        BY <1>10, <3>2, <4>2 DEF Placed
    <3> QED
      BY <3>1, <3>2
  <2>7. Listed' = T \ {first}
    BY <2>2 DEF Listed
  <2> QED
    BY <2>2, <2>5, <2>6, <2>7 DEF ListInv
<1> QED
  BY <1>1, <1>9, <1>10

(* Putting a snapshot back makes it the current one.                       *)
LEMMA RestoreKeepsList ==
  ASSUME ListInv, NEW i \in Listed, Restore(i)
  PROVE  ListInv'
<1>1. UNCHANGED <<snaps, snapshots>> /\ current' = i
  BY DEF Restore
<1> QED
  BY <1>1 DEF ListInv, Placed, Listed

-----------------------------------------------------------------------------
(* The theorems.                                                           *)

(* IInv is inductive: the count of every object is that of its copies and  *)
(* of its surplus references.                                              *)
THEOREM Inductive == ProgramIsSound => (Spec => []IInv)
<1> SUFFICES ASSUME ProgramIsSound PROVE Spec => []IInv
  OBVIOUS
<1>1. Init => IInv
  <2> SUFFICES ASSUME Init PROVE IInv
    OBVIOUS
  <2>1. MachineSound /\ HeapSound
    BY DEF Init, MachineSound, HeapSound, Value, ProgramIsSound, NULL
  <2>2. ASSUME NEW p \in Objects
        PROVE  Counted(p) /\ Unseen(p)
    <3>1. Saved(p, snaps) = {}
      BY DEF Init, Saved
    <3>2. /\ \A k \in DOMAIN locals : locals[k] # p
          /\ \A k \in DOMAIN stack : stack[k] # p
      BY DEF Init, ProgramIsSound
    <3>3. DOMAIN locals = Slots /\ DOMAIN stack = {}
      BY DEF Init
    <3>4. IsFiniteSet(DOMAIN locals) /\ IsFiniteSet(DOMAIN stack)
      BY <3>3, FS_EmptySet DEF ProgramIsSound
    <3>5. Times(p, locals) = 0 /\ Times(p, stack) = 0
      BY <3>2, <3>4, TimesType
    <3>6. refs[p] = 0 /\ surplus[p] = 0
      BY DEF Init
    <3>7. Counted(p)
      BY <3>1, <3>5, <3>6, FS_EmptySet DEF Counted, Holders
    <3> QED
      BY <3>1, <3>2, <3>3, <3>6, <3>7 DEF Unseen
  <2> QED
    BY <2>1, <2>2 DEF IInv
<1>2. IInv /\ [Next]_vars => IInv'
  <2> SUFFICES ASSUME IInv, [Next]_vars PROVE IInv'
    OBVIOUS
  <2>1. CASE LoadConst
    BY <2>1, LoadConstKeeps
  <2>2. CASE StoreLocal
    BY <2>2, StoreLocalKeeps
  <2>3. CASE Pop
    BY <2>3, PopKeeps
  <2>4. CASE ReleaseLocal
    BY <2>4, ReleaseLocalKeeps
  <2>5. CASE snapshot_create
    BY <2>5, CreateKeeps
  <2>6. CASE snapshot_restore
    BY <2>6, RestoreKeeps DEF snapshot_restore, Listed, Reachable
  <2>7. CASE snapshot_rollback
    BY <2>7, RestoreKeeps DEF snapshot_rollback, Listed, Reachable
  <2>8. CASE snapshot_destroy
    BY <2>8, DestroyKeeps
  <2>9. CASE UNCHANGED vars
    <3>1. /\ UNCHANGED <<refs, made, locals, stack, due, surplus>>
          /\ UNCHANGED <<snaps, snapshots, current, next_id, astray>>
      BY <2>9 DEF vars, machine, manager
    <3> QED
      BY <3>1 DEF IInv, MachineSound, HeapSound, Snapshot, Counted, Unseen, Holders
  <2> QED
    BY <2>1, <2>2, <2>3, <2>4, <2>5, <2>6, <2>7, <2>8, <2>9 DEF Next
<1> QED
  BY <1>1, <1>2, PTL DEF Spec

(* ListInv is inductive beside IInv.                                       *)
THEOREM ListInductive == ProgramIsSound => (Spec => []ListInv)
<1> SUFFICES ASSUME ProgramIsSound PROVE Spec => []ListInv
  OBVIOUS
<1>1. Init => ListInv
  <2> SUFFICES ASSUME Init PROVE ListInv
    OBVIOUS
  <2>1. snapshots = NULL /\ current = NULL /\ DOMAIN snaps = {} /\ max_snapshots \in Nat
    BY DEF Init, ProgramIsSound
  <2>2. Reachable(snaps, snapshots) = {}
    BY <2>1, ReachableIsClosed
  <2>3. Cardinality(Listed) <= max_snapshots
    BY <2>1, <2>2, FS_EmptySet DEF Listed
  <2> QED
    BY <2>1, <2>2, <2>3 DEF ListInv, Linked, Placed
<1>2. IInv /\ ListInv /\ [Next]_vars => ListInv'
  <2> SUFFICES ASSUME IInv, ListInv, [Next]_vars PROVE ListInv'
    OBVIOUS
  <2>1. ASSUME UNCHANGED manager PROVE ListInv'
    BY <2>1 DEF manager, ListInv, Linked, Placed, Outside, Listed
  <2>2. CASE LoadConst
    BY <2>1, <2>2 DEF LoadConst
  <2>3. CASE StoreLocal
    BY <2>1, <2>3 DEF StoreLocal
  <2>4. CASE Pop
    BY <2>1, <2>4 DEF Pop
  <2>5. CASE ReleaseLocal
    BY <2>1, <2>5 DEF ReleaseLocal
  <2>6. CASE snapshot_create
    BY <2>6, CreateKeepsList
  <2>7. CASE snapshot_restore
    BY <2>7, RestoreKeepsList DEF snapshot_restore
  <2>8. CASE snapshot_rollback
    BY <2>8, RestoreKeepsList DEF snapshot_rollback
  <2>9. CASE snapshot_destroy
    BY <2>9, DestroyKeepsList
  <2>10. CASE UNCHANGED vars
    BY <2>1, <2>10 DEF vars
  <2> QED
    BY <2>2, <2>3, <2>4, <2>5, <2>6, <2>7, <2>8, <2>9, <2>10 DEF Next
<1> QED
  BY <1>1, <1>2, Inductive, PTL DEF Spec

(* And it says all that is claimed of the list.                            *)
LEMMA ListInvIsEnough ==
  ASSUME ProgramIsSound
  PROVE  IInv /\ ListInv => ListIsSound /\ CurrentIsListed
<1> SUFFICES ASSUME IInv, ListInv PROVE ListIsSound /\ CurrentIsListed
  OBVIOUS
<1>1. Heap(snaps) /\ Linked(snaps, snapshots) /\ Placed(snaps, snapshots, current, astray)
      /\ Listed = Reachable(snaps, snapshots) /\ Cardinality(Listed) <= max_snapshots
  BY DEF IInv, HeapSound, Heap, NULL, ListInv, Listed
<1>2. Listed \subseteq DOMAIN snaps /\ NULL \notin DOMAIN snaps
  BY <1>1, ReachableIsClosed DEF Heap
<1>3. snapshots = NULL => Listed = {}
  BY <1>1, <1>2, ReachableIsClosed
<1>4. current \in Pointer /\ (current # NULL => snaps[current].prev \in Pointer)
  <2>1. CASE current = NULL
    BY <2>1 DEF Pointer
  <2>2. CASE current \in Listed
    <3>1. snaps[current].prev = NULL \/ snaps[current].prev \in Listed
      BY <1>1, <2>2, ReachableHasPrevious
    <3> QED
      BY <1>2, <2>2, <3>1 DEF Pointer
  <2>3. CASE Outside(snaps, snapshots, current)
    BY <2>3 DEF Outside, Pointer
  <2> QED
    BY <1>1, <2>1, <2>2, <2>3 DEF Placed
<1>5. ListIsSound
  BY <1>1, <1>4 DEF ListIsSound, Linked, Pointer
<1>6. CurrentIsListed
  BY <1>1, <1>3 DEF CurrentIsListed, Placed
<1> QED
  BY <1>5, <1>6

(* The type invariant.                                                     *)
THEOREM TypeCorrect == ProgramIsSound => (Spec => []TypeOK)
<1> SUFFICES ASSUME ProgramIsSound PROVE Spec => []TypeOK
  OBVIOUS
<1>1. IInv => TypeOK
  BY DEF IInv, MachineSound, HeapSound, Snapshot, TypeOK
<1> QED
  BY <1>1, Inductive, PTL

(* Whatever is saved, put back, evicted and destroyed, every copy of a     *)
(* value is covered by a reference of its own, unless the object was       *)
(* RELEASEd more often than it was stored.                                 *)
THEOREM CopiesAreCovered == ProgramIsSound => (Spec => []HeldIsCounted)
<1> SUFFICES ASSUME ProgramIsSound PROVE Spec => []HeldIsCounted
  OBVIOUS
<1>1. IInv => HeldIsCounted
  <2> SUFFICES ASSUME IInv, NEW o \in Objects, surplus[o] >= 0
               PROVE  refs[o] >= Holders(o)
    BY DEF HeldIsCounted
  <2>1. /\ Times(o, locals) \in Nat /\ Times(o, stack) \in Nat
        /\ Cardinality(Saved(o, snaps)) \in Nat /\ refs[o] \in Int /\ surplus[o] \in Int
        /\ refs[o] = Times(o, locals) + Times(o, stack) + Cardinality(Saved(o, snaps)) + surplus[o]
    BY MachineFacts
  <2> QED
    BY <2>1 DEF Holders
<1> QED
  BY <1>1, Inductive, PTL

(* While every object is stored as often as it is RELEASEd, the guard that *)
(* stops the model at the use of a freed object never stops it.            *)
THEOREM NothingFreedIsHeld == ProgramIsSound => (Spec => []((\A o \in Objects : surplus[o] >= 0) => Sound))
<1> SUFFICES ASSUME ProgramIsSound PROVE Spec => []((\A o \in Objects : surplus[o] >= 0) => Sound)
  OBVIOUS
<1>1. IInv => ((\A o \in Objects : surplus[o] >= 0) => Sound)
  <2> SUFFICES ASSUME IInv, \A p \in Objects : surplus[p] >= 0, NEW o \in Objects, Holders(o) > 0
               PROVE  refs[o] > 0
    BY DEF Sound
  <2>1. /\ Times(o, locals) \in Nat /\ Times(o, stack) \in Nat
        /\ Cardinality(Saved(o, snaps)) \in Nat /\ refs[o] \in Int /\ surplus[o] \in Int
        /\ refs[o] = Times(o, locals) + Times(o, stack) + Cardinality(Saved(o, snaps)) + surplus[o]
    BY MachineFacts
  <2>2. surplus[o] >= 0 /\ Times(o, locals) + Times(o, stack) + Cardinality(Saved(o, snaps)) > 0
    BY DEF Holders
  <2> QED
    BY <2>1, <2>2
<1> QED
  BY <1>1, Inductive, PTL

(* The list of snapshots is sound for every limit, whatever the order in   *)
(* which snapshots are made, put back, evicted and destroyed (snapshot.c:  *)
(* 120-255): a walk meets live snapshots only, the oldest first and never  *)
(* more than the limit, and no pointer a later call will follow dangles.   *)
THEOREM ListStaysSound == ProgramIsSound => (Spec => []ListIsSound)
<1> SUFFICES ASSUME ProgramIsSound PROVE Spec => []ListIsSound
  OBVIOUS
<1>1. IInv /\ ListInv => ListIsSound
  BY ListInvIsEnough
<1> QED
  BY <1>1, Inductive, ListInductive, PTL

(* The current snapshot is in the list, unless the oldest was destroyed    *)
(* while it was the current one (snapshot.c:242).                          *)
THEOREM CurrentCanBeFound == ProgramIsSound => (Spec => []CurrentIsListed)
<1> SUFFICES ASSUME ProgramIsSound PROVE Spec => []CurrentIsListed
  OBVIOUS
<1>1. IInv /\ ListInv => CurrentIsListed
  BY ListInvIsEnough
<1> QED
  BY <1>1, Inductive, ListInductive, PTL

=============================================================================
