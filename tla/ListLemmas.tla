----------------------------- MODULE ListLemmas ------------------------------
(***************************************************************************)
(* What the lists of the runtime have in common: elements are appended at  *)
(* the end, taken out at a position found by searching from the front, and *)
(* in some of them no element is twice.                                    *)
(***************************************************************************)
EXTENDS Integers, Sequences, SequencesExt, FiniteSets, FiniteSetTheorems,
        SequenceTheorems, WellFoundedInduction, TLAPS

(* Appending leaves the elements that were there.                          *)
LEMMA AppendElements ==
  ASSUME NEW S, NEW s \in Seq(S), NEW e \in S
  PROVE  /\ Append(s, e) \in Seq(S)
         /\ Len(Append(s, e)) = Len(s) + 1
         /\ DOMAIN Append(s, e) = 1 .. Len(s) + 1
         /\ \A k \in 1 .. Len(s) : Append(s, e)[k] = s[k]
         /\ Append(s, e)[Len(s) + 1] = e
<1>1. /\ Append(s, e) \in Seq(S)
      /\ Len(Append(s, e)) = Len(s) + 1
      /\ \A k \in 1 .. Len(s) : Append(s, e)[k] = s[k]
      /\ Append(s, e)[Len(s) + 1] = e
  BY AppendProperties
<1>2. DOMAIN Append(s, e) = 1 .. Len(Append(s, e))
  BY <1>1, LenProperties
<1> QED
  BY <1>1, <1>2

(* The elements behind the one removed move up by one place.               *)
LEMMA RemoveAtProperties ==
  ASSUME NEW S, NEW s \in Seq(S), NEW n \in 1 .. Len(s)
  PROVE  /\ RemoveAt(s, n) \in Seq(S)
         /\ Len(RemoveAt(s, n)) = Len(s) - 1
         /\ DOMAIN RemoveAt(s, n) = 1 .. Len(s) - 1
         /\ \A k \in 1 .. Len(s) - 1 : RemoveAt(s, n)[k] = IF k < n THEN s[k] ELSE s[k + 1]
<1> DEFINE a == SubSeq(s, 1, n - 1)   b == SubSeq(s, n + 1, Len(s))   l == Len(s)
<1>1. l \in Nat /\ n \in 1 .. l /\ \A k \in 1 .. l : s[k] \in S
  BY LenProperties, ElementOfSeq
<1> HIDE DEF a, b, l
<1>2. a \in Seq(S) /\ Len(a) = n - 1 /\ \A k \in 1 .. n - 1 : a[k] = s[k]
  <2>1. /\ a \in Seq(S)
        /\ Len(a) = IF 1 <= n - 1 THEN n - 1 - 1 + 1 ELSE 0
        /\ \A k \in 1 .. n - 1 - 1 + 1 : a[k] = s[1 + k - 1]
    BY <1>1, SubSeqProperties DEF a
  <2> QED
    BY <1>1, <2>1
<1>3. b \in Seq(S) /\ Len(b) = l - n /\ \A k \in 1 .. l - n : b[k] = s[n + k]
  <2>1. /\ b \in Seq(S)
        /\ Len(b) = IF n + 1 <= l THEN l - (n + 1) + 1 ELSE 0
        /\ \A k \in 1 .. l - (n + 1) + 1 : b[k] = s[n + 1 + k - 1]
    BY <1>1, SubSeqProperties DEF b, l
  <2>2. /\ l - (n + 1) + 1 = l - n
        /\ \A k \in 1 .. l - n : n + 1 + k - 1 = n + k
    BY <1>1
  <2>3. Len(b) = l - n
    BY <1>1, <2>1
  <2> QED
    BY <2>1, <2>2, <2>3
<1>4. /\ a \o b \in Seq(S)
      /\ Len(a \o b) = l - 1
      /\ \A k \in 1 .. l - 1 : (a \o b)[k] = IF k <= n - 1 THEN a[k] ELSE b[k - (n - 1)]
  <2>1. /\ a \o b \in Seq(S)
        /\ Len(a \o b) = Len(a) + Len(b)
        /\ \A k \in 1 .. Len(a) + Len(b) : (a \o b)[k] = IF k <= Len(a) THEN a[k] ELSE b[k - Len(a)]
    BY <1>2, <1>3, ConcatProperties
  <2>2. Len(a) = n - 1 /\ Len(a) + Len(b) = l - 1
    BY <1>1, <1>2, <1>3
  <2> QED
    BY <2>1, <2>2
<1>5. ASSUME NEW k \in 1 .. l - 1
      PROVE  (a \o b)[k] = IF k < n THEN s[k] ELSE s[k + 1]
  <2>1. CASE k < n
    <3>1. k \in 1 .. n - 1
      BY <1>1, <2>1
    <3> QED
      BY <1>2, <1>4, <2>1, <3>1
  <2>2. CASE ~(k < n)
    <3>1. k - (n - 1) \in 1 .. l - n /\ n + (k - (n - 1)) = k + 1 /\ ~(k <= n - 1)
      BY <1>1, <2>2
    <3>2. (a \o b)[k] = b[k - (n - 1)]
      BY <1>4, <3>1
    <3> QED
      BY <1>3, <2>2, <3>1, <3>2
  <2> QED
    BY <2>1, <2>2
<1>6. RemoveAt(s, n) = a \o b
  BY DEF RemoveAt, a, b
<1>7. DOMAIN (a \o b) = 1 .. l - 1
  BY <1>4, LenProperties
<1> QED
  BY <1>4, <1>5, <1>6, <1>7 DEF l

(* A set of numbers that has an element has a least one.                   *)
LEMMA LeastOfAll ==
  ASSUME NEW I \in SUBSET Nat, I # {}
  PROVE  Min(I) \in I /\ \A y \in I : Min(I) <= y
<1> DEFINE Less == OpToRel(<, Nat)
<1>1. IsWellFoundedOn(Less, Nat)
  BY NatLessThanWellFounded
<1> HIDE DEF Less
<1>2. PICK x \in I : \A y \in I : ~(<<y, x>> \in Less)
  BY <1>1, WFMin
<1>3. \A y \in I : x <= y
  <2> SUFFICES ASSUME NEW y \in I, y < x PROVE FALSE
    BY <1>2
  <2>1. <<y, x>> \in Nat \X Nat
    BY <1>2
  <2> QED
    BY <1>2, <2>1 DEF Less, OpToRel
<1> QED
  BY <1>2, <1>3 DEF Min

LEMMA LeastOne ==
  ASSUME NEW I \in SUBSET Nat, I # {}
  PROVE  Min(I) \in I
BY LeastOfAll

(* What the last element of a list stands on.                              *)
LEMMA FrontElements ==
  ASSUME NEW S, NEW s \in Seq(S), s # <<>>
  PROVE  /\ Front(s) \in Seq(S) /\ Len(Front(s)) = Len(s) - 1
         /\ DOMAIN Front(s) = 1 .. Len(s) - 1
         /\ \A k \in 1 .. Len(s) - 1 : Front(s)[k] = s[k]
         /\ Len(s) \in DOMAIN s /\ Last(s) = s[Len(s)] /\ Last(s) \in S
         /\ DOMAIN s = 1 .. Len(s) /\ Len(s) \in Nat \ {0}
<1> DEFINE f == SubSeq(s, 1, Len(s) - 1)
<1>1. Len(s) \in Nat \ {0} /\ DOMAIN s = 1 .. Len(s)
  BY EmptySeq, LenProperties
<1>2. /\ f \in Seq(S)
      /\ Len(f) = IF 1 <= Len(s) - 1 THEN Len(s) - 1 - 1 + 1 ELSE 0
      /\ \A k \in 1 .. Len(s) - 1 - 1 + 1 : f[k] = s[1 + k - 1]
  BY <1>1, SubSeqProperties
<1>3. Len(f) = Len(s) - 1 /\ \A k \in 1 .. Len(s) - 1 : f[k] = s[k]
  BY <1>1, <1>2
<1>4. f = Front(s)
  BY DEF Front
<1>5. Len(s) \in DOMAIN s /\ Last(s) = s[Len(s)] /\ Last(s) \in S
  BY <1>1, ElementOfSeq DEF Last
<1>6. DOMAIN f = 1 .. Len(f)
  BY <1>2, LenProperties
<1> HIDE DEF f
<1>. QED
  BY <1>1, <1>2, <1>3, <1>4, <1>5, <1>6

(* An element that is new leaves a list without repetitions.               *)
LEMMA AppendNew ==
  ASSUME NEW S, NEW s \in Seq(S), NEW e \in S, IsInjective(s), e \notin ToSet(s)
  PROVE  /\ IsInjective(Append(s, e))
         /\ ToSet(Append(s, e)) = ToSet(s) \cup {e}
<1> DEFINE t == Append(s, e)   l == Len(s)
<1>1. /\ l \in Nat /\ DOMAIN s = 1 .. l
      /\ DOMAIN t = 1 .. l + 1
      /\ \A k \in 1 .. l : t[k] = s[k]
      /\ t[l + 1] = e
  BY AppendElements, LenProperties
<1>2. \A k \in 1 .. l : s[k] # e
  BY <1>1 DEF ToSet
<1> HIDE DEF t, l
<1>3. ASSUME NEW j \in 1 .. l + 1, NEW k \in 1 .. l + 1, t[j] = t[k]
      PROVE  j = k
  <2>1. (j \in 1 .. l \/ j = l + 1) /\ (k \in 1 .. l \/ k = l + 1)
    BY <1>1
  <2> QED
    BY <1>1, <1>2, <1>3, <2>1 DEF IsInjective
<1>4. ToSet(t) = ToSet(s) \cup {e}
  <2>1. ASSUME NEW x \in ToSet(t) PROVE x \in ToSet(s) \cup {e}
    <3>1. PICK k \in 1 .. l + 1 : x = t[k]
      BY <1>1 DEF ToSet
    <3>2. k \in 1 .. l \/ k = l + 1
      BY <1>1
    <3> QED
      BY <1>1, <3>1, <3>2 DEF ToSet
  <2>2. ASSUME NEW x \in ToSet(s) \cup {e} PROVE x \in ToSet(t)
    <3>1. CASE x \in ToSet(s)
      <4>1. PICK k \in 1 .. l : x = s[k]
        BY <1>1, <3>1 DEF ToSet
      <4>2. k \in 1 .. l + 1 /\ x = t[k]
        BY <1>1, <4>1
      <4> QED
        BY <1>1, <4>2 DEF ToSet
    <3>2. CASE x = e
      <4>1. l + 1 \in 1 .. l + 1
        BY <1>1
      <4> QED
        BY <1>1, <3>2, <4>1 DEF ToSet
    <3> QED
      BY <2>2, <3>1, <3>2
  <2> QED
    BY <2>1, <2>2
<1> QED
  BY <1>1, <1>3, <1>4 DEF IsInjective, t

(* Removing one of a list without repetitions takes it out altogether.     *)
LEMMA RemoveFromInjective ==
  ASSUME NEW S, NEW s \in Seq(S), NEW n \in 1 .. Len(s), IsInjective(s)
  PROVE  /\ IsInjective(RemoveAt(s, n))
         /\ ToSet(RemoveAt(s, n)) = ToSet(s) \ {s[n]}
<1> DEFINE t == RemoveAt(s, n)   l == Len(s)   At(k) == IF k < n THEN k ELSE k + 1
<1>1. /\ l \in Nat /\ n \in 1 .. l /\ DOMAIN s = 1 .. l
      /\ DOMAIN t = 1 .. l - 1
      /\ \A k \in 1 .. l - 1 : t[k] = s[At(k)]
  BY RemoveAtProperties, LenProperties
<1>2. \A k \in 1 .. l - 1 : At(k) \in 1 .. l /\ At(k) # n
  BY <1>1
<1>3. \A j, k \in 1 .. l - 1 : At(j) = At(k) => j = k
  BY <1>1
<1>4. \A m \in 1 .. l : m # n => \E k \in 1 .. l - 1 : At(k) = m
  <2> SUFFICES ASSUME NEW m \in 1 .. l, m # n
               PROVE  \E k \in 1 .. l - 1 : At(k) = m
    OBVIOUS
  <2>1. CASE m < n
    <3>1. m \in 1 .. l - 1 /\ At(m) = m
      BY <1>1, <2>1
    <3> QED
      BY <3>1
  <2>2. CASE m > n
    <3>1. m - 1 \in 1 .. l - 1 /\ At(m - 1) = m
      BY <1>1, <2>2
    <3> QED
      BY <3>1
  <2> QED
    BY <1>1, <2>1, <2>2
<1> HIDE DEF t, l, At
<1>5. IsInjective(t)
  <2> SUFFICES ASSUME NEW j \in 1 .. l - 1, NEW k \in 1 .. l - 1, t[j] = t[k]
               PROVE  j = k
    BY <1>1 DEF IsInjective
  <2>1. s[At(j)] = s[At(k)] /\ At(j) \in DOMAIN s /\ At(k) \in DOMAIN s
    BY <1>1, <1>2
  <2>2. At(j) = At(k)
    BY <2>1 DEF IsInjective
  <2> QED
    BY <1>3, <2>2
<1>6. ToSet(t) = ToSet(s) \ {s[n]}
  <2>1. ASSUME NEW x \in ToSet(t) PROVE x \in ToSet(s) \ {s[n]}
    <3>1. PICK k \in 1 .. l - 1 : x = t[k]
      BY <1>1 DEF ToSet
    <3>2. x = s[At(k)] /\ At(k) \in DOMAIN s /\ n \in DOMAIN s /\ At(k) # n
      BY <1>1, <1>2, <3>1
    <3>3. s[At(k)] # s[n]
      BY <3>2 DEF IsInjective
    <3> QED
      BY <3>2, <3>3 DEF ToSet
  <2>2. ASSUME NEW x \in ToSet(s) \ {s[n]} PROVE x \in ToSet(t)
    <3>1. PICK m \in 1 .. l : x = s[m]
      BY <1>1 DEF ToSet
    <3>2. m # n
      BY <2>2, <3>1
    <3>3. PICK k \in 1 .. l - 1 : At(k) = m
      BY <1>4, <3>1, <3>2
    <3>4. x = t[k] /\ k \in DOMAIN t
      BY <1>1, <3>1, <3>3
    <3> QED
      BY <3>4 DEF ToSet
  <2> QED
    BY <2>1, <2>2
<1> QED
  BY <1>5, <1>6 DEF t

(* A list without repetitions is no longer than the set its elements are   *)
(* from.                                                                   *)
LEMMA InjectiveLength ==
  ASSUME NEW S, IsFiniteSet(S), NEW s \in Seq(S), IsInjective(s)
  PROVE  Cardinality(S) \in Nat /\ Len(s) \in 0 .. Cardinality(S)
<1>1. Len(s) \in Nat /\ s \in [1 .. Len(s) -> S]
  BY LenProperties
<1>2. s \in Injection(1 .. Len(s), S)
  BY <1>1 DEF Injection
<1>3. Cardinality(1 .. Len(s)) = Len(s)
  BY <1>1, FS_Interval
<1>4. Cardinality(S) \in Nat
  BY FS_CardinalityType
<1>5. Cardinality(1 .. Len(s)) <= Cardinality(S)
  BY <1>2, FS_Injection
<1> QED
  BY <1>1, <1>3, <1>4, <1>5

(* Such a list has as many elements as places.                             *)
LEMMA InjectiveSize ==
  ASSUME NEW S, NEW s \in Seq(S), IsInjective(s)
  PROVE  IsFiniteSet(ToSet(s)) /\ Cardinality(ToSet(s)) = Len(s)
<1>1. Len(s) \in Nat /\ DOMAIN s = 1 .. Len(s) /\ s \in [1 .. Len(s) -> S]
  BY LenProperties
<1>2. s \in [1 .. Len(s) -> ToSet(s)]
  BY <1>1 DEF ToSet
<1>3. s \in Bijection(1 .. Len(s), ToSet(s))
  <2>1. \A x \in ToSet(s) : \E k \in 1 .. Len(s) : s[k] = x
    BY <1>1 DEF ToSet
  <2> QED
    BY <1>2, <2>1 DEF Bijection, Injection, Surjection
<1>4. IsFiniteSet(1 .. Len(s)) /\ Cardinality(1 .. Len(s)) = Len(s)
  BY <1>1, FS_Interval
<1>5. IsFiniteSet(ToSet(s)) /\ Cardinality(ToSet(s)) = Cardinality(1 .. Len(s))
  BY <1>3, <1>4, FS_Bijection DEF ExistsBijection
<1> QED
  BY <1>4, <1>5
==============================================================================
