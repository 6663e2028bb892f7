-------------------------- MODULE OwnershipProofs ---------------------------
(***************************************************************************)
(* Proofs about what is owned: the variables of the borrow checker, for    *)
(* every number of variables and of borrows, and the contexts and symbols  *)
(* of an environment of agents.                                            *)
(***************************************************************************)
EXTENDS Ownership, ListLemmas

(***************************************************************************)
(* The borrow checker.  The counters of a variable's record and the list   *)
(* of regions are two representations of one thing; the inductive          *)
(* invariant says how they agree, and the rules of ownership.h follow.     *)
(***************************************************************************)

(* The list of regions as a data structure: what adding one at the head    *)
(* and unlinking one do to the positions of a variable's regions.          *)

PositionsIn(s, v, type) == {i \in DOMAIN s : s[i].var = v /\ s[i].type = type}

(* A list has finitely many positions, hence so has any kind of region.    *)
LEMMA PositionsFinite ==
  ASSUME NEW s \in Seq(BorrowRegion), NEW v, NEW type
  PROVE  /\ IsFiniteSet(PositionsIn(s, v, type))
         /\ Cardinality(PositionsIn(s, v, type)) \in Nat
<1>1. /\ Len(s) \in Nat
      /\ DOMAIN s = 1 .. Len(s)
  BY LenProperties
<1>2. IsFiniteSet(1 .. Len(s))
  BY <1>1, FS_Interval
<1>3. PositionsIn(s, v, type) \in SUBSET (1 .. Len(s))
  BY <1>1 DEF PositionsIn
<1>4. IsFiniteSet(PositionsIn(s, v, type))
  BY <1>2, <1>3, FS_Subset
<1> QED
  BY <1>4, FS_CardinalityType

(* Pushing a region (the head insertion of borrow and borrow_mut) adds one *)
(* to the count of its own variable and kind and to no other.              *)
LEMMA PushCounts ==
  ASSUME NEW s \in Seq(BorrowRegion), NEW r \in BorrowRegion, NEW v, NEW type
  PROVE  /\ <<r>> \o s \in Seq(BorrowRegion)
         /\ Len(<<r>> \o s) = Len(s) + 1
         /\ DOMAIN (<<r>> \o s) = 1 .. Len(s) + 1
         /\ \A i \in 1 .. Len(s) + 1 :
               (<<r>> \o s)[i] = IF i = 1 THEN r ELSE s[i - 1]
         /\ Cardinality(PositionsIn(<<r>> \o s, v, type)) =
              Cardinality(PositionsIn(s, v, type))
                + IF r.var = v /\ r.type = type THEN 1 ELSE 0
<1> DEFINE t   == <<r>> \o s
           old == PositionsIn(s, v, type)
           up  == {i + 1 : i \in old}
           f   == [i \in old |-> i + 1]
<1>1. /\ Len(s) \in Nat
      /\ DOMAIN s = 1 .. Len(s)
      /\ <<r>> \in Seq(BorrowRegion)
      /\ Len(<<r>>) = 1
      /\ <<r>>[1] = r
  BY LenProperties
<1>2. /\ t \in Seq(BorrowRegion)
      /\ Len(t) = Len(s) + 1
      /\ DOMAIN t = 1 .. Len(s) + 1
      /\ \A i \in 1 .. Len(s) + 1 : t[i] = IF i = 1 THEN r ELSE s[i - 1]
  <2>1. /\ t \in Seq(BorrowRegion)
        /\ Len(t) = Len(<<r>>) + Len(s)
        /\ \A i \in 1 .. Len(<<r>>) + Len(s) :
              t[i] = IF i <= Len(<<r>>) THEN <<r>>[i] ELSE s[i - Len(<<r>>)]
    BY <1>1, ConcatProperties
  <2>2. DOMAIN t = 1 .. Len(t)
    BY <2>1, LenProperties
  <2> HIDE DEF t
  <2> QED
    BY <1>1, <2>1, <2>2
<1> HIDE DEF t
<1>3. IsFiniteSet(old) /\ Cardinality(old) \in Nat
  BY PositionsFinite
<1>4. old \in SUBSET (1 .. Len(s))
  BY <1>1 DEF PositionsIn
<1>5. IsFiniteSet(up) /\ Cardinality(up) = Cardinality(old)
  <2>1. f \in Bijection(old, up)
    <3>1. f \in [old -> up]
      OBVIOUS
    <3>2. \A a, b \in old : f[a] = f[b] => a = b
      BY <1>1, <1>4
    <3>3. \A u \in up : \E a \in old : f[a] = u
      OBVIOUS
    <3> QED
      BY <3>1, <3>2, <3>3 DEF Bijection, Injection, Surjection, IsInjective
  <2> QED
    BY <1>3, <2>1, FS_Bijection DEF ExistsBijection
<1>6. 1 \notin up
  BY <1>1, <1>4
<1>7. Cardinality(PositionsIn(t, v, type)) =
        Cardinality(old) + IF r.var = v /\ r.type = type THEN 1 ELSE 0
  <2>1. CASE r.var = v /\ r.type = type
    <3>1. PositionsIn(t, v, type) = up \cup {1}
      <4>1. ASSUME NEW i \in PositionsIn(t, v, type), i # 1
            PROVE  i \in up
        <5>1. i \in 1 .. Len(s) + 1 /\ i - 1 \in 1 .. Len(s) /\ t[i] = s[i - 1]
          BY <1>1, <1>2, <4>1 DEF PositionsIn
        <5>2. i - 1 \in old
          BY <1>1, <5>1, <4>1 DEF PositionsIn
        <5> QED
          BY <5>1, <5>2
      <4>2. ASSUME NEW i \in old
            PROVE  i + 1 \in PositionsIn(t, v, type)
        BY <1>1, <1>2, <1>4 DEF PositionsIn
      <4>3. 1 \in PositionsIn(t, v, type)
        BY <1>1, <1>2, <2>1 DEF PositionsIn
      <4> QED
        BY <4>1, <4>2, <4>3
    <3>2. Cardinality(up \cup {1}) = Cardinality(up) + 1
      BY <1>5, <1>6, FS_AddElement
    <3> QED
      BY <1>3, <1>5, <2>1, <3>1, <3>2
  <2>2. CASE ~(r.var = v /\ r.type = type)
    <3>1. PositionsIn(t, v, type) = up
      <4>1. ASSUME NEW i \in PositionsIn(t, v, type)
            PROVE  i \in up
        <5>1. i \in 1 .. Len(s) + 1 /\ i # 1
          BY <1>1, <1>2, <2>2 DEF PositionsIn
        <5>2. i - 1 \in 1 .. Len(s) /\ t[i] = s[i - 1]
          BY <1>1, <1>2, <5>1
        <5>3. i - 1 \in old
          BY <1>1, <5>2 DEF PositionsIn
        <5> QED
          BY <5>1, <5>3
      <4>2. ASSUME NEW i \in old
            PROVE  i + 1 \in PositionsIn(t, v, type)
        BY <1>1, <1>2, <1>4 DEF PositionsIn
      <4> QED
        BY <4>1, <4>2
    <3> QED
      BY <1>3, <1>5, <2>2, <3>1
  <2> QED
    BY <2>1, <2>2
<1> QED
  BY <1>2, <1>7 DEF t

UnlinkFrom(s, i) ==
  [j \in 1 .. Len(s) - 1 |-> IF j < i THEN s[j] ELSE s[j + 1]]

(* Unlinking position i (unborrow's *pp = br->next) removes that position  *)
(* from the count of its own variable and kind, and renames the others     *)
(* without changing any of the regions.                                    *)
LEMMA UnlinkCounts ==
  ASSUME NEW s \in Seq(BorrowRegion), NEW i \in DOMAIN s, NEW v, NEW type
  PROVE  /\ UnlinkFrom(s, i) \in Seq(BorrowRegion)
         /\ Len(UnlinkFrom(s, i)) = Len(s) - 1
         /\ DOMAIN UnlinkFrom(s, i) = 1 .. Len(s) - 1
         /\ Cardinality(PositionsIn(UnlinkFrom(s, i), v, type)) =
              Cardinality(PositionsIn(s, v, type))
                - IF s[i].var = v /\ s[i].type = type THEN 1 ELSE 0
<1> DEFINE t    == UnlinkFrom(s, i)
           new  == PositionsIn(t, v, type)
           kept == PositionsIn(s, v, type) \ {i}
           f    == [j \in new |-> IF j < i THEN j ELSE j + 1]
<1>1. /\ Len(s) \in Nat
      /\ DOMAIN s = 1 .. Len(s)
      /\ i \in 1 .. Len(s)
      /\ \A j \in 1 .. Len(s) : s[j] \in BorrowRegion
  BY LenProperties, ElementOfSeq
<1>2. /\ t = [j \in 1 .. Len(s) - 1 |-> IF j < i THEN s[j] ELSE s[j + 1]]
      /\ DOMAIN t = 1 .. Len(s) - 1
      /\ \A j \in 1 .. Len(s) - 1 : t[j] = IF j < i THEN s[j] ELSE s[j + 1]
  BY DEF UnlinkFrom
<1>3. t \in Seq(BorrowRegion) /\ Len(t) = Len(s) - 1
  <2>1. t \in [1 .. Len(s) - 1 -> BorrowRegion] /\ Len(s) - 1 \in Nat
    BY <1>1, <1>2
  <2>2. t \in Seq(BorrowRegion)
    BY <2>1, SeqDef
  <2>3. DOMAIN t = 1 .. Len(t) /\ Len(t) \in Nat
    BY <2>2, LenProperties
  <2> QED
    BY <1>1, <1>2, <2>2, <2>3
<1> HIDE DEF t
<1>4. /\ new \subseteq 1 .. Len(s) - 1
      /\ kept \subseteq 1 .. Len(s)
  BY <1>1, <1>2 DEF PositionsIn
<1>5. f \in Bijection(new, kept)
  <2>1. f \in [new -> kept]
    <3>1. ASSUME NEW j \in new
          PROVE  (IF j < i THEN j ELSE j + 1) \in kept
      BY <1>1, <1>2, <1>4, <3>1 DEF PositionsIn
    <3> QED
      BY <3>1
  <2>2. \A a, b \in new : f[a] = f[b] => a = b
    BY <1>1, <1>4
  <2>3. ASSUME NEW k \in kept
        PROVE  \E j \in new : f[j] = k
    <3>1. k \in 1 .. Len(s) /\ k # i /\ s[k].var = v /\ s[k].type = type
      BY <1>4, <2>3 DEF PositionsIn
    <3>2. CASE k < i
      <4>1. k \in new
        BY <1>1, <1>2, <3>1, <3>2 DEF PositionsIn
      <4> QED
        BY <3>2, <4>1
    <3>3. CASE k > i
      <4>1. k - 1 \in 1 .. Len(s) - 1 /\ t[k - 1] = s[k]
        BY <1>1, <1>2, <3>1, <3>3
      <4>2. k - 1 \in new
        BY <1>1, <1>2, <3>1, <4>1 DEF PositionsIn
      <4>3. f[k - 1] = k
        BY <1>1, <3>1, <3>3, <4>2
      <4> QED
        BY <4>2, <4>3
    <3> QED
      BY <1>1, <3>1, <3>2, <3>3
  <2> QED
    BY <2>1, <2>2, <2>3 DEF Bijection, Injection, Surjection, IsInjective
<1>6. /\ IsFiniteSet(PositionsIn(s, v, type))
      /\ Cardinality(PositionsIn(s, v, type)) \in Nat
      /\ IsFiniteSet(new)
  BY <1>3, PositionsFinite
<1>7. Cardinality(new) = Cardinality(kept)
  BY <1>5, <1>6, FS_Bijection DEF ExistsBijection
<1>8. Cardinality(kept) =
        Cardinality(PositionsIn(s, v, type))
          - IF s[i].var = v /\ s[i].type = type THEN 1 ELSE 0
  <2>1. (i \in PositionsIn(s, v, type)) <=> (s[i].var = v /\ s[i].type = type)
    BY DEF PositionsIn
  <2>2. Cardinality(kept) =
          IF i \in PositionsIn(s, v, type)
            THEN Cardinality(PositionsIn(s, v, type)) - 1
            ELSE Cardinality(PositionsIn(s, v, type))
    BY <1>6, FS_RemoveElement
  <2> QED
    BY <1>6, <2>1, <2>2
<1> QED
  BY <1>2, <1>3, <1>7, <1>8 DEF t

-----------------------------------------------------------------------------
(* The inductive invariant.                                                *)

(* Regions belong to registered variables.                                 *)
RegionsRegistered ==
  \A i \in DOMAIN active_borrows : active_borrows[i].var \in Registered

(* Slots beyond var_count hold nothing that anybody borrowed.              *)
UnregisteredFresh ==
  \A v \in VarId \ Registered : own[v] = FreshInfo(v)

(* A registered variable's value was first owned by a registered variable. *)
OwnersRegistered ==
  \A v \in Registered : own[v].owner_id \in Registered

IInv ==
  /\ TypeOK
  /\ RegionsRegistered
  /\ UnregisteredFresh
  /\ OwnersRegistered
  /\ CountsMatchRegions
  /\ ExclusiveBorrow
  /\ BorrowedIsOwned
  /\ UniqueOwner

(* The counts of the list, in terms of its positions.                      *)
LEMMA CountsAsPositions ==
  /\ CountsMatchRegions <=>
       \A v \in VarId :
          /\ own[v].borrow_count =
               Cardinality(PositionsIn(active_borrows, v, "borrowed"))
          /\ own[v].is_mut_borrowed <=>
               PositionsIn(active_borrows, v, "borrowed_mut") # {}
  /\ CountsMatchRegions' <=>
       \A v \in VarId :
          /\ own'[v].borrow_count =
               Cardinality(PositionsIn(active_borrows', v, "borrowed"))
          /\ own'[v].is_mut_borrowed <=>
               PositionsIn(active_borrows', v, "borrowed_mut") # {}
<1>1. \A v, type : RegionsOfType(v, type) = PositionsIn(active_borrows, v, type)
  BY DEF RegionsOfType, RegionsOf, PositionsIn
<1>2. \A v, type : RegionsOfType(v, type)' = PositionsIn(active_borrows', v, type)
  BY DEF RegionsOfType, RegionsOf, PositionsIn
<1> QED
  BY <1>1, <1>2 DEF CountsMatchRegions

(* A new variable's record is a record.                                    *)
LEMMA FreshInfoType ==
  \A v \in VarId :
     /\ FreshInfo(v) \in OwnershipInfo
     /\ FreshInfo(v).state = "owned"
     /\ FreshInfo(v).owner_id = v
  BY MaxVarsAssumption DEF FreshInfo, OwnershipInfo, OwnershipState, Value, VarId

LEMMA InitEstablishes == Init => IInv
<1> SUFFICES ASSUME Init PROVE IInv
  OBVIOUS
<1>1. TypeOK
  <2>1. own \in [VarId -> OwnershipInfo]
    BY FreshInfoType DEF Init
  <2>2. active_borrows \in Seq(BorrowRegion)
    BY EmptySeq DEF Init
  <2>3. var_count \in 0 .. MaxVars
    BY MaxVarsAssumption DEF Init
  <2>4. failed \in BOOLEAN /\ freed \subseteq Value
    BY DEF Init
  <2> QED
    BY <2>1, <2>2, <2>3, <2>4 DEF TypeOK
<1>2. \A v, type : PositionsIn(active_borrows, v, type) = {}
  BY DEF Init, PositionsIn
<1>3. CountsMatchRegions
  BY <1>2, CountsAsPositions, FS_EmptySet DEF Init, FreshInfo
<1>4. /\ RegionsRegistered
      /\ UnregisteredFresh
      /\ OwnersRegistered
      /\ ExclusiveBorrow
      /\ BorrowedIsOwned
      /\ UniqueOwner
  BY DEF Init, RegionsRegistered, UnregisteredFresh, OwnersRegistered, Registered,
         ExclusiveBorrow, BorrowedIsOwned, UniqueOwner
<1> QED
  BY <1>1, <1>3, <1>4 DEF IInv

LEMMA AddVarPreserves == IInv /\ AddVar => IInv'
<1> SUFFICES ASSUME IInv, AddVar PROVE IInv'
  OBVIOUS
<1>1. /\ var_count \in VarId \ Registered
      /\ Registered' = Registered \cup {var_count}
      /\ Registered' \subseteq VarId
  BY MaxVarsAssumption DEF IInv, AddVar, TypeOK, VarId, Registered
<1>2. own[var_count] = FreshInfo(var_count)
  BY <1>1 DEF IInv, UnregisteredFresh
<1>3. own' = own
  <2>1. own' = [own EXCEPT ![var_count] = FreshInfo(var_count)]
    BY DEF AddVar
  <2>2. own \in [VarId -> OwnershipInfo]
    BY DEF IInv, TypeOK
  <2> QED
    BY <1>1, <1>2, <2>1, <2>2
<1>4. TypeOK'
  <2>1. var_count' \in 0 .. MaxVars
    BY MaxVarsAssumption DEF IInv, AddVar, TypeOK
  <2> QED
    BY <1>3, <2>1 DEF IInv, AddVar, TypeOK
<1>5. RegionsRegistered'
  BY <1>1 DEF IInv, AddVar, RegionsRegistered
<1>6. UnregisteredFresh'
  BY <1>1, <1>3 DEF IInv, UnregisteredFresh, FreshInfo
<1>7. own[var_count].owner_id = var_count
  BY <1>1, <1>2, FreshInfoType
<1>8. OwnersRegistered'
  BY <1>1, <1>3, <1>7 DEF IInv, OwnersRegistered
<1>9. CountsMatchRegions' /\ ExclusiveBorrow' /\ BorrowedIsOwned'
  BY <1>3, CountsAsPositions DEF IInv, AddVar, ExclusiveBorrow, BorrowedIsOwned
<1>10. UniqueOwner'
  <2>1. \A v \in Registered : own[v].owner_id # var_count
    BY <1>1 DEF IInv, OwnersRegistered
  <2> QED
    BY <1>1, <1>3, <1>7, <2>1 DEF IInv, UniqueOwner
<1> QED
  BY <1>4, <1>5, <1>6, <1>8, <1>9, <1>10 DEF IInv

(* Steps that leave the tables alone: refused calls, and stuttering.       *)
LEMMA TablesUnchangedPreserves ==
  ASSUME IInv, UNCHANGED <<var_count, own, active_borrows>>,
         failed' \in BOOLEAN, freed' \subseteq Value
  PROVE  IInv'
<1>1. TypeOK'
  BY DEF IInv, TypeOK
<1>2. RegionsRegistered' /\ UnregisteredFresh' /\ OwnersRegistered'
  BY DEF IInv, RegionsRegistered, UnregisteredFresh, OwnersRegistered, Registered, FreshInfo
<1>3. CountsMatchRegions'
  BY CountsAsPositions DEF IInv
<1>4. ExclusiveBorrow' /\ BorrowedIsOwned' /\ UniqueOwner'
  BY DEF IInv, ExclusiveBorrow, BorrowedIsOwned, UniqueOwner, Registered
<1> QED
  BY <1>1, <1>2, <1>3, <1>4 DEF IInv

(* A variable has no active region of either kind exactly when its record  *)
(* says that it is not borrowed.                                           *)
LEMMA BorrowedIffRegions ==
  ASSUME IInv, NEW v \in VarId
  PROVE  /\ (own[v].borrow_count = 0) <=> (PositionsIn(active_borrows, v, "borrowed") = {})
         /\ own[v].is_mut_borrowed <=> (PositionsIn(active_borrows, v, "borrowed_mut") # {})
         /\ IsBorrowed(v) <=> (\E i \in DOMAIN active_borrows : active_borrows[i].var = v)
<1>1. active_borrows \in Seq(BorrowRegion)
  BY DEF IInv, TypeOK
<1>2. /\ own[v].borrow_count = Cardinality(PositionsIn(active_borrows, v, "borrowed"))
      /\ own[v].is_mut_borrowed <=> PositionsIn(active_borrows, v, "borrowed_mut") # {}
  BY CountsAsPositions DEF IInv
<1>3. (own[v].borrow_count = 0) <=> (PositionsIn(active_borrows, v, "borrowed") = {})
  BY <1>1, <1>2, PositionsFinite, FS_EmptySet
<1>4. own[v].borrow_count \in Nat
  BY <1>1, <1>2, PositionsFinite
<1>5. ASSUME NEW i \in DOMAIN active_borrows
      PROVE  active_borrows[i].type \in {"borrowed", "borrowed_mut"}
  <2>1. active_borrows[i] \in BorrowRegion
    BY <1>1, LenProperties, ElementOfSeq
  <2> QED
    BY <2>1 DEF BorrowRegion, BorrowType
<1>6. IsBorrowed(v) <=> (\E i \in DOMAIN active_borrows : active_borrows[i].var = v)
  BY <1>2, <1>3, <1>4, <1>5 DEF IsBorrowed, PositionsIn
<1> QED
  BY <1>2, <1>3, <1>6

(* What the acceptance of a borrow does to the two tables, whatever its    *)
(* kind: the list grows by a region that the record is updated to match.   *)
LEMMA PushPreserves ==
  ASSUME IInv, NEW v \in Registered, NEW type \in BorrowType,
         NEW info \in OwnershipInfo,
         own[v].state = "owned",
         ~own[v].is_mut_borrowed,
         type = "borrowed_mut" => own[v].borrow_count = 0,
         info = IF type = "borrowed"
                  THEN [own[v] EXCEPT !.borrow_count = @ + 1]
                  ELSE [own[v] EXCEPT !.is_mut_borrowed = TRUE],
         own' = [own EXCEPT ![v] = info],
         PushRegion(v, type),
         UNCHANGED <<var_count, failed, freed>>
  PROVE  IInv'
<1> DEFINE r == [var |-> v, type |-> type]
<1>1. /\ v \in VarId
      /\ Registered' = Registered
      /\ Registered \subseteq VarId
      /\ own \in [VarId -> OwnershipInfo]
      /\ active_borrows \in Seq(BorrowRegion)
      /\ Len(active_borrows) \in Nat
      /\ DOMAIN active_borrows = 1 .. Len(active_borrows)
  BY MaxVarsAssumption, LenProperties DEF IInv, TypeOK, VarId, Registered
<1>2. r \in BorrowRegion
  BY <1>1 DEF BorrowRegion
<1>3. /\ active_borrows' = <<r>> \o active_borrows
      /\ active_borrows' \in Seq(BorrowRegion)
      /\ DOMAIN active_borrows' = 1 .. Len(active_borrows) + 1
      /\ \A i \in 1 .. Len(active_borrows) + 1 :
            active_borrows'[i] = IF i = 1 THEN r ELSE active_borrows[i - 1]
  BY <1>1, <1>2, PushCounts DEF PushRegion
<1>4. \A w, t : Cardinality(PositionsIn(active_borrows', w, t)) =
                  Cardinality(PositionsIn(active_borrows, w, t))
                    + IF r.var = w /\ r.type = t THEN 1 ELSE 0
  BY <1>1, <1>2, <1>3, PushCounts
<1>5. /\ info.state = own[v].state
      /\ info.owner_id = own[v].owner_id
      /\ \A w \in VarId : own'[w] = IF w = v THEN info ELSE own[w]
  BY <1>1 DEF OwnershipInfo
<1>6. TypeOK'
  BY <1>1, <1>3 DEF IInv, TypeOK
<1>7. RegionsRegistered'
  <2>1. ASSUME NEW i \in DOMAIN active_borrows'
        PROVE  active_borrows'[i].var \in Registered
    <3>1. CASE i = 1
      BY <1>1, <1>3, <3>1
    <3>2. CASE i # 1
      <4>1. i - 1 \in DOMAIN active_borrows /\ active_borrows'[i] = active_borrows[i - 1]
        BY <1>1, <1>3, <3>2
      <4> QED
        BY <4>1 DEF IInv, RegionsRegistered
    <3> QED
      BY <3>1, <3>2
  <2> QED
    BY <1>1, <2>1 DEF RegionsRegistered
<1>8. UnregisteredFresh'
  BY <1>1, <1>5 DEF IInv, UnregisteredFresh, FreshInfo
<1>9. OwnersRegistered'
  BY <1>1, <1>5 DEF IInv, OwnersRegistered
<1>10. UniqueOwner'
  BY <1>1, <1>5 DEF IInv, UniqueOwner
<1>11. BorrowedIsOwned'
  <2>1. ASSUME NEW i \in DOMAIN active_borrows'
        PROVE  own'[active_borrows'[i].var].state = "owned"
    <3>1. CASE i = 1
      BY <1>1, <1>3, <1>5, <3>1
    <3>2. CASE i # 1
      <4>1. i - 1 \in DOMAIN active_borrows /\ active_borrows'[i] = active_borrows[i - 1]
        BY <1>1, <1>3, <3>2
      <4>2. /\ own[active_borrows[i - 1].var].state = "owned"
            /\ active_borrows[i - 1].var \in VarId
        BY <1>1, <4>1 DEF IInv, BorrowedIsOwned, RegionsRegistered
      <4> QED
        BY <1>5, <4>1, <4>2
    <3> QED
      BY <3>1, <3>2
  <2> QED
    BY <2>1 DEF BorrowedIsOwned
<1>12. ExclusiveBorrow'
  <2>1. ASSUME NEW i \in DOMAIN active_borrows, active_borrows[i].var = v
        PROVE  type = "borrowed" /\ active_borrows[i].type = "borrowed"
    <3>1. PositionsIn(active_borrows, v, "borrowed_mut") = {}
      BY <1>1, BorrowedIffRegions
    <3>2. type = "borrowed_mut" => PositionsIn(active_borrows, v, "borrowed") = {}
      BY <1>1, BorrowedIffRegions
    <3>3. active_borrows[i].type \in BorrowType
      <4>1. active_borrows[i] \in BorrowRegion
        BY <1>1, ElementOfSeq
      <4> QED
        BY <4>1 DEF BorrowRegion
    <3> QED
      BY <2>1, <3>1, <3>2, <3>3 DEF PositionsIn, BorrowType
  <2>2. ASSUME NEW i \in DOMAIN active_borrows', NEW j \in DOMAIN active_borrows',
               i # j, active_borrows'[i].var = active_borrows'[j].var
        PROVE  active_borrows'[i].type = "borrowed" /\ active_borrows'[j].type = "borrowed"
    <3>1. \A k \in DOMAIN active_borrows' :
             k # 1 => /\ k - 1 \in DOMAIN active_borrows
                      /\ active_borrows'[k] = active_borrows[k - 1]
      BY <1>1, <1>3
    <3>2. CASE i = 1
      BY <1>1, <1>3, <2>1, <2>2, <3>1, <3>2
    <3>3. CASE j = 1
      BY <1>1, <1>3, <2>1, <2>2, <3>1, <3>3
    <3>4. CASE i # 1 /\ j # 1
      <4>1. i - 1 # j - 1
        BY <1>1, <1>3, <2>2
      <4> QED
        BY <2>2, <3>1, <3>4, <4>1 DEF IInv, ExclusiveBorrow
    <3> QED
      BY <3>2, <3>3, <3>4
  <2> QED
    BY <2>2 DEF ExclusiveBorrow
<1>13. CountsMatchRegions'
  <2>1. ASSUME NEW w \in VarId
        PROVE  own'[w].borrow_count = Cardinality(PositionsIn(active_borrows', w, "borrowed"))
    <3>1. /\ own[w].borrow_count = Cardinality(PositionsIn(active_borrows, w, "borrowed"))
          /\ own[w].borrow_count \in Nat
      BY <1>1, CountsAsPositions, PositionsFinite DEF IInv
    <3>2. own'[w].borrow_count =
            own[w].borrow_count + IF w = v /\ type = "borrowed" THEN 1 ELSE 0
      BY <1>1, <1>5, <3>1 DEF OwnershipInfo, BorrowType
    <3> QED
      BY <1>4, <3>1, <3>2
  <2>2. ASSUME NEW w \in VarId
        PROVE  own'[w].is_mut_borrowed <=> PositionsIn(active_borrows', w, "borrowed_mut") # {}
    <3>1. own[w].is_mut_borrowed <=> PositionsIn(active_borrows, w, "borrowed_mut") # {}
      BY CountsAsPositions DEF IInv
    <3>2. own'[w].is_mut_borrowed <=>
            (own[w].is_mut_borrowed \/ (w = v /\ type = "borrowed_mut"))
      BY <1>1, <1>5 DEF OwnershipInfo, BorrowType
    <3>3. PositionsIn(active_borrows', w, "borrowed_mut") # {} <=>
            \/ PositionsIn(active_borrows, w, "borrowed_mut") # {}
            \/ w = v /\ type = "borrowed_mut"
      <4>1. /\ IsFiniteSet(PositionsIn(active_borrows, w, "borrowed_mut"))
            /\ Cardinality(PositionsIn(active_borrows, w, "borrowed_mut")) \in Nat
            /\ IsFiniteSet(PositionsIn(active_borrows', w, "borrowed_mut"))
        BY <1>1, <1>3, PositionsFinite
      <4>2. Cardinality(PositionsIn(active_borrows', w, "borrowed_mut")) = 0 <=>
              /\ Cardinality(PositionsIn(active_borrows, w, "borrowed_mut")) = 0
              /\ ~(w = v /\ type = "borrowed_mut")
        BY <1>4, <4>1
      <4> QED
        BY <4>1, <4>2, FS_EmptySet
    <3> QED
      BY <3>1, <3>2, <3>3
  <2> QED
    BY <2>1, <2>2, CountsAsPositions
<1> QED
  BY <1>6, <1>7, <1>8, <1>9, <1>10, <1>11, <1>12, <1>13 DEF IInv

LEMMA BorrowPreserves ==
  ASSUME IInv, NEW v \in Registered, Borrow(v)
  PROVE  IInv'
<1>1. own[v] \in OwnershipInfo /\ own[v].state \in OwnershipState
  BY MaxVarsAssumption DEF IInv, TypeOK, VarId, Registered, OwnershipInfo
<1>2. CASE CanBorrow(v)
  <2> DEFINE info == [own[v] EXCEPT !.borrow_count = @ + 1]
  <2>1. info \in OwnershipInfo
    BY <1>1 DEF OwnershipInfo
  <2>2. own[v].state = "owned" /\ ~own[v].is_mut_borrowed
    BY <1>1, <1>2 DEF CanBorrow, Usable, OwnershipState
  <2>3. /\ own' = [own EXCEPT ![v] = info]
        /\ PushRegion(v, "borrowed")
        /\ UNCHANGED <<var_count, failed, freed>>
    BY <1>2 DEF Borrow
  <2> QED
    BY <2>1, <2>2, <2>3, PushPreserves DEF BorrowType
<1>3. CASE ~CanBorrow(v)
  BY <1>3, TablesUnchangedPreserves DEF Borrow, AddError, IInv, TypeOK
<1> QED
  BY <1>2, <1>3

LEMMA BorrowMutPreserves ==
  ASSUME IInv, NEW v \in Registered, BorrowMut(v)
  PROVE  IInv'
<1>1. own[v] \in OwnershipInfo /\ own[v].state \in OwnershipState
  BY MaxVarsAssumption DEF IInv, TypeOK, VarId, Registered, OwnershipInfo
<1>2. CASE CanBorrowMut(v)
  <2> DEFINE info == [own[v] EXCEPT !.is_mut_borrowed = TRUE]
  <2>1. info \in OwnershipInfo
    BY <1>1 DEF OwnershipInfo
  <2>2. /\ own[v].state = "owned"
        /\ ~own[v].is_mut_borrowed
        /\ own[v].borrow_count = 0
    BY <1>1, <1>2 DEF CanBorrowMut, Usable, OwnershipState
  <2>3. /\ own' = [own EXCEPT ![v] = info]
        /\ PushRegion(v, "borrowed_mut")
        /\ UNCHANGED <<var_count, failed, freed>>
    BY <1>2 DEF BorrowMut
  <2> QED
    BY <2>1, <2>2, <2>3, PushPreserves DEF BorrowType
<1>3. CASE ~CanBorrowMut(v)
  BY <1>3, TablesUnchangedPreserves DEF BorrowMut, AddError, IInv, TypeOK
<1> QED
  BY <1>2, <1>3

(* An accepted move changes who owns what, but no borrow field, and its    *)
(* source has no region (CanMove).                                         *)
LEMMA MovePreserves ==
  ASSUME IInv, NEW v \in Registered, NEW w \in Registered, Move(v, w)
  PROVE  IInv'
<1>1. /\ v \in VarId
      /\ w \in VarId
      /\ Registered \subseteq VarId
      /\ own \in [VarId -> OwnershipInfo]
  BY MaxVarsAssumption DEF IInv, TypeOK, VarId, Registered
<1>2. CASE CanMove(v)
  <2>1. /\ Registered' = Registered
        /\ active_borrows' = active_borrows
        /\ own' = MovedIn(MovedOut(v, w), v, w)
        /\ UNCHANGED <<var_count, failed, freed>>
    BY <1>2 DEF Move, Registered
  <2>2. own' \in [VarId -> OwnershipInfo]
    <3> DEFINE t == MovedOut(v, w)
    <3>1. /\ [own[v] EXCEPT !.state = "moved", !.moved_to = w] \in OwnershipInfo
          /\ own[v].owner_id \in Value
      <4>1. own[v] \in OwnershipInfo
        BY <1>1
      <4> QED
        BY <1>1, <4>1 DEF OwnershipInfo, OwnershipState
    <3>2. t = [own EXCEPT ![v] = [own[v] EXCEPT !.state = "moved", !.moved_to = w]]
      BY <1>1 DEF MovedOut
    <3>3. t \in [VarId -> OwnershipInfo]
      BY <1>1, <3>1, <3>2
    <3> HIDE DEF t
    <3>4. [t[w] EXCEPT !.state = "owned", !.owner_id = own[v].owner_id] \in OwnershipInfo
      BY <1>1, <3>1, <3>3 DEF OwnershipInfo, OwnershipState
    <3>5. own' = [t EXCEPT ![w] = [t[w] EXCEPT !.state = "owned",
                                                !.owner_id = own[v].owner_id]]
      BY <1>1, <2>1, <3>3 DEF t, MovedIn
    <3> QED
      BY <1>1, <3>3, <3>4, <3>5
  <2>3. \A x \in VarId :
           /\ own'[x].borrow_count = own[x].borrow_count
           /\ own'[x].is_mut_borrowed = own[x].is_mut_borrowed
           /\ own'[x].owner_id = IF x = w THEN own[v].owner_id ELSE own[x].owner_id
           /\ own'[x].state = IF x = w THEN "owned"
                                ELSE IF x = v THEN "moved" ELSE own[x].state
    BY <1>1, <2>1 DEF MovedIn, MovedOut, OwnershipInfo
  <2>4. \A x \in VarId \ {v, w} : own'[x] = own[x]
    BY <1>1, <2>1 DEF MovedIn, MovedOut
  <2>5. TypeOK'
    BY <2>1, <2>2 DEF IInv, TypeOK
  <2>6. RegionsRegistered' /\ UnregisteredFresh'
    BY <2>1, <2>4 DEF IInv, RegionsRegistered, UnregisteredFresh, FreshInfo
  <2>7. OwnersRegistered'
    BY <1>1, <2>1, <2>3 DEF IInv, OwnersRegistered
  <2>8. CountsMatchRegions'
    BY <2>1, <2>3, CountsAsPositions DEF IInv
  <2>9. ExclusiveBorrow'
    BY <2>1 DEF IInv, ExclusiveBorrow
  <2>10. BorrowedIsOwned'
    <3>1. \A i \in DOMAIN active_borrows :
             /\ active_borrows[i].var \in VarId \ {v}
             /\ own[active_borrows[i].var].state = "owned"
      BY <1>1, <1>2, BorrowedIffRegions DEF IInv, CanMove, RegionsRegistered, BorrowedIsOwned
    <3> QED
      BY <2>1, <2>3, <3>1 DEF BorrowedIsOwned
  <2>11. UniqueOwner'
    <3>1. own[v].state # "moved"
      BY <1>2 DEF CanMove
    <3>2. ASSUME NEW x \in Registered, NEW y \in Registered, x # y,
                 own'[x].state # "moved", own'[y].state # "moved"
          PROVE  own'[x].owner_id # own'[y].owner_id
      <4>1. CASE x # w /\ y # w
        BY <1>1, <2>3, <3>2, <4>1 DEF IInv, UniqueOwner
      <4>2. CASE x = w
        BY <1>1, <2>3, <3>1, <3>2, <4>2 DEF IInv, UniqueOwner
      <4>3. CASE y = w
        BY <1>1, <2>3, <3>1, <3>2, <4>3 DEF IInv, UniqueOwner
      <4> QED
        BY <4>1, <4>2, <4>3
    <3> QED
      BY <2>1, <3>2 DEF UniqueOwner
  <2> QED
    BY <2>5, <2>6, <2>7, <2>8, <2>9, <2>10, <2>11 DEF IInv
<1>3. CASE ~CanMove(v)
  BY <1>3, TablesUnchangedPreserves DEF Move, AddError, IInv, TypeOK
<1> QED
  BY <1>2, <1>3

LEMMA DropPreserves ==
  ASSUME IInv, NEW v \in Registered, Drop(v)
  PROVE  IInv'
<1>1. /\ v \in VarId
      /\ Registered \subseteq VarId
      /\ own \in [VarId -> OwnershipInfo]
  BY MaxVarsAssumption DEF IInv, TypeOK, VarId, Registered
<1>2. CASE /\ ~IsBorrowed(v)
           /\ own[v].state = "owned"
           /\ own' = [own EXCEPT ![v].state = "dropped"]
           /\ freed' = freed \cup {own[v].owner_id}
           /\ UNCHANGED <<var_count, active_borrows, failed>>
  <2>1. Registered' = Registered
    BY <1>2 DEF Registered
  <2>2. /\ own' \in [VarId -> OwnershipInfo]
        /\ own[v].owner_id \in Value
    BY <1>1, <1>2 DEF OwnershipInfo, OwnershipState
  <2>3. \A x \in VarId :
           /\ own'[x].borrow_count = own[x].borrow_count
           /\ own'[x].is_mut_borrowed = own[x].is_mut_borrowed
           /\ own'[x].owner_id = own[x].owner_id
           /\ own'[x].state = IF x = v THEN "dropped" ELSE own[x].state
    BY <1>1, <1>2 DEF OwnershipInfo
  <2>4. TypeOK'
    BY <1>2, <2>2 DEF IInv, TypeOK
  <2>5. RegionsRegistered' /\ UnregisteredFresh' /\ OwnersRegistered'
    <3>1. \A x \in VarId \ Registered : own'[x] = own[x]
      BY <1>1, <1>2
    <3>2. UnregisteredFresh'
      BY <2>1, <3>1 DEF IInv, UnregisteredFresh, FreshInfo
    <3> QED
      BY <1>1, <1>2, <2>1, <2>3, <3>2
         DEF IInv, RegionsRegistered, OwnersRegistered
  <2>6. CountsMatchRegions'
    BY <1>2, <2>3, CountsAsPositions DEF IInv
  <2>7. ExclusiveBorrow'
    BY <1>2 DEF IInv, ExclusiveBorrow
  <2>8. BorrowedIsOwned'
    <3>1. \A i \in DOMAIN active_borrows :
             /\ active_borrows[i].var \in VarId \ {v}
             /\ own[active_borrows[i].var].state = "owned"
      BY <1>1, <1>2, BorrowedIffRegions DEF IInv, RegionsRegistered, BorrowedIsOwned
    <3> QED
      BY <1>2, <2>3, <3>1 DEF BorrowedIsOwned
  <2>9. UniqueOwner'
    BY <1>1, <1>2, <2>1, <2>3 DEF IInv, UniqueOwner
  <2> QED
    BY <2>4, <2>5, <2>6, <2>7, <2>8, <2>9 DEF IInv
<1>3. CASE UNCHANGED vars
  BY <1>3, TablesUnchangedPreserves DEF vars, IInv, TypeOK
<1>4. CASE AddError
  BY <1>4, TablesUnchangedPreserves DEF AddError, IInv, TypeOK
<1> QED
  BY <1>2, <1>3, <1>4 DEF Drop

(* Ending a region: the list loses it and the record is adjusted by its    *)
(* kind.  Were the region exclusive, it was v's only one (ExclusiveBorrow);*)
(* were it shared, the counter was positive (CountsMatchRegions), so the   *)
(* test "borrow_count > 0" of the code never fails.                        *)
LEMMA UnborrowPreserves ==
  ASSUME IInv, NEW v \in Registered, Unborrow(v)
  PROVE  IInv'
<1>1. /\ v \in VarId
      /\ Registered \subseteq VarId
      /\ own \in [VarId -> OwnershipInfo]
      /\ own[v] \in OwnershipInfo
      /\ active_borrows \in Seq(BorrowRegion)
      /\ Len(active_borrows) \in Nat
      /\ DOMAIN active_borrows = 1 .. Len(active_borrows)
  BY MaxVarsAssumption, LenProperties DEF IInv, TypeOK, VarId, Registered
<1>2. PICK i \in DOMAIN active_borrows :
         /\ active_borrows[i].var = v
         /\ active_borrows' = Unlink(i)
         /\ own' = IF active_borrows[i].type = "borrowed"
                     THEN [own EXCEPT ![v].borrow_count = IF @ > 0 THEN @ - 1 ELSE @]
                     ELSE [own EXCEPT ![v].is_mut_borrowed = FALSE]
         /\ UNCHANGED <<var_count, failed, freed>>
  BY DEF Unborrow, IsFirstRegionOf, RegionsOf
<1> DEFINE shared == active_borrows[i].type = "borrowed"
<1>3. /\ active_borrows' = UnlinkFrom(active_borrows, i)
      /\ own' = IF shared
                  THEN [own EXCEPT ![v].borrow_count = IF @ > 0 THEN @ - 1 ELSE @]
                  ELSE [own EXCEPT ![v].is_mut_borrowed = FALSE]
      /\ UNCHANGED <<var_count, failed, freed>>
      /\ Registered' = Registered
  BY <1>2 DEF Unlink, UnlinkFrom, Registered
<1>4. /\ active_borrows' \in Seq(BorrowRegion)
      /\ DOMAIN active_borrows' = 1 .. Len(active_borrows) - 1
  <2>1. /\ UnlinkFrom(active_borrows, i) \in Seq(BorrowRegion)
        /\ DOMAIN UnlinkFrom(active_borrows, i) = 1 .. Len(active_borrows) - 1
    BY <1>1, UnlinkCounts
  <2> QED
    BY <1>3, <2>1
<1>5. \A w, t : Cardinality(PositionsIn(active_borrows', w, t)) =
                  Cardinality(PositionsIn(active_borrows, w, t))
                    - IF v = w /\ active_borrows[i].type = t THEN 1 ELSE 0
  BY <1>1, <1>2, <1>3, UnlinkCounts
<1>6. active_borrows[i].type \in BorrowType
  <2>1. active_borrows[i] \in BorrowRegion
    BY <1>1, <1>2, ElementOfSeq
  <2> QED
    BY <2>1 DEF BorrowRegion
<1>7. shared => own[v].borrow_count > 0
  <2>1. shared => PositionsIn(active_borrows, v, "borrowed") # {}
    BY <1>2 DEF PositionsIn
  <2>2. shared => own[v].borrow_count # 0
    BY <1>1, <2>1, BorrowedIffRegions
  <2> QED
    BY <1>1, <2>2 DEF OwnershipInfo
<1>8. /\ own' \in [VarId -> OwnershipInfo]
      /\ \A x \in VarId \ {v} : own'[x] = own[x]
      /\ own'[v].borrow_count = own[v].borrow_count - (IF shared THEN 1 ELSE 0)
      /\ own'[v].state = own[v].state
      /\ own'[v].owner_id = own[v].owner_id
  <2>1. CASE shared
    <3>1. own' = [own EXCEPT ![v] = [own[v] EXCEPT !.borrow_count = @ - 1]]
      BY <1>1, <1>3, <1>7, <2>1
    <3>2. own[v].borrow_count - 1 \in Nat
      BY <1>1, <1>7, <2>1 DEF OwnershipInfo
    <3>3. [own[v] EXCEPT !.borrow_count = @ - 1] \in OwnershipInfo
      BY <1>1, <3>2 DEF OwnershipInfo
    <3>4. own' \in [VarId -> OwnershipInfo]
      BY <1>1, <3>1, <3>3
    <3>5. own'[v] = [own[v] EXCEPT !.borrow_count = @ - 1]
      BY <1>1, <3>1
    <3> QED
      BY <1>1, <2>1, <3>1, <3>4, <3>5 DEF OwnershipInfo
  <2>2. CASE ~shared
    <3>1. own' = [own EXCEPT ![v] = [own[v] EXCEPT !.is_mut_borrowed = FALSE]]
      BY <1>1, <1>3, <2>2
    <3>2. [own[v] EXCEPT !.is_mut_borrowed = FALSE] \in OwnershipInfo
      BY <1>1 DEF OwnershipInfo
    <3>3. own' \in [VarId -> OwnershipInfo]
      BY <1>1, <3>1, <3>2
    <3>4. own'[v] = [own[v] EXCEPT !.is_mut_borrowed = FALSE]
      BY <1>1, <3>1
    <3> QED
      BY <1>1, <2>2, <3>1, <3>3, <3>4 DEF OwnershipInfo
  <2> QED
    BY <2>1, <2>2
<1>9. own'[v].is_mut_borrowed <=> (shared /\ own[v].is_mut_borrowed)
  <2>1. CASE shared
    BY <1>1, <1>3, <2>1 DEF OwnershipInfo
  <2>2. CASE ~shared
    BY <1>1, <1>3, <2>2 DEF OwnershipInfo
  <2> QED
    BY <2>1, <2>2
<1>10. ASSUME NEW j \in DOMAIN active_borrows'
       PROVE  \E k \in DOMAIN active_borrows :
                /\ k = IF j < i THEN j ELSE j + 1
                /\ k # i
                /\ active_borrows'[j] = active_borrows[k]
  BY <1>1, <1>2, <1>3, <1>4 DEF UnlinkFrom
<1>11. TypeOK'
  BY <1>3, <1>4, <1>8 DEF IInv, TypeOK
<1>12. RegionsRegistered' /\ UnregisteredFresh' /\ OwnersRegistered'
  <2>1. RegionsRegistered'
    BY <1>3, <1>10 DEF IInv, RegionsRegistered
  <2>2. UnregisteredFresh'
    BY <1>3, <1>8 DEF IInv, UnregisteredFresh, FreshInfo
  <2>3. OwnersRegistered'
    BY <1>1, <1>3, <1>8 DEF IInv, OwnersRegistered
  <2> QED
    BY <2>1, <2>2, <2>3
<1>13. ExclusiveBorrow'
  <2>1. ASSUME NEW j \in DOMAIN active_borrows', NEW k \in DOMAIN active_borrows',
               j # k, active_borrows'[j].var = active_borrows'[k].var
        PROVE  active_borrows'[j].type = "borrowed" /\ active_borrows'[k].type = "borrowed"
    <3>1. PICK a \in DOMAIN active_borrows :
             /\ a = IF j < i THEN j ELSE j + 1
             /\ active_borrows'[j] = active_borrows[a]
      BY <1>10
    <3>2. PICK b \in DOMAIN active_borrows :
             /\ b = IF k < i THEN k ELSE k + 1
             /\ active_borrows'[k] = active_borrows[b]
      BY <1>10
    <3>3. a # b
      BY <1>1, <1>2, <1>4, <2>1, <3>1, <3>2
    <3> QED
      BY <2>1, <3>1, <3>2, <3>3 DEF IInv, ExclusiveBorrow
  <2> QED
    BY <2>1 DEF ExclusiveBorrow
<1>14. BorrowedIsOwned'
  <2>1. ASSUME NEW j \in DOMAIN active_borrows'
        PROVE  own'[active_borrows'[j].var].state = "owned"
    <3>1. PICK k \in DOMAIN active_borrows : active_borrows'[j] = active_borrows[k]
      BY <1>10
    <3>2. /\ active_borrows[k].var \in VarId
          /\ own[active_borrows[k].var].state = "owned"
      BY <1>1 DEF IInv, RegionsRegistered, BorrowedIsOwned
    <3> QED
      BY <1>8, <3>1, <3>2
  <2> QED
    BY <2>1 DEF BorrowedIsOwned
<1>15. UniqueOwner'
  <2>1. \A x \in Registered : /\ own'[x].state = own[x].state
                              /\ own'[x].owner_id = own[x].owner_id
    BY <1>1, <1>8
  <2> QED
    BY <1>3, <2>1 DEF IInv, UniqueOwner
<1>16. CountsMatchRegions'
  <2>1. ASSUME NEW w \in VarId
        PROVE  own'[w].borrow_count = Cardinality(PositionsIn(active_borrows', w, "borrowed"))
    <3>1. own[w].borrow_count = Cardinality(PositionsIn(active_borrows, w, "borrowed"))
      BY CountsAsPositions DEF IInv
    <3>2. Cardinality(PositionsIn(active_borrows, w, "borrowed")) \in Nat
      BY <1>1, PositionsFinite
    <3> QED
      BY <1>5, <1>8, <3>1, <3>2
  <2>2. ASSUME NEW w \in VarId
        PROVE  own'[w].is_mut_borrowed <=> PositionsIn(active_borrows', w, "borrowed_mut") # {}
    <3>1. own[w].is_mut_borrowed <=> PositionsIn(active_borrows, w, "borrowed_mut") # {}
      BY CountsAsPositions DEF IInv
    <3>2. /\ IsFiniteSet(PositionsIn(active_borrows, w, "borrowed_mut"))
          /\ Cardinality(PositionsIn(active_borrows, w, "borrowed_mut")) \in Nat
          /\ IsFiniteSet(PositionsIn(active_borrows', w, "borrowed_mut"))
      BY <1>1, <1>4, PositionsFinite
    <3>3. CASE w # v \/ shared
      <4>1. Cardinality(PositionsIn(active_borrows', w, "borrowed_mut")) =
              Cardinality(PositionsIn(active_borrows, w, "borrowed_mut"))
        BY <1>5, <3>2, <3>3
      <4>2. own'[w].is_mut_borrowed <=> own[w].is_mut_borrowed
        BY <1>8, <1>9, <3>3
      <4> QED
        BY <3>1, <3>2, <4>1, <4>2, FS_EmptySet
    <3>4. CASE w = v /\ ~shared
      <4>1. ASSUME NEW j \in PositionsIn(active_borrows', v, "borrowed_mut")
            PROVE  FALSE
        <5>1. PICK k \in DOMAIN active_borrows :
                 k # i /\ active_borrows'[j] = active_borrows[k]
          BY <1>10 DEF PositionsIn
        <5>2. active_borrows[k].var = v
          BY <5>1 DEF PositionsIn
        <5>3. active_borrows[i].type = "borrowed"
          BY <1>2, <5>1, <5>2 DEF IInv, ExclusiveBorrow
        <5> QED
          BY <3>4, <5>3
      <4> QED
        BY <1>9, <3>4, <4>1
    <3> QED
      BY <3>3, <3>4
  <2> QED
    BY <2>1, <2>2, CountsAsPositions
<1> QED
  BY <1>11, <1>12, <1>13, <1>14, <1>15, <1>16 DEF IInv

-----------------------------------------------------------------------------
(* The theorems.                                                           *)

LEMMA NextPreserves == IInv /\ [Next]_vars => IInv'
<1> SUFFICES ASSUME IInv, [Next]_vars PROVE IInv'
  OBVIOUS
<1>1. CASE AddVar
  BY <1>1, AddVarPreserves
<1>2. ASSUME NEW v \in Registered, Borrow(v) PROVE IInv'
  BY <1>2, BorrowPreserves
<1>3. ASSUME NEW v \in Registered, BorrowMut(v) PROVE IInv'
  BY <1>3, BorrowMutPreserves
<1>4. ASSUME NEW v \in Registered, Drop(v) PROVE IInv'
  BY <1>4, DropPreserves
<1>5. ASSUME NEW v \in Registered, Unborrow(v) PROVE IInv'
  BY <1>5, UnborrowPreserves
<1>6. ASSUME NEW v \in Registered, NEW w \in Registered, Move(v, w) PROVE IInv'
  BY <1>6, MovePreserves
<1>7. CASE UNCHANGED vars
  BY <1>7, TablesUnchangedPreserves DEF vars, IInv, TypeOK
<1> QED
  BY <1>1, <1>2, <1>3, <1>4, <1>5, <1>6, <1>7 DEF Next

(* IInv is inductive, hence an invariant.                                  *)
THEOREM Inductive == Spec => []IInv
<1>1. Init => IInv
  BY InitEstablishes
<1>2. IInv /\ [Next]_vars => IInv'
  BY NextPreserves
<1> QED
  BY <1>1, <1>2, PTL DEF Spec

(* The tables are well formed: in particular no counter goes below zero.   *)
THEOREM TypeCorrect == Spec => []TypeOK
<1>1. IInv => TypeOK
  BY DEF IInv
<1> QED
  BY <1>1, Inductive, PTL

(* Rule 2 of ownership.h:14-17, one exclusive or many shared borrows: an   *)
(* active exclusive region is the only region of its variable.             *)
THEOREM OneExclusiveOrManyShared == Spec => []ExclusiveBorrow
<1>1. IInv => ExclusiveBorrow
  BY DEF IInv
<1> QED
  BY <1>1, Inductive, PTL

(* The counters that the guards read and the list that unborrow walks are  *)
(* the same information: neither ever has a borrow the other has not.      *)
THEOREM CountersAgree == Spec => []CountsMatchRegions
<1>1. IInv => CountsMatchRegions
  BY DEF IInv
<1> QED
  BY <1>1, Inductive, PTL

(* No reference outlives its value: a variable with an active region has   *)
(* been neither moved nor dropped.                                         *)
THEOREM NoDanglingBorrow == Spec => []BorrowedIsOwned
<1>1. IInv => BorrowedIsOwned
  BY DEF IInv
<1> QED
  BY <1>1, Inductive, PTL

(* Rule 1 of ownership.h:9-12: a value has one owner, whatever was moved,  *)
(* dropped and assigned anew.                                              *)
THEOREM OneOwner == Spec => []UniqueOwner
<1>1. IInv => UniqueOwner
  BY DEF IInv
<1> QED
  BY <1>1, Inductive, PTL

(* The chain of moves has no cycle.  A set of moved-out variables closed   *)
(* under moved_to after a move would contain neither its source (whose     *)
(* target is owned) nor its target, so it was closed before the move.      *)
THEOREM MovedChains == Spec => []MovedChainEnds
<1>1. Init => MovedChainEnds
  <2>1. Init => Registered = {}
    BY DEF Init, Registered
  <2> QED
    BY <2>1 DEF MovedChainEnds
<1>2. IInv /\ MovedChainEnds /\ [Next]_vars => MovedChainEnds'
  <2> SUFFICES ASSUME IInv, MovedChainEnds, [Next]_vars,
                      NEW S \in SUBSET Registered', S # {}
               PROVE  \E v \in S : own'[v].state # "moved" \/ own'[v].moved_to \notin S
    BY DEF MovedChainEnds
  <2>1. /\ Registered \subseteq VarId
        /\ own \in [VarId -> OwnershipInfo]
    BY MaxVarsAssumption DEF IInv, TypeOK, VarId, Registered
  <2>2. CASE AddVar
    <3>1. /\ var_count \in VarId \ Registered
          /\ Registered' = Registered \cup {var_count}
      BY <2>2, MaxVarsAssumption DEF IInv, AddVar, TypeOK, VarId, Registered
    <3>2. own' = [own EXCEPT ![var_count] = FreshInfo(var_count)]
      BY <2>2 DEF AddVar
    <3>3. own'[var_count].state = "owned" /\ \A v \in Registered : own'[v] = own[v]
      BY <2>1, <3>1, <3>2, FreshInfoType
    <3>4. CASE var_count \in S
      BY <3>3, <3>4
    <3>5. CASE var_count \notin S
      BY <3>1, <3>3, <3>5 DEF MovedChainEnds
    <3> QED
      BY <3>4, <3>5
  <2>3. CASE /\ Registered' = Registered
             /\ \A x \in Registered :
                   /\ own'[x].moved_to = own[x].moved_to
                   /\ own'[x].state = "moved" => own[x].state = "moved"
    <3>1. S \in SUBSET Registered
      BY <2>3
    <3>2. PICK x \in S : own[x].state # "moved" \/ own[x].moved_to \notin S
      BY <3>1 DEF MovedChainEnds
    <3>3. /\ own'[x].moved_to = own[x].moved_to
          /\ own'[x].state = "moved" => own[x].state = "moved"
      BY <2>3, <3>1
    <3> QED
      BY <3>2, <3>3
  <2>4. ASSUME NEW v \in Registered, Borrow(v) \/ BorrowMut(v) \/ Drop(v) \/ Unborrow(v)
        PROVE  /\ Registered' = Registered
               /\ \A x \in Registered :
                     /\ own'[x].moved_to = own[x].moved_to
                     /\ own'[x].state = "moved" => own[x].state = "moved"
    <3>1. CASE Borrow(v)
      BY <2>1, <3>1 DEF Borrow, AddError, Registered, OwnershipInfo
    <3>2. CASE BorrowMut(v)
      BY <2>1, <3>2 DEF BorrowMut, AddError, Registered, OwnershipInfo
    <3>3. CASE Drop(v)
      BY <2>1, <3>3 DEF Drop, AddError, Registered, OwnershipInfo, vars
    <3>4. CASE Unborrow(v)
      BY <2>1, <3>4 DEF Unborrow, Registered, OwnershipInfo
    <3> QED
      BY <2>4, <3>1, <3>2, <3>3, <3>4
  <2>5. ASSUME NEW v \in Registered, NEW w \in Registered, Move(v, w)
        PROVE  \E x \in S : own'[x].state # "moved" \/ own'[x].moved_to \notin S
    <3>1. Registered' = Registered
      BY <2>5 DEF Move, AddError, Registered
    <3>2. CASE CanMove(v)
      <4>1. own' = MovedIn(MovedOut(v, w), v, w)
        BY <2>5, <3>2 DEF Move
      <4>2. /\ own'[w].state = "owned"
            /\ v # w => own'[v].moved_to = w
            /\ \A x \in Registered \ {v, w} : own'[x] = own[x]
        BY <2>1, <4>1 DEF MovedIn, MovedOut, OwnershipInfo
      <4>3. CASE w \in S
        BY <4>2, <4>3
      <4>4. CASE w \notin S
        BY <3>1, <4>2, <4>4 DEF MovedChainEnds
      <4> QED
        BY <4>3, <4>4
    <3>3. CASE ~CanMove(v)
      BY <2>5, <3>1, <3>3 DEF Move, AddError, MovedChainEnds
    <3> QED
      BY <3>2, <3>3
  <2>6. CASE UNCHANGED vars
    BY <2>6 DEF vars, MovedChainEnds, Registered
  <2> QED
    BY <2>2, <2>3, <2>4, <2>5, <2>6 DEF Next
<1> QED
  BY <1>1, <1>2, Inductive, PTL DEF Spec

(* A borrowed variable keeps its state: no step moves or drops it.         *)
THEOREM BorrowPins == Spec => BorrowPinsState
<1>1. IInv /\ [Next]_vars =>
        \A i \in DOMAIN active_borrows :
           LET v == active_borrows[i].var IN own'[v].state = own[v].state
  <2> SUFFICES ASSUME IInv, [Next]_vars, NEW i \in DOMAIN active_borrows
               PROVE  own'[active_borrows[i].var].state = own[active_borrows[i].var].state
    OBVIOUS
  <2> DEFINE b == active_borrows[i].var
  <2>1. /\ b \in Registered
        /\ Registered \subseteq VarId
        /\ own \in [VarId -> OwnershipInfo]
        /\ own[b].state = "owned"
    BY MaxVarsAssumption
       DEF IInv, TypeOK, VarId, Registered, RegionsRegistered, BorrowedIsOwned
  <2>2. IsBorrowed(b)
    BY <2>1, BorrowedIffRegions
  <2> HIDE DEF b
  <2>3. CASE AddVar
    <3>1. var_count \in VarId \ Registered
      BY <2>3, MaxVarsAssumption DEF IInv, AddVar, TypeOK, VarId, Registered
    <3>2. own' = [own EXCEPT ![var_count] = FreshInfo(var_count)]
      BY <2>3 DEF AddVar
    <3>3. b # var_count /\ b \in VarId
      BY <2>1, <3>1
    <3>4. own'[b] = own[b]
      BY <2>1, <3>1, <3>2, <3>3
    <3> QED
      BY <3>4 DEF b
  <2>4. ASSUME NEW v \in Registered, Borrow(v) \/ BorrowMut(v) \/ Drop(v) \/ Unborrow(v)
        PROVE  own'[b].state = own[b].state
    <3>1. CASE Borrow(v)
      BY <2>1, <3>1 DEF Borrow, AddError, OwnershipInfo
    <3>2. CASE BorrowMut(v)
      BY <2>1, <3>2 DEF BorrowMut, AddError, OwnershipInfo
    <3>3. CASE Drop(v)
      BY <2>1, <2>2, <3>3 DEF Drop, AddError, OwnershipInfo, vars
    <3>4. CASE Unborrow(v)
      BY <2>1, <3>4 DEF Unborrow, OwnershipInfo
    <3> QED
      BY <2>4, <3>1, <3>2, <3>3, <3>4
  <2>5. ASSUME NEW v \in Registered, NEW w \in Registered, Move(v, w)
        PROVE  own'[b].state = own[b].state
    <3>1. CASE CanMove(v)
      <4>1. v # b
        BY <2>2, <3>1 DEF CanMove
      <4>2. own' = MovedIn(MovedOut(v, w), v, w)
        BY <2>5, <3>1 DEF Move
      <4> QED
        BY <2>1, <4>1, <4>2 DEF MovedIn, MovedOut, OwnershipInfo
    <3>2. CASE ~CanMove(v)
      BY <2>5, <3>2 DEF Move, AddError
    <3> QED
      BY <3>1, <3>2
  <2>6. CASE UNCHANGED vars
    BY <2>6 DEF vars
  <2> QED
    BY <2>3, <2>4, <2>5, <2>6 DEF Next, b
<1> QED
  BY <1>1, Inductive, PTL DEF Spec, BorrowPinsState

-----------------------------------------------------------------------------
(* The refinement.                                                         *)

(* By the invariant the abstract locks, read off the list, are what the    *)
(* records say; the first two fields are the counters of the variable.     *)
LEMMA AbstractLocks ==
  ASSUME IInv, NEW v \in VarId
  PROVE  /\ SharedVars[v] = own[v].borrow_count
         /\ ExclVars[v] = own[v].is_mut_borrowed
         /\ Owned(v) => HoldsVars[v] = own[v].owner_id
         /\ ~Owned(v) => HoldsVars[v] = NoValue
<1>1. own[v] \in OwnershipInfo
  BY DEF IInv, TypeOK
<1>2. own[v].is_mut_borrowed \in BOOLEAN
  BY <1>1 DEF OwnershipInfo
<1>3. SharedRegions(v) = own[v].borrow_count
  BY DEF IInv, CountsMatchRegions, SharedRegions
<1>4. ExclRegion(v) = own[v].is_mut_borrowed
  BY <1>2 DEF IInv, CountsMatchRegions, ExclRegion
<1> QED
  BY <1>3, <1>4 DEF SharedVars, ExclVars, HoldsVars

LEMMA AbstractLocksPrimed ==
  ASSUME IInv', NEW v \in VarId
  PROVE  /\ SharedVars'[v] = own'[v].borrow_count
         /\ ExclVars'[v] = own'[v].is_mut_borrowed
         /\ Owned(v)' => HoldsVars'[v] = own'[v].owner_id
         /\ ~Owned(v)' => HoldsVars'[v] = NoValue
<1>1. own'[v] \in OwnershipInfo
  BY DEF IInv, TypeOK
<1>2. own'[v].is_mut_borrowed \in BOOLEAN
  BY <1>1 DEF OwnershipInfo
<1>3. SharedRegions(v)' = own'[v].borrow_count
  BY DEF IInv, CountsMatchRegions, SharedRegions
<1>4. ExclRegion(v)' = own'[v].is_mut_borrowed
  BY <1>2 DEF IInv, CountsMatchRegions, ExclRegion
<1> QED
  BY <1>3, <1>4 DEF SharedVars, ExclVars, HoldsVars

(* The abstract state as a whole, from its values.                         *)
LEMMA AbstractDomains ==
  /\ SharedVars = [v \in VarId |-> SharedVars[v]]
  /\ ExclVars = [v \in VarId |-> ExclVars[v]]
  /\ HoldsVars = [v \in VarId |-> HoldsVars[v]]
  /\ SharedVars' = [v \in VarId |-> SharedVars'[v]]
  /\ ExclVars' = [v \in VarId |-> ExclVars'[v]]
  /\ HoldsVars' = [v \in VarId |-> HoldsVars'[v]]
  BY DEF SharedVars, ExclVars, HoldsVars

(* A step that leaves a component of every record alone leaves its image   *)
(* alone.                                                                  *)
LEMMA SameCounts ==
  ASSUME IInv, IInv',
         \A x \in VarId : /\ own'[x].borrow_count = own[x].borrow_count
                          /\ own'[x].is_mut_borrowed = own[x].is_mut_borrowed
  PROVE  SharedVars' = SharedVars /\ ExclVars' = ExclVars
<1>1. \A x \in VarId : SharedVars'[x] = SharedVars[x] /\ ExclVars'[x] = ExclVars[x]
  BY AbstractLocks, AbstractLocksPrimed
<1> QED
  BY <1>1, AbstractDomains

LEMMA SameHolds ==
  ASSUME IInv, IInv',
         \A x \in VarId : /\ Owned(x)' <=> Owned(x)
                          /\ own'[x].owner_id = own[x].owner_id
  PROVE  HoldsVars' = HoldsVars
<1>1. \A x \in VarId : HoldsVars'[x] = HoldsVars[x]
  BY AbstractLocks, AbstractLocksPrimed
<1> QED
  BY <1>1, AbstractDomains

(* What is owned is a value, and a variable that holds nothing is free.    *)
LEMMA BorrowedIsLive ==
  ASSUME IInv, NEW v \in VarId
  PROVE  /\ own[v].owner_id \in VarId /\ own[v].owner_id # NoValue
         /\ ~IsBorrowed(v) => Discipline!Free(v)
         /\ Owned(v) <=> Discipline!Holds(v)
         /\ ~Owned(v) => Discipline!Free(v)
<1>1. own[v] \in OwnershipInfo
  BY DEF IInv, TypeOK
<1>2. own[v].owner_id \in VarId /\ own[v].owner_id # NoValue
  BY <1>1, MaxVarsAssumption DEF OwnershipInfo, Value, VarId, NoValue
<1>3. ~IsBorrowed(v) => own[v].borrow_count = 0 /\ ~own[v].is_mut_borrowed
  BY <1>1 DEF IsBorrowed, OwnershipInfo
<1>4. ~IsBorrowed(v) => Discipline!Free(v)
  BY <1>3, AbstractLocks DEF Discipline!Free
<1>5. Owned(v) <=> Discipline!Holds(v)
  BY <1>2, AbstractLocks DEF Discipline!Holds
<1>6. CASE \E i \in DOMAIN active_borrows : active_borrows[i].var = v
  BY <1>2, <1>4, <1>5, <1>6 DEF IInv, BorrowedIsOwned, RegionsRegistered, Owned
<1>7. CASE ~ \E i \in DOMAIN active_borrows : active_borrows[i].var = v
  BY <1>2, <1>4, <1>5, <1>7, BorrowedIffRegions
<1> QED
  BY <1>6, <1>7

(* A value that no other variable holds, given to a variable whose lock is *)
(* free, is an assignment, unless the variable holds it already.           *)
LEMMA ValueGained ==
  ASSUME IInv, IInv', NEW v \in VarId, NEW val \in VarId,
         HoldsVars' = [HoldsVars EXCEPT ![v] = val],
         SharedVars' = SharedVars, ExclVars' = ExclVars,
         Discipline!Free(v),
         \A x \in VarId : x # v => HoldsVars[x] # val
  PROVE  [Discipline!Next]_(Discipline!vars)
<1>1. CASE HoldsVars[v] = val
  <2>1. HoldsVars' = HoldsVars
    BY <1>1, AbstractDomains
  <2> QED
    BY <2>1 DEF Discipline!vars
<1>2. CASE HoldsVars[v] # val
  <2>1. Discipline!Unheld(val)
    BY <1>2 DEF Discipline!Unheld
  <2>2. Discipline!Assign(v, val)
    BY <2>1 DEF Discipline!Assign
  <2> QED
    BY <2>2 DEF Discipline!Next, Value
<1> QED
  BY <1>1, <1>2

LEMMA AddVarRefines ==
  ASSUME IInv, IInv', AddVar
  PROVE  [Discipline!Next]_(Discipline!vars)
<1>1. /\ var_count \in VarId \ Registered
      /\ Registered' = Registered \cup {var_count}
      /\ own[var_count] = FreshInfo(var_count)
      /\ own \in [VarId -> OwnershipInfo]
  BY MaxVarsAssumption
     DEF IInv, AddVar, TypeOK, VarId, Registered, UnregisteredFresh
<1>2. own' = own
  <2>1. own' = [own EXCEPT ![var_count] = FreshInfo(var_count)]
    BY DEF AddVar
  <2> QED
    BY <1>1, <2>1
<1>3. SharedVars' = SharedVars /\ ExclVars' = ExclVars
  BY <1>2, SameCounts
<1>4. own[var_count].state = "owned" /\ own[var_count].owner_id = var_count
  BY <1>1, FreshInfoType DEF FreshInfo
<1>5. \A x \in VarId : HoldsVars'[x] = IF x = var_count THEN var_count ELSE HoldsVars[x]
  <2> SUFFICES ASSUME NEW x \in VarId
               PROVE  HoldsVars'[x] = IF x = var_count THEN var_count ELSE HoldsVars[x]
    OBVIOUS
  <2>1. CASE x = var_count
    <3>1. Owned(x)'
      BY <1>1, <1>2, <1>4, <2>1 DEF Owned
    <3> QED
      BY <1>2, <1>4, <2>1, <3>1, AbstractLocksPrimed
  <2>2. CASE x # var_count
    <3>1. Owned(x)' <=> Owned(x)
      BY <1>1, <1>2, <2>2 DEF Owned
    <3> QED
      BY <1>2, <2>2, <3>1, AbstractLocks, AbstractLocksPrimed
  <2> QED
    BY <2>1, <2>2
<1>6. HoldsVars' = [HoldsVars EXCEPT ![var_count] = var_count]
  BY <1>1, <1>5, AbstractDomains
<1>7. Discipline!Free(var_count)
  BY <1>1, BorrowedIsLive DEF Owned
<1>8. ASSUME NEW x \in VarId, x # var_count
      PROVE  HoldsVars[x] # var_count
  <2>1. CASE Owned(x)
    BY <1>1, <2>1, AbstractLocks DEF Owned, IInv, OwnersRegistered
  <2>2. CASE ~Owned(x)
    BY <1>1, <2>2, AbstractLocks, MaxVarsAssumption DEF NoValue, VarId
  <2> QED
    BY <2>1, <2>2
<1> QED
  BY <1>1, <1>3, <1>6, <1>7, <1>8, ValueGained

LEMMA BorrowRefines ==
  ASSUME IInv, IInv', NEW v \in Registered, Borrow(v)
  PROVE  [Discipline!Next]_(Discipline!vars)
<1>1. /\ v \in VarId
      /\ own \in [VarId -> OwnershipInfo]
      /\ own[v] \in OwnershipInfo
      /\ own[v].state \in OwnershipState
      /\ Registered' = Registered
  BY MaxVarsAssumption
     DEF IInv, TypeOK, VarId, Registered, OwnershipInfo, Borrow, AddError
<1>2. CASE CanBorrow(v)
  <2>1. /\ own' = [own EXCEPT ![v].borrow_count = @ + 1]
        /\ own[v].state = "owned"
        /\ ~own[v].is_mut_borrowed
    BY <1>1, <1>2 DEF Borrow, CanBorrow, Usable, OwnershipState
  <2>2. \A x \in VarId :
           /\ own'[x].borrow_count =
                IF x = v THEN own[v].borrow_count + 1 ELSE own[x].borrow_count
           /\ own'[x].is_mut_borrowed = own[x].is_mut_borrowed
           /\ own'[x].state = own[x].state
           /\ own'[x].owner_id = own[x].owner_id
    BY <1>1, <2>1 DEF OwnershipInfo
  <2>3. HoldsVars' = HoldsVars
    BY <1>1, <2>2, SameHolds DEF Owned
  <2>4. \A x \in VarId :
           /\ ExclVars'[x] = ExclVars[x]
           /\ SharedVars'[x] = IF x = v THEN SharedVars[v] + 1 ELSE SharedVars[x]
    BY <1>1, <2>2, AbstractLocks, AbstractLocksPrimed
  <2>5. /\ ExclVars' = ExclVars
        /\ SharedVars' = [SharedVars EXCEPT ![v] = @ + 1]
    BY <1>1, <2>4, AbstractDomains
  <2>6. Discipline!Holds(v) /\ ~ExclVars[v]
    BY <1>1, <2>1, AbstractLocks, BorrowedIsLive DEF Owned
  <2>7. Discipline!Share(v)
    BY <2>3, <2>5, <2>6 DEF Discipline!Share
  <2> QED
    BY <1>1, <2>7 DEF Discipline!Next
<1>3. CASE ~CanBorrow(v)
  BY <1>1, <1>3, SameHolds, SameCounts DEF Borrow, AddError, Owned, Discipline!vars
<1> QED
  BY <1>2, <1>3

LEMMA BorrowMutRefines ==
  ASSUME IInv, IInv', NEW v \in Registered, BorrowMut(v)
  PROVE  [Discipline!Next]_(Discipline!vars)
<1>1. /\ v \in VarId
      /\ own \in [VarId -> OwnershipInfo]
      /\ own[v] \in OwnershipInfo
      /\ own[v].state \in OwnershipState
      /\ Registered' = Registered
  BY MaxVarsAssumption
     DEF IInv, TypeOK, VarId, Registered, OwnershipInfo, BorrowMut, AddError
<1>2. CASE CanBorrowMut(v)
  <2>1. /\ own' = [own EXCEPT ![v].is_mut_borrowed = TRUE]
        /\ own[v].state = "owned"
        /\ ~own[v].is_mut_borrowed
        /\ own[v].borrow_count = 0
    BY <1>1, <1>2 DEF BorrowMut, CanBorrowMut, Usable, OwnershipState
  <2>2. \A x \in VarId :
           /\ own'[x].borrow_count = own[x].borrow_count
           /\ own'[x].is_mut_borrowed = IF x = v THEN TRUE ELSE own[x].is_mut_borrowed
           /\ own'[x].state = own[x].state
           /\ own'[x].owner_id = own[x].owner_id
    BY <1>1, <2>1 DEF OwnershipInfo
  <2>3. HoldsVars' = HoldsVars
    BY <1>1, <2>2, SameHolds DEF Owned
  <2>4. \A x \in VarId :
           /\ SharedVars'[x] = SharedVars[x]
           /\ ExclVars'[x] = IF x = v THEN TRUE ELSE ExclVars[x]
    <3> SUFFICES ASSUME NEW x \in VarId
                 PROVE  /\ SharedVars'[x] = SharedVars[x]
                        /\ ExclVars'[x] = IF x = v THEN TRUE ELSE ExclVars[x]
      OBVIOUS
    <3>1. SharedVars[x] = own[x].borrow_count /\ ExclVars[x] = own[x].is_mut_borrowed
      BY AbstractLocks
    <3>2. SharedVars'[x] = own'[x].borrow_count /\ ExclVars'[x] = own'[x].is_mut_borrowed
      BY AbstractLocksPrimed
    <3>3. own'[x].borrow_count = own[x].borrow_count
      BY <2>2
    <3>4. own'[x].is_mut_borrowed = IF x = v THEN TRUE ELSE own[x].is_mut_borrowed
      BY <2>2
    <3> QED
      BY <3>1, <3>2, <3>3, <3>4
  <2>5. /\ SharedVars' = SharedVars
        /\ ExclVars' = [ExclVars EXCEPT ![v] = TRUE]
    BY <1>1, <2>4, AbstractDomains
  <2>6. Discipline!Holds(v) /\ ~ExclVars[v] /\ SharedVars[v] = 0
    BY <1>1, <2>1, AbstractLocks, BorrowedIsLive DEF Owned
  <2>7. Discipline!Exclude(v)
    BY <2>3, <2>5, <2>6 DEF Discipline!Exclude, Discipline!Free
  <2> QED
    BY <1>1, <2>7 DEF Discipline!Next
<1>3. CASE ~CanBorrowMut(v)
  BY <1>1, <1>3, SameHolds, SameCounts DEF BorrowMut, AddError, Owned, Discipline!vars
<1> QED
  BY <1>2, <1>3

LEMMA DropRefines ==
  ASSUME IInv, IInv', NEW v \in Registered, Drop(v)
  PROVE  [Discipline!Next]_(Discipline!vars)
<1>1. /\ v \in VarId
      /\ own \in [VarId -> OwnershipInfo]
      /\ own[v] \in OwnershipInfo
      /\ Registered' = Registered
  BY MaxVarsAssumption DEF IInv, TypeOK, VarId, Registered, Drop, AddError, vars
<1>2. CASE ~IsBorrowed(v) /\ own[v].state = "owned" /\ own' = [own EXCEPT ![v].state = "dropped"]
  <2>1. \A x \in VarId :
           /\ own'[x].borrow_count = own[x].borrow_count
           /\ own'[x].is_mut_borrowed = own[x].is_mut_borrowed
           /\ own'[x].state = IF x = v THEN "dropped" ELSE own[x].state
           /\ own'[x].owner_id = own[x].owner_id
    BY <1>1, <1>2 DEF OwnershipInfo
  <2>2. SharedVars' = SharedVars /\ ExclVars' = ExclVars
    BY <2>1, SameCounts
  <2>3. \A x \in VarId : HoldsVars'[x] = IF x = v THEN NoValue ELSE HoldsVars[x]
    <3> SUFFICES ASSUME NEW x \in VarId
                 PROVE  HoldsVars'[x] = IF x = v THEN NoValue ELSE HoldsVars[x]
      OBVIOUS
    <3>1. CASE x = v
      <4>1. ~Owned(x)'
        BY <2>1, <3>1 DEF Owned
      <4> QED
        BY <3>1, <4>1, AbstractLocksPrimed
    <3>2. CASE x # v
      <4>1. Owned(x)' <=> Owned(x)
        BY <1>1, <2>1, <3>2 DEF Owned
      <4> QED
        BY <2>1, <3>2, <4>1, AbstractLocks, AbstractLocksPrimed
    <3> QED
      BY <3>1, <3>2
  <2>4. HoldsVars' = [HoldsVars EXCEPT ![v] = NoValue]
    BY <1>1, <2>3, AbstractDomains
  <2>5. Discipline!Holds(v) /\ Discipline!Free(v)
    BY <1>1, <1>2, BorrowedIsLive DEF Owned
  <2>6. Discipline!End(v)
    BY <2>2, <2>4, <2>5 DEF Discipline!End
  <2> QED
    BY <1>1, <2>6 DEF Discipline!Next
<1>3. CASE own' = own
  BY <1>1, <1>3, SameHolds, SameCounts DEF Owned, Discipline!vars
<1> QED
  BY <1>2, <1>3 DEF Drop, AddError, vars

LEMMA UnborrowRefines ==
  ASSUME IInv, IInv', NEW v \in Registered, Unborrow(v)
  PROVE  [Discipline!Next]_(Discipline!vars)
<1>1. /\ v \in VarId
      /\ own \in [VarId -> OwnershipInfo]
      /\ own[v] \in OwnershipInfo
      /\ Registered' = Registered
  <2>1. var_count' = var_count
    BY DEF Unborrow
  <2> QED
    BY <2>1, MaxVarsAssumption DEF IInv, TypeOK, VarId, Registered
<1>2. CASE /\ own[v].borrow_count > 0
           /\ own' = [own EXCEPT ![v].borrow_count = @ - 1]
  <2>1. \A x \in VarId :
           /\ own'[x].borrow_count =
                IF x = v THEN own[v].borrow_count - 1 ELSE own[x].borrow_count
           /\ own'[x].is_mut_borrowed = own[x].is_mut_borrowed
           /\ own'[x].state = own[x].state
           /\ own'[x].owner_id = own[x].owner_id
    BY <1>1, <1>2 DEF OwnershipInfo
  <2>2. HoldsVars' = HoldsVars
    BY <1>1, <2>1, SameHolds DEF Owned
  <2>3. \A x \in VarId :
           /\ ExclVars'[x] = ExclVars[x]
           /\ SharedVars'[x] = IF x = v THEN SharedVars[v] - 1 ELSE SharedVars[x]
    BY <1>1, <2>1, AbstractLocks, AbstractLocksPrimed
  <2>4. /\ ExclVars' = ExclVars
        /\ SharedVars' = [SharedVars EXCEPT ![v] = @ - 1]
    BY <1>1, <2>3, AbstractDomains
  <2>5. SharedVars[v] > 0
    BY <1>1, <1>2, AbstractLocks
  <2>6. Discipline!Unshare(v)
    BY <2>2, <2>4, <2>5 DEF Discipline!Unshare
  <2> QED
    BY <1>1, <2>6 DEF Discipline!Next
<1>3. CASE own' = [own EXCEPT ![v].is_mut_borrowed = FALSE]
  <2>1. \A x \in VarId :
           /\ own'[x].borrow_count = own[x].borrow_count
           /\ own'[x].is_mut_borrowed = IF x = v THEN FALSE ELSE own[x].is_mut_borrowed
           /\ own'[x].state = own[x].state
           /\ own'[x].owner_id = own[x].owner_id
    BY <1>1, <1>3 DEF OwnershipInfo
  <2>2. HoldsVars' = HoldsVars
    BY <1>1, <2>1, SameHolds DEF Owned
  <2>3. \A x \in VarId :
           /\ SharedVars'[x] = SharedVars[x]
           /\ ExclVars'[x] = IF x = v THEN FALSE ELSE ExclVars[x]
    <3> SUFFICES ASSUME NEW x \in VarId
                 PROVE  /\ SharedVars'[x] = SharedVars[x]
                        /\ ExclVars'[x] = IF x = v THEN FALSE ELSE ExclVars[x]
      OBVIOUS
    <3>1. SharedVars[x] = own[x].borrow_count /\ ExclVars[x] = own[x].is_mut_borrowed
      BY AbstractLocks
    <3>2. SharedVars'[x] = own'[x].borrow_count /\ ExclVars'[x] = own'[x].is_mut_borrowed
      BY AbstractLocksPrimed
    <3>3. own'[x].borrow_count = own[x].borrow_count
      BY <2>1
    <3>4. own'[x].is_mut_borrowed = IF x = v THEN FALSE ELSE own[x].is_mut_borrowed
      BY <2>1
    <3> QED
      BY <3>1, <3>2, <3>3, <3>4
  <2>4. /\ SharedVars' = SharedVars
        /\ ExclVars' = [ExclVars EXCEPT ![v] = FALSE]
    BY <1>1, <2>3, AbstractDomains
  <2>5. CASE ExclVars[v]
    BY <1>1, <2>2, <2>4, <2>5 DEF Discipline!Next, Discipline!Unexclude
  <2>6. CASE ~ExclVars[v]
    <3>1. ExclVars[v] = FALSE
      BY <1>1, <2>6, AbstractLocks DEF OwnershipInfo
    <3>2. ExclVars' = ExclVars
      BY <2>4, <3>1, AbstractDomains
    <3> QED
      BY <2>2, <2>4, <3>2 DEF Discipline!vars
  <2> QED
    BY <2>5, <2>6
<1>4. CASE own' = own
  BY <1>1, <1>4, SameHolds, SameCounts DEF Owned, Discipline!vars
<1>5. \/ /\ own[v].borrow_count > 0
         /\ own' = [own EXCEPT ![v].borrow_count = @ - 1]
      \/ own' = [own EXCEPT ![v].is_mut_borrowed = FALSE]
      \/ own' = own
  <2>1. \/ own' = [own EXCEPT ![v].borrow_count = IF @ > 0 THEN @ - 1 ELSE @]
        \/ own' = [own EXCEPT ![v].is_mut_borrowed = FALSE]
    BY DEF Unborrow
  <2>2. CASE own[v].borrow_count > 0
    BY <1>1, <2>1, <2>2
  <2>3. CASE ~(own[v].borrow_count > 0)
    BY <1>1, <2>1, <2>3 DEF OwnershipInfo
  <2> QED
    BY <2>2, <2>3
<1> QED
  BY <1>2, <1>3, <1>4, <1>5

LEMMA MoveRefines ==
  ASSUME IInv, IInv', NEW v \in Registered, NEW w \in Registered, Move(v, w)
  PROVE  [Discipline!Next \/ OverwritesBorrowed]_(Discipline!vars)
<1>1. /\ v \in VarId
      /\ w \in VarId
      /\ own \in [VarId -> OwnershipInfo]
      /\ own[v] \in OwnershipInfo
      /\ Registered' = Registered
  BY MaxVarsAssumption DEF IInv, TypeOK, VarId, Registered, Move, AddError
<1>2. CASE CanMove(v) /\ (v = w \/ ~IsBorrowed(w))
  <2>1. own' = MovedIn(MovedOut(v, w), v, w)
    BY <1>2 DEF Move
  <2>2. \A x \in VarId :
           /\ own'[x].borrow_count = own[x].borrow_count
           /\ own'[x].is_mut_borrowed = own[x].is_mut_borrowed
           /\ own'[x].state = IF x = w THEN "owned"
                                ELSE IF x = v THEN "moved" ELSE own[x].state
           /\ own'[x].owner_id = IF x = w THEN own[v].owner_id ELSE own[x].owner_id
    BY <1>1, <2>1 DEF MovedIn, MovedOut, OwnershipInfo
  <2>3. SharedVars' = SharedVars /\ ExclVars' = ExclVars
    BY <2>2, SameCounts
  <2>4. Discipline!Free(v) /\ Discipline!Free(w)
    BY <1>1, <1>2, BorrowedIsLive DEF CanMove
  <2>5. \A x \in VarId : HoldsVars'[x] = IF x = w THEN own[v].owner_id
                                         ELSE IF x = v THEN NoValue ELSE HoldsVars[x]
    <3> SUFFICES ASSUME NEW x \in VarId
                 PROVE  HoldsVars'[x] = IF x = w THEN own[v].owner_id
                                        ELSE IF x = v THEN NoValue ELSE HoldsVars[x]
      OBVIOUS
    <3>1. CASE x = w
      <4>1. Owned(x)' /\ own'[x].owner_id = own[v].owner_id
        BY <1>1, <2>2, <3>1 DEF Owned
      <4> QED
        BY <3>1, <4>1, AbstractLocksPrimed
    <3>2. CASE x # w /\ x = v
      <4>1. ~Owned(x)'
        BY <2>2, <3>2 DEF Owned
      <4> QED
        BY <3>2, <4>1, AbstractLocksPrimed
    <3>3. CASE x # w /\ x # v
      <4>1. (Owned(x)' <=> Owned(x)) /\ own'[x].owner_id = own[x].owner_id
        BY <1>1, <2>2, <3>3 DEF Owned
      <4> QED
        BY <3>3, <4>1, AbstractLocks, AbstractLocksPrimed
    <3> QED
      BY <3>1, <3>2, <3>3
  <2>6. CASE Owned(v)
    <3>1. Discipline!Holds(v) /\ HoldsVars[v] = own[v].owner_id
      BY <1>1, <2>6, BorrowedIsLive, AbstractLocks
    <3>2. HoldsVars' = [HoldsVars EXCEPT ![v] = NoValue, ![w] = HoldsVars[v]]
      BY <1>1, <2>5, <3>1, AbstractDomains
    <3>3. Discipline!Transfer(v, w)
      BY <2>3, <2>4, <3>1, <3>2 DEF Discipline!Transfer
    <3> QED
      BY <1>1, <3>3 DEF Discipline!Next
  <2>7. CASE ~Owned(v)
    <3> DEFINE val == own[v].owner_id
    <3>1. HoldsVars[v] = NoValue /\ val \in VarId /\ val # NoValue
      BY <1>1, <2>7, AbstractLocks, BorrowedIsLive
    <3> HIDE DEF val
    <3>2. \A x \in VarId : HoldsVars'[x] = IF x = w THEN val ELSE HoldsVars[x]
      BY <2>5, <3>1 DEF val
    <3>3. HoldsVars' = [HoldsVars EXCEPT ![w] = val]
      BY <1>1, <3>2, AbstractDomains
    <3>4. ASSUME NEW x \in VarId, x # w
          PROVE  HoldsVars[x] # val
      <4>1. CASE Owned(x)
        <5>1. x # v /\ x \in Registered /\ own[x].state = "owned" /\ own[v].state # "moved"
          BY <1>2, <2>7, <4>1 DEF Owned, CanMove
        <5>2. own[x].owner_id # own[v].owner_id
          BY <5>1 DEF IInv, UniqueOwner
        <5> QED
          BY <4>1, <5>2, AbstractLocks DEF val
      <4>2. CASE ~Owned(x)
        BY <3>1, <4>2, AbstractLocks
      <4> QED
        BY <4>1, <4>2
    <3>5. \A x \in VarId : x # w => HoldsVars[x] # val
      BY <3>4
    <3>6. [Discipline!Next]_(Discipline!vars)
      BY <1>1, <2>3, <2>4, <3>1, <3>3, <3>5, ValueGained
    <3> QED
      BY <3>6
  <2> QED
    BY <2>6, <2>7
<1>3. CASE CanMove(v) /\ v # w /\ IsBorrowed(w)
  BY <1>3 DEF OverwritesBorrowed
<1>4. CASE ~CanMove(v)
  BY <1>1, <1>4, SameHolds, SameCounts DEF Move, AddError, Owned, Discipline!vars
<1> QED
  BY <1>2, <1>3, <1>4

(* The borrow checker implements the readers-writer discipline on the      *)
(* values of its variables, whatever programs it is asked about, but for   *)
(* the moves into a borrowed variable.                                     *)
THEOREM Refinement == Spec => ImplementsDiscipline
<1>1. Init => Discipline!Init
  <2> SUFFICES ASSUME Init PROVE Discipline!Init
    OBVIOUS
  <2>1. IInv /\ Registered = {}
    BY InitEstablishes DEF Init, Registered
  <2>2. \A x \in VarId :
           SharedVars[x] = 0 /\ ExclVars[x] = FALSE /\ HoldsVars[x] = NoValue
    BY <2>1, AbstractLocks DEF Init, FreshInfo, Owned
  <2>3. /\ SharedVars = [x \in VarId |-> 0]
        /\ ExclVars = [x \in VarId |-> FALSE]
        /\ HoldsVars = [x \in VarId |-> NoValue]
    BY <2>2, AbstractDomains
  <2> QED
    BY <2>3 DEF Discipline!Init
<1>2. IInv /\ IInv' /\ [Next]_vars =>
        [Discipline!Next \/ OverwritesBorrowed]_(Discipline!vars)
  <2> SUFFICES ASSUME IInv, IInv', [Next]_vars
               PROVE  [Discipline!Next \/ OverwritesBorrowed]_(Discipline!vars)
    OBVIOUS
  <2>1. CASE UNCHANGED vars
    BY <2>1, SameHolds, SameCounts DEF vars, Registered, Owned, Discipline!vars
  <2>2. CASE AddVar \/ \E v \in Registered : Borrow(v) \/ BorrowMut(v) \/ Drop(v) \/ Unborrow(v)
    BY <2>2, AddVarRefines, BorrowRefines, BorrowMutRefines, DropRefines, UnborrowRefines
  <2>3. CASE \E v, w \in Registered : Move(v, w)
    BY <2>3, MoveRefines
  <2> QED
    BY <2>1, <2>2, <2>3 DEF Next
<1> QED
  BY <1>1, <1>2, Inductive, PTL DEF Spec, ImplementsDiscipline

(***************************************************************************)
(* The environment of agents.  The contexts are owned as variables are:    *)
(* every one that is allocated is that of one agent or of one who asked    *)
(* for it, however they are copied, handed on and given back.  What is     *)
(* needed besides is that a context that is allocated is a new one, and    *)
(* that one that is given up is freed, since nobody else refers to it.     *)
(***************************************************************************)
CONSTANTS MaxAgents, MaxContexts, MaxContextVersion, Keys, Topics,
          MaxSymbolVersion, MaxMessages
VARIABLES agents, contexts, allocated, handed, aborted,
          symbols, requester, messages, next_sequence

Agency == INSTANCE Agents

AgentRecord   == [id : Nat, context : Nat, is_paused : BOOLEAN]
ContextRecord == [memory : Seq(Nat), version : Nat, is_owned : BOOLEAN, ref_count : {1}]
Heaps == UNION {[C -> ContextRecord] : C \in SUBSET Nat}

\* Agents with contexts of a heap of which some have been handed out.
ContextsOwned(list, heap, out) ==
    /\ \A j \in DOMAIN list : list[j].context \in DOMAIN heap \ out
    /\ \A j, k \in DOMAIN list : list[j].context = list[k].context => j = k
    /\ \A c \in DOMAIN heap : c \in out \/ \E j \in DOMAIN list : c = list[j].context
    /\ out \subseteq DOMAIN heap

AgencyInv ==
    /\ allocated \in Nat
    /\ agents \in Seq(AgentRecord)
    /\ contexts \in Heaps /\ \A c \in DOMAIN contexts : c <= allocated
    /\ ContextsOwned(agents, contexts, handed)

(* What the invariant says of the lists, element by element.               *)
LEMMA AgencyFacts ==
  ASSUME AgencyInv
  PROVE  /\ Len(agents) \in Nat /\ DOMAIN agents = 1 .. Len(agents)
         /\ \A j \in DOMAIN agents : agents[j] \in AgentRecord
         /\ \A c \in DOMAIN contexts : c \in Nat /\ contexts[c] \in ContextRecord
         /\ contexts = [c \in DOMAIN contexts |-> contexts[c]]
         /\ Agency!NewContext \in Nat /\ Agency!NewContext \notin DOMAIN contexts
         /\ \A c \in DOMAIN contexts : c <= Agency!NewContext
<1>1. agents \in Seq(AgentRecord) /\ allocated \in Nat
  BY DEF AgencyInv
<1>2. \A c \in DOMAIN contexts : c \in Nat /\ contexts[c] \in ContextRecord
  BY DEF AgencyInv, Heaps
<1>3. contexts = [c \in DOMAIN contexts |-> contexts[c]]
  BY DEF AgencyInv, Heaps
<1>4. \A c \in DOMAIN contexts : c <= allocated
  BY DEF AgencyInv
<1>5. Agency!NewContext = allocated + 1
  BY DEF Agency!NewContext
<1>6. Agency!NewContext \in Nat /\ \A c \in DOMAIN contexts : c # Agency!NewContext /\ c <= Agency!NewContext
  BY <1>1, <1>2, <1>4, <1>5
<1> QED
  BY <1>1, <1>2, <1>3, <1>6, LenProperties, ElementOfSeq

(* A heap with one more context.                                           *)
LEMMA WithContext ==
  ASSUME NEW heap \in Heaps, NEW c \in Nat, NEW context \in ContextRecord
  PROVE  /\ Agency!With(heap, c, context) \in Heaps
         /\ DOMAIN Agency!With(heap, c, context) = DOMAIN heap \cup {c}
<1>1. DOMAIN heap \in SUBSET Nat /\ \A d \in DOMAIN heap : heap[d] \in ContextRecord
  BY DEF Heaps
<1> DEFINE C == DOMAIN heap \cup {c}
           larger == [d \in C |-> IF d = c THEN context ELSE heap[d]]
<1>2. C \in SUBSET Nat
  BY <1>1
<1>3. larger \in [C -> ContextRecord]
  BY <1>1
<1>4. larger \in Heaps
  <2> HIDE DEF larger, C
  <2> QED
    BY <1>2, <1>3 DEF Heaps
<1> QED
  BY <1>4 DEF Agency!With

(* A heap in which one context has been written to.                        *)
LEMMA WrittenContext ==
  ASSUME NEW heap \in Heaps, NEW c \in DOMAIN heap, NEW context \in ContextRecord
  PROVE  /\ [heap EXCEPT ![c] = context] \in Heaps
         /\ DOMAIN [heap EXCEPT ![c] = context] = DOMAIN heap
<1> DEFINE C == DOMAIN heap
           later == [heap EXCEPT ![c] = context]
<1>1. C \in SUBSET Nat /\ heap \in [C -> ContextRecord]
  BY DEF Heaps
<1>2. later \in [C -> ContextRecord] /\ DOMAIN later = C
  BY <1>1
<1>3. later \in Heaps
  <2> HIDE DEF later, C
  <2> QED
    BY <1>1, <1>2 DEF Heaps
<1> QED
  BY <1>2, <1>3

(* A context nobody else refers to is freed.                               *)
LEMMA FreedContext ==
  ASSUME NEW heap \in Heaps, NEW c \in DOMAIN heap
  PROVE  /\ Agency!agent_context_destroy(heap, c) \in Heaps
         /\ DOMAIN Agency!agent_context_destroy(heap, c) = DOMAIN heap \ {c}
         /\ \A d \in DOMAIN heap \ {c} : Agency!agent_context_destroy(heap, c)[d] = heap[d]
<1>1. DOMAIN heap \in SUBSET Nat /\ \A d \in DOMAIN heap : heap[d] \in ContextRecord
  BY DEF Heaps
<1>2. ~(heap[c].ref_count > 1)
  BY <1>1 DEF ContextRecord
<1> DEFINE C == DOMAIN heap \ {c}
           smaller == [d \in C |-> heap[d]]
<1>3. Agency!agent_context_destroy(heap, c) = smaller
  BY <1>2 DEF Agency!agent_context_destroy
<1>4. C \in SUBSET Nat /\ smaller \in [C -> ContextRecord]
  BY <1>1
<1>5. smaller \in Heaps
  <2> HIDE DEF smaller, C
  <2> QED
    BY <1>4 DEF Heaps
<1> QED
  BY <1>3, <1>5

(* What one agent is changed to leaves the others alone.                   *)
LEMMA OneAgent ==
  ASSUME NEW list \in Seq(AgentRecord), NEW k \in DOMAIN list, NEW agent \in AgentRecord
  PROVE  /\ [list EXCEPT ![k] = agent] \in Seq(AgentRecord)
         /\ DOMAIN [list EXCEPT ![k] = agent] = DOMAIN list
         /\ [list EXCEPT ![k] = agent][k] = agent
         /\ \A j \in DOMAIN list : j # k => [list EXCEPT ![k] = agent][j] = list[j]
<1>1. k \in 1 .. Len(list)
  BY LenProperties
<1> QED
  BY <1>1, ExceptSeq

(* At the start there are no agents and no contexts.                       *)
LEMMA AgencyInit ==
  ASSUME Agency!Init
  PROVE  AgencyInv
<1>1. agents = << >> /\ contexts = [c \in {} |-> {}] /\ allocated = 0 /\ handed = {}
  BY DEF Agency!Init
<1>2. contexts \in [{} -> ContextRecord] /\ DOMAIN contexts = {}
  BY <1>1
<1>3. contexts \in Heaps
  <2>1. {} \in SUBSET Nat
    OBVIOUS
  <2> QED
    BY <1>2, <2>1 DEF Heaps
<1>4. agents \in Seq(AgentRecord) /\ DOMAIN agents = {}
  BY <1>1
<1> QED
  BY <1>1, <1>2, <1>3, <1>4 DEF AgencyInv, ContextsOwned

(* A new agent has a new context.                                          *)
LEMMA SpawnKeeps ==
  ASSUME AgencyInv, Agency!agent_env_spawn_agent
  PROVE  AgencyInv'
<1> DEFINE c == Agency!NewContext
           n == Len(agents)
           new == [id |-> n + 1, context |-> c, is_paused |-> FALSE]
           context == Agency!agent_context_create
<1>1. /\ agents' = Append(agents, new)
      /\ contexts' = Agency!With(contexts, c, context)
      /\ allocated' = c /\ handed' = handed
  BY DEF Agency!agent_env_spawn_agent
<1>2. /\ c \in Nat /\ c \notin DOMAIN contexts /\ \A d \in DOMAIN contexts : d <= c
      /\ n \in Nat /\ DOMAIN agents = 1 .. n
      /\ agents \in Seq(AgentRecord) /\ contexts \in Heaps
      /\ ContextsOwned(agents, contexts, handed)
  BY AgencyFacts DEF AgencyInv
<1>3. context \in ContextRecord
  BY DEF Agency!agent_context_create, ContextRecord
<1>4. new \in AgentRecord /\ new.context = c
  BY <1>2 DEF AgentRecord
<1> HIDE DEF c, n, new, context
<1>5. contexts' \in Heaps /\ DOMAIN contexts' = DOMAIN contexts \cup {c}
  BY <1>1, <1>2, <1>3, WithContext
<1>6. /\ agents' \in Seq(AgentRecord) /\ DOMAIN agents' = 1 .. n + 1
      /\ \A j \in 1 .. n : agents'[j] = agents[j]
      /\ agents'[n + 1] = new
  BY <1>1, <1>2, <1>4, AppendElements DEF n
<1>7. \A j \in 1 .. n + 1 : j \in 1 .. n \/ j = n + 1
  BY <1>2
<1>8. \A j \in 1 .. n : agents[j].context \in DOMAIN contexts \ handed
  BY <1>2 DEF ContextsOwned
<1>9. \A j \in 1 .. n + 1 : agents'[j].context \in DOMAIN contexts' \ handed'
  <2> SUFFICES ASSUME NEW j \in 1 .. n + 1
               PROVE  agents'[j].context \in DOMAIN contexts' \ handed'
    OBVIOUS
  <2>1. handed \subseteq DOMAIN contexts
    BY <1>2 DEF ContextsOwned
  <2> QED
    BY <1>1, <1>2, <1>4, <1>5, <1>6, <1>7, <1>8, <2>1
<1>10. \A j, k \in 1 .. n + 1 : agents'[j].context = agents'[k].context => j = k
  <2> SUFFICES ASSUME NEW j \in 1 .. n + 1, NEW k \in 1 .. n + 1,
                      agents'[j].context = agents'[k].context
               PROVE  j = k
    OBVIOUS
  <2>1. \A l \in 1 .. n : agents'[l].context # c
    BY <1>2, <1>6, <1>8
  <2>2. CASE j \in 1 .. n /\ k \in 1 .. n
    BY <1>2, <1>6, <2>2 DEF ContextsOwned
  <2> QED
    BY <1>4, <1>6, <1>7, <2>1, <2>2
<1>11. \A d \in DOMAIN contexts' : d \in handed' \/ \E j \in 1 .. n + 1 : d = agents'[j].context
  <2> SUFFICES ASSUME NEW d \in DOMAIN contexts', d \notin handed'
               PROVE  \E j \in 1 .. n + 1 : d = agents'[j].context
    OBVIOUS
  <2>1. CASE d = c
    <3>1. n + 1 \in 1 .. n + 1
      BY <1>2
    <3> QED
      BY <1>4, <1>6, <2>1, <3>1
  <2>2. CASE d # c
    <3>1. PICK j \in 1 .. n : d = agents[j].context
      BY <1>1, <1>2, <1>5, <2>2 DEF ContextsOwned
    <3>2. j \in 1 .. n + 1
      BY <1>2, <3>1
    <3> QED
      BY <1>6, <3>1, <3>2
  <2> QED
    BY <2>1, <2>2
<1>12. handed' \subseteq DOMAIN contexts'
  BY <1>1, <1>2, <1>5 DEF ContextsOwned
<1>13. ContextsOwned(agents', contexts', handed')
  BY <1>6, <1>9, <1>10, <1>11, <1>12 DEF ContextsOwned
<1>14. allocated' \in Nat /\ \A d \in DOMAIN contexts' : d <= allocated'
  BY <1>1, <1>2, <1>5
<1> QED
  BY <1>5, <1>6, <1>13, <1>14 DEF AgencyInv

(* Agents that only pause keep their contexts.                             *)
LEMMA PauseKeeps ==
  ASSUME AgencyInv, NEW k \in DOMAIN agents,
         Agency!agent_pause(k) \/ Agency!agent_resume(k)
  PROVE  AgencyInv'
<1>1. PICK b \in BOOLEAN : agents' = [agents EXCEPT ![k].is_paused = b]
  BY DEF Agency!agent_pause, Agency!agent_resume
<1>2. contexts' = contexts /\ allocated' = allocated /\ handed' = handed
  BY DEF Agency!agent_pause, Agency!agent_resume
<1> DEFINE agent == [agents[k] EXCEPT !.is_paused = b]
<1>3. agents' = [agents EXCEPT ![k] = agent]
  BY <1>1
<1>4. agents[k] \in AgentRecord
  BY AgencyFacts
<1>5. agent \in AgentRecord /\ agent.context = agents[k].context
  BY <1>4 DEF AgentRecord
<1> HIDE DEF agent
<1>6. agents \in Seq(AgentRecord)
  BY DEF AgencyInv
<1>7. /\ agents' \in Seq(AgentRecord) /\ DOMAIN agents' = DOMAIN agents
      /\ agents'[k] = agent
      /\ \A j \in DOMAIN agents : j # k => agents'[j] = agents[j]
  BY <1>3, <1>5, <1>6, OneAgent
<1>8. \A j \in DOMAIN agents : agents'[j].context = agents[j].context
  BY <1>5, <1>7
<1>9. ContextsOwned(agents', contexts', handed')
  BY <1>2, <1>7, <1>8 DEF AgencyInv, ContextsOwned
<1> QED
  BY <1>2, <1>7, <1>9 DEF AgencyInv

(* Writing to the context of an agent, be it what the agent notes or what  *)
(* is merged into it or laid over it, leaves it where it is.               *)
LEMMA WritingKeeps ==
  ASSUME AgencyInv, NEW k \in DOMAIN agents,
         \/ Agency!Remember(k)
         \/ \E c \in handed :
               \/ Agency!ImportInto(k, c, Agency!agent_context_merge)
               \/ Agency!ImportInto(k, c, Agency!agent_context_overlay)
  PROVE  AgencyInv'
<1> DEFINE its == agents[k].context
<1>1. /\ its \in DOMAIN contexts /\ contexts \in Heaps
      /\ contexts[its] \in ContextRecord /\ agents[k] \in AgentRecord
      /\ \A c \in handed : c \in DOMAIN contexts /\ contexts[c] \in ContextRecord
  BY AgencyFacts DEF AgencyInv, ContextsOwned
<1> HIDE DEF its
<1>2. agents' = agents /\ allocated' = allocated /\ handed' = handed
  BY DEF Agency!Remember, Agency!ImportInto
<1>3. \E context \in ContextRecord : contexts' = [contexts EXCEPT ![its] = context]
  <2>1. CASE Agency!Remember(k)
    <3> DEFINE memory == Append(contexts[its].memory, agents[k].id)
               context == [contexts[its] EXCEPT !.memory = memory]
    <3>1. contexts' = [contexts EXCEPT ![its] = context]
      BY <2>1 DEF Agency!Remember, its
    <3>2. memory \in Seq(Nat)
      BY <1>1, AppendProperties DEF ContextRecord, AgentRecord
    <3> HIDE DEF memory
    <3>3. context \in ContextRecord
      BY <1>1, <3>2 DEF ContextRecord
    <3> QED
      BY <3>1, <3>3
  <2>2. ASSUME NEW c \in handed, Agency!ImportInto(k, c, Agency!agent_context_merge)
        PROVE  \E context \in ContextRecord : contexts' = [contexts EXCEPT ![its] = context]
    <3> DEFINE memory == contexts[its].memory \o contexts[c].memory
               context == [contexts[its] EXCEPT !.memory = memory, !.version = contexts[its].version + 1]
    <3>1. contexts' = [contexts EXCEPT ![its] = context]
      BY <2>2 DEF Agency!ImportInto, Agency!agent_context_merge, its
    <3>2. memory \in Seq(Nat) /\ contexts[its].version + 1 \in Nat
      BY <1>1, <2>2, ConcatProperties DEF ContextRecord
    <3> HIDE DEF memory
    <3>3. context \in ContextRecord
      BY <1>1, <3>2 DEF ContextRecord
    <3> QED
      BY <3>1, <3>3
  <2>3. ASSUME NEW c \in handed, Agency!ImportInto(k, c, Agency!agent_context_overlay)
        PROVE  \E context \in ContextRecord : contexts' = [contexts EXCEPT ![its] = context]
    <3> DEFINE memory == contexts[c].memory
               context == [contexts[its] EXCEPT !.memory = memory, !.version = contexts[its].version + 1]
    <3>1. contexts' = [contexts EXCEPT ![its] = context]
      BY <2>3 DEF Agency!ImportInto, Agency!agent_context_overlay, its
    <3>2. memory \in Seq(Nat) /\ contexts[its].version + 1 \in Nat
      BY <1>1, <2>3 DEF ContextRecord
    <3> HIDE DEF memory
    <3>3. context \in ContextRecord
      BY <1>1, <3>2 DEF ContextRecord
    <3> QED
      BY <3>1, <3>3
  <2> QED
    BY <2>1, <2>2, <2>3
<1>4. contexts' \in Heaps /\ DOMAIN contexts' = DOMAIN contexts
  <2>1. PICK context \in ContextRecord : contexts' = [contexts EXCEPT ![its] = context]
    BY <1>3
  <2> QED
    BY <1>1, <2>1, WrittenContext
<1> QED
  BY <1>2, <1>4 DEF AgencyInv, ContextsOwned

(* A copy that is exported is that of who asked for it.                    *)
LEMMA ExportKeeps ==
  ASSUME AgencyInv, NEW k \in DOMAIN agents, Agency!agent_context_export(k)
  PROVE  AgencyInv'
<1> DEFINE c == Agency!NewContext
           old == contexts[agents[k].context]
           context == [Agency!agent_context_shadow_copy(old) EXCEPT !.is_owned = FALSE]
<1>1. /\ contexts' = Agency!With(contexts, c, context) /\ agents' = agents
      /\ allocated' = c /\ handed' = handed \cup {c}
  BY DEF Agency!agent_context_export
<1>2. /\ c \in Nat /\ c \notin DOMAIN contexts /\ \A d \in DOMAIN contexts : d <= c
      /\ agents \in Seq(AgentRecord) /\ contexts \in Heaps
      /\ ContextsOwned(agents, contexts, handed)
      /\ old \in ContextRecord
  BY AgencyFacts DEF AgencyInv, ContextsOwned
<1>3. context \in ContextRecord
  <2> HIDE DEF old
  <2>1. Agency!agent_context_shadow_copy(old) = [old EXCEPT !.is_owned = TRUE, !.ref_count = 1]
    BY DEF Agency!agent_context_shadow_copy
  <2> QED
    BY <1>2, <2>1 DEF ContextRecord
<1> HIDE DEF c, context, old
<1>4. contexts' \in Heaps /\ DOMAIN contexts' = DOMAIN contexts \cup {c}
  BY <1>1, <1>2, <1>3, WithContext
<1>5. ContextsOwned(agents', contexts', handed')
  BY <1>1, <1>2, <1>4 DEF ContextsOwned
<1>6. allocated' \in Nat /\ \A d \in DOMAIN contexts' : d <= allocated'
  BY <1>1, <1>2, <1>4
<1> QED
  BY <1>1, <1>2, <1>4, <1>5, <1>6 DEF AgencyInv

(* Who asked for a context gives up what is no agent's.                    *)
LEMMA DropKeeps ==
  ASSUME AgencyInv, NEW c \in handed, Agency!DropExported(c)
  PROVE  AgencyInv'
<1>1. /\ contexts' = Agency!agent_context_destroy(contexts, c)
      /\ handed' = handed \ {c} /\ agents' = agents /\ allocated' = allocated
  BY DEF Agency!DropExported
<1>2. contexts \in Heaps /\ c \in DOMAIN contexts /\ ContextsOwned(agents, contexts, handed)
  BY DEF AgencyInv, ContextsOwned
<1>3. contexts' \in Heaps /\ DOMAIN contexts' = DOMAIN contexts \ {c}
  BY <1>1, <1>2, FreedContext
<1>4. ContextsOwned(agents', contexts', handed')
  BY <1>1, <1>2, <1>3 DEF ContextsOwned
<1> QED
  BY <1>1, <1>3, <1>4 DEF AgencyInv

(* An agent that gives up its context for a copy has a new one, and the    *)
(* other is freed.                                                         *)
LEMMA ShadowKeeps ==
  ASSUME AgencyInv, NEW k \in DOMAIN agents, NEW c \in handed, Agency!ShadowContext(k, c)
  PROVE  AgencyInv'
<1> DEFINE its == agents[k].context
           new == Agency!NewContext
           old == contexts[c]
           context == Agency!agent_context_shadow_copy(old)
           heap == Agency!agent_context_destroy(contexts, its)
           agent == [agents[k] EXCEPT !.context = new]
<1>1. /\ contexts' = Agency!With(heap, new, context)
      /\ agents' = [agents EXCEPT ![k] = agent]
      /\ allocated' = new /\ handed' = handed
  BY DEF Agency!ShadowContext
<1>2. /\ new \in Nat /\ new \notin DOMAIN contexts /\ \A d \in DOMAIN contexts : d <= new
      /\ agents \in Seq(AgentRecord) /\ contexts \in Heaps
      /\ ContextsOwned(agents, contexts, handed)
      /\ agents[k] \in AgentRecord
      /\ its \in DOMAIN contexts \ handed /\ c \in DOMAIN contexts
      /\ old \in ContextRecord
  BY AgencyFacts DEF AgencyInv, ContextsOwned
<1>3. context \in ContextRecord
  <2> HIDE DEF old
  <2>1. context = [old EXCEPT !.is_owned = TRUE, !.ref_count = 1]
    BY DEF Agency!agent_context_shadow_copy
  <2> QED
    BY <1>2, <2>1 DEF ContextRecord
<1> HIDE DEF new
<1>4. agent \in AgentRecord /\ agent.context = new
  BY <1>2 DEF AgentRecord
<1>5. \A j \in DOMAIN agents : j # k => agents[j].context # its
  BY <1>2 DEF ContextsOwned
<1> HIDE DEF context, old, heap, its, agent
<1>6. heap \in Heaps /\ DOMAIN heap = DOMAIN contexts \ {its}
  BY <1>2, FreedContext DEF heap
<1>7. contexts' \in Heaps /\ DOMAIN contexts' = (DOMAIN contexts \ {its}) \cup {new}
  BY <1>1, <1>2, <1>3, <1>6, WithContext
<1>8. /\ agents' \in Seq(AgentRecord) /\ DOMAIN agents' = DOMAIN agents
      /\ agents'[k] = agent
      /\ \A j \in DOMAIN agents : j # k => agents'[j] = agents[j]
  BY <1>1, <1>2, <1>4, OneAgent
<1>9. handed \subseteq DOMAIN contexts /\ \A j \in DOMAIN agents : agents[j].context \in DOMAIN contexts \ handed
  BY <1>2 DEF ContextsOwned
<1>10. ASSUME NEW j \in DOMAIN agents
       PROVE  agents'[j].context \in DOMAIN contexts' \ handed'
  BY <1>1, <1>2, <1>4, <1>5, <1>7, <1>8, <1>9
<1>11. ASSUME NEW j \in DOMAIN agents, NEW l \in DOMAIN agents,
              agents'[j].context = agents'[l].context
       PROVE  j = l
  <2>1. CASE j = k \/ l = k
    BY <1>2, <1>4, <1>8, <1>9, <1>11, <2>1
  <2>2. CASE j # k /\ l # k
    BY <1>2, <1>8, <1>11, <2>2 DEF ContextsOwned
  <2> QED
    BY <2>1, <2>2
<1>12. ASSUME NEW d \in DOMAIN contexts', d \notin handed'
       PROVE  \E j \in DOMAIN agents : d = agents'[j].context
  <2>1. CASE d = new
    BY <1>4, <1>8, <2>1
  <2>2. CASE d # new
    <3>1. d \in DOMAIN contexts /\ d # its
      BY <1>7, <2>2
    <3>2. PICK j \in DOMAIN agents : d = agents[j].context
      BY <1>1, <1>2, <1>12, <3>1 DEF ContextsOwned
    <3>3. j # k
      BY <3>1, <3>2 DEF its
    <3> QED
      BY <1>8, <3>2, <3>3
  <2> QED
    BY <2>1, <2>2
<1>13. handed' \subseteq DOMAIN contexts'
  BY <1>1, <1>2, <1>7, <1>9
<1>14. ContextsOwned(agents', contexts', handed')
  BY <1>8, <1>10, <1>11, <1>12, <1>13 DEF ContextsOwned
<1>15. allocated' \in Nat /\ \A d \in DOMAIN contexts' : d <= allocated'
  BY <1>1, <1>2, <1>7
<1> QED
  BY <1>7, <1>8, <1>14, <1>15 DEF AgencyInv

(* The inductive invariant of the agents' contexts (agent_module.c).       *)
THEOREM AgencyInductive == Agency!Spec => []AgencyInv
<1>1. Agency!Init => AgencyInv
  BY AgencyInit
<1>2. AgencyInv /\ [Agency!Next]_(Agency!vars) => AgencyInv'
  <2> SUFFICES ASSUME AgencyInv, [Agency!Next]_(Agency!vars) PROVE AgencyInv'
    OBVIOUS
  <2>1. CASE UNCHANGED Agency!agency
    BY <2>1 DEF Agency!agency, AgencyInv, ContextsOwned
  <2>2. CASE UNCHANGED Agency!vars
    BY <2>1, <2>2 DEF Agency!vars
  <2>3. CASE Agency!agent_env_spawn_agent
    BY <2>3, SpawnKeeps
  <2>4. CASE Agency!agent_env_remove_agent
    BY <2>4 DEF Agency!agent_env_remove_agent, AgencyInv, ContextsOwned
  <2>5. ASSUME NEW k \in DOMAIN agents, Agency!agent_pause(k) \/ Agency!agent_resume(k)
        PROVE  AgencyInv'
    BY <2>5, PauseKeeps
  <2>6. ASSUME NEW k \in DOMAIN agents, Agency!Remember(k)
        PROVE  AgencyInv'
    BY <2>6, WritingKeeps
  <2>7. ASSUME NEW k \in DOMAIN agents, Agency!agent_context_export(k)
        PROVE  AgencyInv'
    BY <2>7, ExportKeeps
  <2>8. ASSUME NEW k \in DOMAIN agents, NEW c \in handed, Agency!agent_context_import(k, c)
        PROVE  AgencyInv'
    BY <2>8, WritingKeeps, ShadowKeeps DEF Agency!agent_context_import
  <2>9. ASSUME NEW c \in handed, Agency!DropExported(c)
        PROVE  AgencyInv'
    BY <2>9, DropKeeps
  <2>10. CASE Agency!AgencyNext
    BY <2>10, <2>3, <2>4, <2>5, <2>6, <2>7, <2>8, <2>9 DEF Agency!AgencyNext
  <2>11. ASSUME NEW id \in Agency!Ids,
                \/ \E key \in Keys : Agency!agent_shared_set(key, id) \/ Agency!agent_shared_remove(key, id)
                \/ \E topic \in Topics : Agency!agent_bus_publish(topic, id)
         PROVE  AgencyInv'
    BY <2>1, <2>11 DEF Agency!agent_shared_set, Agency!agent_shared_remove, Agency!agent_bus_publish
  <2> QED
    BY <2>2, <2>10, <2>11 DEF Agency!Next
<1> QED
  BY <1>1, <1>2, PTL DEF Agency!Spec

(* No agent is left with a context that is gone, none shares one, and none *)
(* is leaked, in whatever order contexts are exported, imported and        *)
(* destroyed (agent_module.c).                                             *)
THEOREM EveryContextHasItsOwner == Agency!Spec => []Agency!ContextsHaveOneOwner
<1>1. AgencyInv => Agency!ContextsHaveOneOwner
  <2> SUFFICES ASSUME AgencyInv PROVE Agency!ContextsHaveOneOwner
    OBVIOUS
  <2>1. ContextsOwned(agents, contexts, handed)
    BY DEF AgencyInv
  <2>2. DOMAIN contexts = handed \cup {agents[j].context : j \in DOMAIN agents}
    BY <2>1 DEF ContextsOwned
  <2> QED
    BY <2>1, <2>2 DEF ContextsOwned, Agency!ContextsHaveOneOwner
<1> QED
  BY <1>1, AgencyInductive, PTL

\* The symbols of the shared space, of which no two have the same key.
Symbol == [key : Keys, owner_id : Agency!Ids, version : Nat]

KeysDiffer(list) == \A s, t \in DOMAIN list : list[s].key = list[t].key => s = t

SpaceInv == symbols \in Seq(Symbol) /\ KeysDiffer(symbols)

\* A symbol is still there as it was, or has been set to something newer; if
\* it is gone, it was its owner's to remove.
SymbolKept(old, list, id) ==
    /\ \A t \in DOMAIN list : list[t].key = old.key => list[t] = old \/ list[t].version > old.version
    /\ (\A t \in DOMAIN list : list[t].key # old.key) => id = old.owner_id

(* Setting a symbol adds it or replaces the only one of its key.           *)
LEMMA SetKeepsSpace ==
  ASSUME SpaceInv, NEW key \in Keys, NEW id \in Agency!Ids, Agency!agent_shared_set(key, id)
  PROVE  SpaceInv' /\ \A s \in DOMAIN symbols : SymbolKept(symbols[s], symbols', requester')
<1> DEFINE n == Len(symbols)
<1>1. /\ symbols \in Seq(Symbol) /\ n \in Nat /\ DOMAIN symbols = 1 .. n
      /\ \A s \in 1 .. n : symbols[s] \in Symbol
      /\ KeysDiffer(symbols)
  BY LenProperties, ElementOfSeq DEF SpaceInv
<1> HIDE DEF n
<1>2. CASE Agency!At(key) = {}
  <2> DEFINE new == [key |-> key, owner_id |-> id, version |-> 1]
  <2>1. new \in Symbol /\ new.key = key
    BY DEF Symbol
  <2>2. symbols' = Append(symbols, new)
    BY <1>2 DEF Agency!agent_shared_set
  <2>3. \A s \in 1 .. n : symbols[s].key # key
    BY <1>1, <1>2 DEF Agency!At
  <2> HIDE DEF new
  <2>4. /\ symbols' \in Seq(Symbol) /\ DOMAIN symbols' = 1 .. n + 1
        /\ \A s \in 1 .. n : symbols'[s] = symbols[s]
        /\ symbols'[n + 1] = new
    BY <1>1, <2>1, <2>2, AppendElements DEF n
  <2>5. \A s \in 1 .. n + 1 : s \in 1 .. n \/ s = n + 1
    BY <1>1
  <2>6. ASSUME NEW s \in 1 .. n + 1, NEW t \in 1 .. n + 1, symbols'[s].key = symbols'[t].key
        PROVE  s = t
    <3>1. CASE s \in 1 .. n /\ t \in 1 .. n
      BY <1>1, <2>4, <2>6, <3>1 DEF KeysDiffer
    <3> QED
      BY <2>1, <2>3, <2>4, <2>5, <2>6, <3>1
  <2>7. ASSUME NEW s \in 1 .. n
        PROVE  SymbolKept(symbols[s], symbols', requester')
    <3>1. s \in 1 .. n + 1 /\ symbols'[s] = symbols[s]
      BY <1>1, <2>4
    <3>2. \A t \in 1 .. n + 1 : symbols'[t].key = symbols[s].key => t = s
      BY <2>6, <3>1
    <3> QED
      BY <2>4, <3>1, <3>2 DEF SymbolKept
  <2> QED
    BY <1>1, <2>4, <2>6, <2>7 DEF SpaceInv, KeysDiffer
<1>3. CASE Agency!At(key) # {}
  <2> DEFINE Updated(s) == IF s \in Agency!At(key)
                         THEN [symbols[s] EXCEPT !.owner_id = id, !.version = symbols[s].version + 1]
                         ELSE symbols[s]
  <2>1. symbols' = [s \in 1 .. n |-> Updated(s)]
    BY <1>1, <1>3 DEF Agency!agent_shared_set
  <2>2. ASSUME NEW s \in 1 .. n
        PROVE  /\ Updated(s) \in Symbol /\ Updated(s).key = symbols[s].key
               /\ Updated(s) = symbols[s] \/ Updated(s).version > symbols[s].version
    <3> DEFINE old == symbols[s]
    <3>1. old \in Symbol
      BY <1>1
    <3> HIDE DEF old
    <3> DEFINE next == old.version + 1
               new == [old EXCEPT !.owner_id = id, !.version = next]
    <3>2. next \in Nat /\ next > old.version
      BY <3>1 DEF Symbol
    <3> HIDE DEF next
    <3>3. new \in Symbol /\ new.key = old.key /\ new.version = next
      BY <3>1, <3>2 DEF Symbol
    <3>4. Updated(s) = new \/ Updated(s) = old
      BY DEF new, old, next
    <3> HIDE DEF new, Updated
    <3> QED
      BY <3>1, <3>2, <3>3, <3>4 DEF old
  <2> HIDE DEF Updated
  <2>3. [s \in 1 .. n |-> Updated(s)] \in Seq(Symbol)
    BY <1>1, <2>2, IsASeq
  <2>4. /\ symbols' \in Seq(Symbol) /\ DOMAIN symbols' = 1 .. n
        /\ \A s \in 1 .. n : symbols'[s] = Updated(s)
    BY <2>1, <2>3
  <2>5. KeysDiffer(symbols')
    BY <1>1, <2>2, <2>4 DEF KeysDiffer
  <2>6. ASSUME NEW s \in 1 .. n
        PROVE  SymbolKept(symbols[s], symbols', requester')
    <3>1. symbols'[s].key = symbols[s].key
      BY <2>2, <2>4
    <3>2. \A t \in 1 .. n : symbols'[t].key = symbols[s].key => t = s
      BY <2>4, <2>5, <3>1 DEF KeysDiffer
    <3> QED
      BY <2>2, <2>4, <3>1, <3>2 DEF SymbolKept
  <2> QED
    BY <1>1, <2>4, <2>5, <2>6 DEF SpaceInv
<1> QED
  BY <1>2, <1>3

(* Removing one that is the agent's leaves the others.                     *)
LEMMA RemoveKeepsSpace ==
  ASSUME SpaceInv, NEW key \in Keys, NEW id \in Agency!Ids, Agency!agent_shared_remove(key, id)
  PROVE  SpaceInv' /\ \A s \in DOMAIN symbols : SymbolKept(symbols[s], symbols', requester')
<1> DEFINE n == Len(symbols)
<1>1. /\ symbols \in Seq(Symbol) /\ n \in Nat /\ DOMAIN symbols = 1 .. n
      /\ KeysDiffer(symbols)
  BY LenProperties DEF SpaceInv
<1>2. PICK s \in Agency!At(key) : symbols[s].owner_id = id /\ symbols' = Agency!RemoveAt(symbols, s)
  BY DEF Agency!agent_shared_remove, Agency!Removable
<1>3. s \in 1 .. n /\ requester' = id
  BY <1>1, <1>2 DEF Agency!At, Agency!agent_shared_remove
<1>4. symbols' = RemoveAt(symbols, s)
  BY <1>2 DEF Agency!RemoveAt, RemoveAt
<1>5. /\ symbols' \in Seq(Symbol) /\ DOMAIN symbols' = 1 .. n - 1
      /\ \A t \in 1 .. n - 1 : symbols'[t] = IF t < s THEN symbols[t] ELSE symbols[t + 1]
  BY <1>1, <1>3, <1>4, RemoveAtProperties
<1> DEFINE Old(t) == IF t < s THEN t ELSE t + 1
<1>6. \A t \in 1 .. n - 1 : Old(t) \in 1 .. n /\ symbols'[t] = symbols[Old(t)]
  BY <1>1, <1>3, <1>5
<1>7. \A t, u \in 1 .. n - 1 : Old(t) = Old(u) => t = u
  BY <1>1, <1>3
<1>8. \A u \in 1 .. n : u # s => \E t \in 1 .. n - 1 : Old(t) = u
  <2> SUFFICES ASSUME NEW u \in 1 .. n, u # s
               PROVE  \E t \in 1 .. n - 1 : Old(t) = u
    OBVIOUS
  <2>1. CASE u < s
    <3>1. u \in 1 .. n - 1 /\ Old(u) = u
      BY <1>1, <1>3, <2>1
    <3> QED
      BY <3>1
  <2>2. CASE ~(u < s)
    <3>1. u - 1 \in 1 .. n - 1 /\ Old(u - 1) = u
      BY <1>1, <1>3, <2>2
    <3> QED
      BY <3>1
  <2> QED
    BY <2>1, <2>2
<1> HIDE DEF Old, n
<1>9. KeysDiffer(symbols')
  BY <1>1, <1>5, <1>6, <1>7 DEF KeysDiffer
<1>10. ASSUME NEW u \in 1 .. n
       PROVE  SymbolKept(symbols[u], symbols', requester')
  <2>1. \A t \in 1 .. n - 1 : symbols'[t].key = symbols[u].key => symbols'[t] = symbols[u]
    BY <1>1, <1>6 DEF KeysDiffer
  <2>2. CASE u = s
    BY <1>2, <1>3, <1>5, <2>1, <2>2 DEF SymbolKept
  <2>3. CASE u # s
    <3>1. PICK t \in 1 .. n - 1 : symbols'[t] = symbols[u]
      BY <1>6, <1>8, <2>3
    <3> QED
      BY <1>5, <2>1, <3>1 DEF SymbolKept
  <2> QED
    BY <2>2, <2>3
<1> QED
  BY <1>1, <1>5, <1>9, <1>10 DEF SpaceInv

(* Every step that is not about the symbols leaves them alone.             *)
LEMMA SpaceStep ==
  ASSUME SpaceInv, [Agency!Next]_(Agency!vars)
  PROVE  SpaceInv' /\ \A s \in DOMAIN symbols : SymbolKept(symbols[s], symbols', requester')
<1>1. CASE symbols' = symbols
  <2>1. SpaceInv'
    BY <1>1 DEF SpaceInv
  <2>2. ASSUME NEW s \in DOMAIN symbols PROVE SymbolKept(symbols[s], symbols', requester')
    BY <1>1 DEF SpaceInv, KeysDiffer, SymbolKept
  <2> QED
    BY <2>1, <2>2
<1>2. CASE UNCHANGED Agency!vars
  BY <1>1, <1>2 DEF Agency!vars, Agency!space
<1>3. CASE Agency!AgencyNext
  BY <1>1, <1>3 DEF Agency!AgencyNext, Agency!space
<1>4. ASSUME NEW id \in Agency!Ids, NEW topic \in Topics, Agency!agent_bus_publish(topic, id)
      PROVE  symbols' = symbols
  BY <1>4 DEF Agency!agent_bus_publish, Agency!space
<1>5. CASE \E id \in Agency!Ids :
              \/ \E key \in Keys : Agency!agent_shared_set(key, id) \/ Agency!agent_shared_remove(key, id)
              \/ \E topic \in Topics : Agency!agent_bus_publish(topic, id)
  BY <1>1, <1>4, <1>5, SetKeepsSpace, RemoveKeepsSpace
<1> QED
  BY <1>2, <1>3, <1>5 DEF Agency!Next

(* The inductive invariant of the shared space (agent_module.c).           *)
THEOREM SpaceInductive == Agency!Spec => []SpaceInv
<1>1. Agency!Init => SpaceInv
  <2> SUFFICES ASSUME Agency!Init PROVE SpaceInv
    OBVIOUS
  <2>1. symbols = << >>
    BY DEF Agency!Init
  <2> QED
    BY <2>1 DEF SpaceInv, KeysDiffer
<1>2. SpaceInv /\ [Agency!Next]_(Agency!vars) => SpaceInv'
  BY SpaceStep
<1> QED
  BY <1>1, <1>2, PTL DEF Agency!Spec

(* A symbol goes away only at the hands of the agent that set it last, and *)
(* as long as it is there its version tells the values it has had apart    *)
(* (agent_module.c).                                                       *)
THEOREM SymbolsAreTheirOwners ==
  Agency!Spec => [][Agency!SymbolsKeepTheirOwner]_(Agency!vars)
<1>1. ASSUME SpaceInv, [Agency!Next]_(Agency!vars)
      PROVE  Agency!SymbolsKeepTheirOwner
  <2>1. SpaceInv' /\ \A s \in DOMAIN symbols : SymbolKept(symbols[s], symbols', requester')
    BY <1>1, SpaceStep
  <2>2. ASSUME NEW s \in DOMAIN symbols
        PROVE  LET later == {t \in DOMAIN symbols' : symbols'[t].key = symbols[s].key}
               IN  /\ later = {} => requester' = symbols[s].owner_id
                   /\ Agency!Cardinality(later) <= 1
                   /\ \A t \in later :
                         symbols'[t] # symbols[s] => symbols'[t].version > symbols[s].version
    <3> DEFINE later == {t \in DOMAIN symbols' : symbols'[t].key = symbols[s].key}
    <3>1. later = {} => requester' = symbols[s].owner_id
      BY <2>1 DEF SymbolKept
    <3>2. \A t \in later : symbols'[t] # symbols[s] => symbols'[t].version > symbols[s].version
      BY <2>1 DEF SymbolKept
    <3>3. \A t, u \in later : t = u
      BY <2>1 DEF SpaceInv, KeysDiffer
    <3> HIDE DEF later
    <3>4. later = {} \/ \E t \in later : later = {t}
      BY <3>3
    <3>5. Cardinality(later) <= 1
      <4>1. CASE later = {}
        <5>1. Cardinality(later) = 0
          BY <4>1, FS_EmptySet
        <5> QED
          BY <5>1
      <4>2. ASSUME NEW t \in later, later = {t} PROVE Cardinality(later) <= 1
        <5>1. Cardinality({t}) = 1
          BY FS_Singleton
        <5> QED
          BY <4>2, <5>1
      <4> QED
        BY <3>4, <4>1, <4>2
    <3>6. Agency!Cardinality(later) = Cardinality(later)
      BY DEF Agency!IsFiniteSet, IsFiniteSet, Agency!Cardinality, Cardinality
    <3> QED
      BY <3>1, <3>2, <3>5, <3>6 DEF later
  <2> QED
    BY <2>2 DEF Agency!SymbolsKeepTheirOwner
<1> QED
  BY <1>1, SpaceInductive, PTL DEF Agency!Spec

==============================================================================
