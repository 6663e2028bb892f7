----------------------------- MODULE Ownership ------------------------------
(***************************************************************************)
(* The borrow checker of src/core/memory/ownership.c: a table of variables *)
(* with their ownership records, and the linked list of active borrow      *)
(* regions.  Every public operation of the checker is one action; calls    *)
(* arrive one at a time (the checker is a single-threaded structure) but   *)
(* in any order, which is what the rules of ownership.h:9-27 are about.    *)
(*                                                                         *)
(* Abstracted: names, lines, memory layouts and error texts; the lifetime  *)
(* stored in a region (nothing reads it: see Lifetimes.tla); error_count,  *)
(* which the code only ever compares with 0, is the Boolean "failed".  A   *)
(* call with an unknown variable id returns OWN_ERR_DANGLING_REF and       *)
(* changes nothing: it is a stuttering step.                               *)
(***************************************************************************)
EXTENDS Integers, Sequences, FiniteSets

CONSTANTS
  MaxVars,      (* bound: variables ever registered *)
  MaxBorrows    (* bound: borrow regions active at the same time *)

ASSUME MaxVarsAssumption    == MaxVars \in Nat
ASSUME MaxBorrowsAssumption == MaxBorrows \in Nat

VARIABLES
  var_count,       (* number of registered variables; ids are 0..var_count-1 *)
  own,             (* ownership record of each variable id                  *)
  active_borrows,  (* list of active regions, the newest first              *)
  failed,          (* error_count > 0                                       *)
  freed            (* history: values released by a successful drop         *)

vars == <<var_count, own, active_borrows, failed, freed>>

VarId      == 0 .. MaxVars - 1
Registered == 0 .. var_count - 1

(* A value is named by the variable that first owned it, as owner_id does. *)
Value == VarId

OwnershipState == {"owned", "moved", "dropped"}

OwnershipInfo ==
  [state           : OwnershipState,
   borrow_count    : Nat,
   is_mut_borrowed : BOOLEAN,
   owner_id        : Value,
   moved_to        : VarId]

BorrowType   == {"borrowed", "borrowed_mut"}
BorrowRegion == [var : VarId, type : BorrowType]

(* What borrow_checker_add_var writes for a new variable.                  *)
FreshInfo(v) ==
  [state           |-> "owned",
   borrow_count    |-> 0,
   is_mut_borrowed |-> FALSE,
   owner_id        |-> v,
   moved_to        |-> 0]

TypeOK ==
  /\ var_count \in 0 .. MaxVars
  /\ own \in [VarId -> OwnershipInfo]
  /\ active_borrows \in Seq(BorrowRegion)
  /\ failed \in BOOLEAN
  /\ freed \subseteq Value

-----------------------------------------------------------------------------
(* Tests the operations are made of.                                       *)

(* Faulty variants, for mutation: a borrow test that forgets exclusive     *)
(* borrows, an exclusive borrow beside shared ones, a second move.         *)
IsBorrowedShared(v)        == own[v].borrow_count > 0
CanBorrowMutWhileShared(v) == own[v].state = "owned" /\ ~own[v].is_mut_borrowed
CanMoveTwice(v)            == own[v].borrow_count = 0 /\ ~own[v].is_mut_borrowed

Usable(v)     == own[v].state \notin {"moved", "dropped"}
IsBorrowed(v) == own[v].borrow_count > 0 \/ own[v].is_mut_borrowed

CanBorrow(v)    == Usable(v) /\ ~own[v].is_mut_borrowed
CanBorrowMut(v) == Usable(v) /\ own[v].borrow_count = 0 /\ ~own[v].is_mut_borrowed
CanMove(v)      == ~IsBorrowed(v) /\ own[v].state # "moved"

(* add_error: record the error, leave the tables alone.                    *)
AddError ==
  /\ failed' = TRUE
  /\ UNCHANGED <<var_count, own, active_borrows, freed>>

PushRegion(v, type) ==
  active_borrows' = <<[var |-> v, type |-> type]>> \o active_borrows

RegionsOf(v) == {i \in DOMAIN active_borrows : active_borrows[i].var = v}

(* unborrow walks the list from its head and stops at the first match.     *)
IsFirstRegionOf(i, v) ==
  /\ i \in RegionsOf(v)
  /\ \A j \in RegionsOf(v) : i <= j

Unlink(i) ==
  [j \in 1 .. Len(active_borrows) - 1 |->
     IF j < i THEN active_borrows[j] ELSE active_borrows[j + 1]]

-----------------------------------------------------------------------------
(* borrow_checker_create: nothing registered.  Slots of the table that are *)
(* not registered yet are never read; they hold what add_var will write.   *)
Init ==
  /\ var_count = 0
  /\ own = [v \in VarId |-> FreshInfo(v)]
  /\ active_borrows = <<>>
  /\ failed = FALSE
  /\ freed = {}

(* borrow_checker_add_var                                                  *)
AddVar ==
  /\ var_count < MaxVars
  /\ own' = [own EXCEPT ![var_count] = FreshInfo(var_count)]
  /\ var_count' = var_count + 1
  /\ UNCHANGED <<active_borrows, failed, freed>>

(* borrow_checker_borrow: a shared borrow, refused when the variable is    *)
(* moved, dropped or mutably borrowed.                                     *)
Borrow(v) ==
  \/ /\ CanBorrow(v)
     /\ Len(active_borrows) < MaxBorrows
     /\ own' = [own EXCEPT ![v].borrow_count = @ + 1]
     /\ PushRegion(v, "borrowed")
     /\ UNCHANGED <<var_count, failed, freed>>
  \/ /\ ~CanBorrow(v)
     /\ AddError

(* borrow_checker_borrow_mut: an exclusive borrow.                         *)
BorrowMut(v) ==
  \/ /\ CanBorrowMut(v)
     /\ Len(active_borrows) < MaxBorrows
     /\ own' = [own EXCEPT ![v].is_mut_borrowed = TRUE]
     /\ PushRegion(v, "borrowed_mut")
     /\ UNCHANGED <<var_count, failed, freed>>
  \/ /\ ~CanBorrowMut(v)
     /\ AddError

(* The two updates of borrow_checker_move, the source's first: moving a    *)
(* variable to itself therefore leaves it owned.  Only the source is       *)
(* examined: neither its being dropped nor the state of the target matters.*)
MovedOut(from, to) ==
  [own EXCEPT ![from].state = "moved", ![from].moved_to = to]

(* Faulty variant: assign the record of the source as a whole.             *)
MovedInWhole(table, from, to) ==
  [table EXCEPT ![to] = [own[from] EXCEPT !.state = "owned"]]

(* Faulty variant: the target does not become the owner.                   *)
MovedInNameOnly(table, from, to) == [table EXCEPT ![to].owner_id = own[from].owner_id]

MovedIn(table, from, to) ==
  [table EXCEPT ![to].state = "owned", ![to].owner_id = own[from].owner_id]

(* borrow_checker_move                                                     *)
Move(from, to) ==
  \/ /\ CanMove(from)
     /\ own' = MovedIn(MovedOut(from, to), from, to)
     /\ UNCHANGED <<var_count, active_borrows, failed, freed>>
  \/ /\ ~CanMove(from)
     /\ AddError

(* borrow_checker_drop: dropping a moved variable succeeds and does        *)
(* nothing, since its new owner drops the value.                           *)
Drop(v) ==
  \/ /\ ~IsBorrowed(v)
     /\ own[v].state = "owned"
     /\ own' = [own EXCEPT ![v].state = "dropped"]
     /\ freed' = freed \cup {own[v].owner_id}
     /\ UNCHANGED <<var_count, active_borrows, failed>>
  \/ /\ ~IsBorrowed(v)
     /\ own[v].state = "moved"
     /\ UNCHANGED vars
  \/ /\ IsBorrowed(v) \/ own[v].state = "dropped"
     /\ AddError

(* Faulty variant: the counter is decremented whatever the region's kind.  *)
UnborrowAnyKind(v) ==
  \E i \in DOMAIN active_borrows :
    /\ IsFirstRegionOf(i, v)
    /\ active_borrows' = Unlink(i)
    /\ own' = [own EXCEPT ![v].borrow_count = @ - 1, ![v].is_mut_borrowed = FALSE]
    /\ UNCHANGED <<var_count, failed, freed>>

(* borrow_checker_unborrow: end the newest region of v, whatever its kind, *)
(* and undo what its kind did to v's record.                               *)
Unborrow(v) ==
  \E i \in DOMAIN active_borrows :
    /\ IsFirstRegionOf(i, v)
    /\ active_borrows' = Unlink(i)
    /\ own' = IF active_borrows[i].type = "borrowed"
                THEN [own EXCEPT ![v].borrow_count = IF @ > 0 THEN @ - 1 ELSE @]
                ELSE [own EXCEPT ![v].is_mut_borrowed = FALSE]
    /\ UNCHANGED <<var_count, failed, freed>>

Next ==
  \/ AddVar
  \/ \E v \in Registered :
        \/ Borrow(v)
        \/ BorrowMut(v)
        \/ Drop(v)
        \/ Unborrow(v)
        \/ \E to \in Registered : Move(v, to)

Spec == Init /\ [][Next]_vars

-----------------------------------------------------------------------------
(* Properties.                                                             *)

(* Rule 2 of ownership.h, "Nao pode ter &mut enquanto existir &": whatever *)
(* sequence of borrows, moves and unborrows was accepted, the regions that *)
(* are active for a variable are all shared or are one exclusive region.   *)
(* It is stated on the list, which the guards never look at: they look at  *)
(* the counters only.                                                      *)
ExclusiveBorrow ==
  \A i, j \in DOMAIN active_borrows :
     (/\ i # j
      /\ active_borrows[i].var = active_borrows[j].var) =>
        /\ active_borrows[i].type = "borrowed"
        /\ active_borrows[j].type = "borrowed"

(* The counters agree with the list of regions: unborrow, which walks the  *)
(* list newest first and adjusts the counters by the kind it finds, never  *)
(* leaves a count without its region or a region without its count.        *)
RegionsOfType(v, type) == {i \in RegionsOf(v) : active_borrows[i].type = type}

CountsMatchRegions ==
  \A v \in VarId :
     /\ own[v].borrow_count = Cardinality(RegionsOfType(v, "borrowed"))
     /\ own[v].is_mut_borrowed <=> RegionsOfType(v, "borrowed_mut") # {}

(* A reference never points to a variable that was moved or dropped: a     *)
(* variable with an active region is owned.  move and drop refuse borrowed *)
(* variables, borrow refuses unusable ones, and no other operation may     *)
(* open the gap between the two.                                           *)
BorrowedIsOwned ==
  \A i \in DOMAIN active_borrows : own[active_borrows[i].var].state = "owned"

(* Rule 1 of ownership.h, "Cada valor tem exatamente um dono": no sequence *)
(* of moves, drops and re-assignments makes two variables that were not    *)
(* moved out claim the same value.                                         *)
UniqueOwner ==
  \A v, w \in Registered :
     (/\ v # w
      /\ own[v].state # "moved"
      /\ own[w].state # "moved") => own[v].owner_id # own[w].owner_id

(* Following moved_to from a moved-out variable always arrives at one that *)
(* is not moved out: the "new owner" on which drop relies when it lets a   *)
(* moved variable go exists, because no set of moved-out variables is      *)
(* closed under moved_to (the chain of moves has no cycle).                *)
MovedChainEnds ==
  \A S \in SUBSET Registered :
     (S # {}) => \E v \in S : own[v].state # "moved" \/ own[v].moved_to \notin S

(* Use after free, which borrow_checker_verify is there to exclude: as     *)
(* long as no error was recorded, no variable owns a released value.       *)
VerifiedMeansNoUseAfterFree ==
  ~failed => \A v \in Registered :
                own[v].state = "owned" => own[v].owner_id \notin freed

(* What a borrow pins: while a region of v is active, v keeps its state.   *)
(* (Not its value: a move into v replaces it, see OverwritesBorrowed.)     *)
BorrowPinsState ==
  [][\A i \in DOMAIN active_borrows :
        LET v == active_borrows[i].var IN own'[v].state = own[v].state]_vars

-----------------------------------------------------------------------------
(* Refinement of the readers-writer discipline.  The locks are read off    *)
(* the list of active regions, not off the counters, so that it says that  *)
(* the guards, which read only the counters, and unborrow, which walks the *)
(* list, keep the two together.                                            *)

SharedRegions(v) == Cardinality(RegionsOfType(v, "borrowed"))
ExclRegion(v)    == RegionsOfType(v, "borrowed_mut") # {}

(* The value a variable holds: what it owns.  A moved-out variable and a   *)
(* dropped one hold nothing.                                               *)
NoValue  == -1
Owned(v) == v \in Registered /\ own[v].state = "owned"

HoldsVars  == [v \in VarId |-> IF Owned(v) THEN own[v].owner_id ELSE NoValue]
SharedVars == [v \in VarId |-> SharedRegions(v)]
ExclVars   == [v \in VarId |-> ExclRegion(v)]

Discipline == INSTANCE BorrowDiscipline WITH
  Variable <- VarId,
  Value    <- Value,
  NoValue  <- NoValue,
  holds    <- HoldsVars,
  shared   <- SharedVars,
  excl     <- ExclVars

(* The one thing the checker lets pass that a lock would not: a move into  *)
(* a variable that is borrowed (ownership.c:238-239) replaces the value    *)
(* under the borrow.  ownership.h:180 has an error for it,                 *)
(* OWN_ERR_MODIFY_WHILE_BORROWED, which nothing raises.                    *)
OverwritesBorrowed ==
  \E from, to \in Registered :
     /\ from # to
     /\ IsBorrowed(to)
     /\ CanMove(from)
     /\ Move(from, to)

(* Every other step of the checker is a step of the discipline or leaves   *)
(* its state alone (ownership.c:131-295): a borrow is granted only as the  *)
(* lock of its variable allows, a variable gives its value up or takes     *)
(* another only while its lock is free, and no value has two holders.  The *)
(* value that a dropped variable gives to another counts as a new one: see *)
(* VerifiedMeansNoUseAfterFree.                                            *)
ImplementsDiscipline ==
  Discipline!Init /\ [][Discipline!Next \/ OverwritesBorrowed]_(Discipline!vars)
=============================================================================
