-------------------------- MODULE BorrowDiscipline --------------------------
(***************************************************************************)
(* What the borrow checker promises about one program, said without its    *)
(* tables: every variable is a readers-writer lock on the value it holds.  *)
(* A variable that holds a value is read by any number of shared borrows   *)
(* or written by one exclusive borrow (ownership.h:14-17); it is given     *)
(* another value, or gives its own up by a move or by a drop, only when no *)
(* borrow of it is active; and no value is held by two variables.          *)
(* Ownership.tla implements this but for one step, which it names          *)
(* (ImplementsDiscipline).                                                 *)
(***************************************************************************)
EXTENDS Integers

CONSTANTS
  Variable,   \* the variables of the program
  Value,      \* the values they hold
  NoValue     \* what a variable without a value holds, not in Value

VARIABLES
  holds,   \* holds[v]: the value v holds, or NoValue
  shared,  \* shared[v]: the number of shared borrows of v
  excl     \* excl[v]: v is exclusively borrowed

vars == <<holds, shared, excl>>

Free(v)   == shared[v] = 0 /\ ~excl[v]
Holds(v)  == holds[v] # NoValue
Unheld(x) == \A v \in Variable : holds[v] # x

Init ==
  /\ holds = [v \in Variable |-> NoValue]
  /\ shared = [v \in Variable |-> 0]
  /\ excl = [v \in Variable |-> FALSE]

(* A variable is declared, or assigned, with a value nobody holds.         *)
Assign(v, x) ==
  /\ Free(v)
  /\ Unheld(x)
  /\ holds' = [holds EXCEPT ![v] = x]
  /\ UNCHANGED <<shared, excl>>

(* A variable's value is dropped.                                          *)
End(v) ==
  /\ Holds(v)
  /\ Free(v)
  /\ holds' = [holds EXCEPT ![v] = NoValue]
  /\ UNCHANGED <<shared, excl>>

(* The value of v moves into w, and replaces what w held.                  *)
Transfer(v, w) ==
  /\ Holds(v)
  /\ Free(v)
  /\ Free(w)
  /\ holds' = [holds EXCEPT ![v] = NoValue, ![w] = holds[v]]
  /\ UNCHANGED <<shared, excl>>

Share(v) ==
  /\ Holds(v)
  /\ ~excl[v]
  /\ shared' = [shared EXCEPT ![v] = @ + 1]
  /\ UNCHANGED <<holds, excl>>

Exclude(v) ==
  /\ Holds(v)
  /\ Free(v)
  /\ excl' = [excl EXCEPT ![v] = TRUE]
  /\ UNCHANGED <<holds, shared>>

Unshare(v) ==
  /\ shared[v] > 0
  /\ shared' = [shared EXCEPT ![v] = @ - 1]
  /\ UNCHANGED <<holds, excl>>

Unexclude(v) ==
  /\ excl[v]
  /\ excl' = [excl EXCEPT ![v] = FALSE]
  /\ UNCHANGED <<holds, shared>>

Next ==
  \E v \in Variable :
    \/ End(v)
    \/ Share(v)
    \/ Exclude(v)
    \/ Unshare(v)
    \/ Unexclude(v)
    \/ \E x \in Value : Assign(v, x)
    \/ \E w \in Variable : Transfer(v, w)

Spec == Init /\ [][Next]_vars
=============================================================================
