----------------------------- MODULE Lifetimes ------------------------------
(***************************************************************************)
(* Scopes and lifetimes of the borrow checker (ownership.c:297-354).  A    *)
(* lifetime remembers the DEPTH of the scope it was created in, and one    *)
(* lifetime is taken to lie within another when its depth is not smaller.  *)
(*                                                                         *)
(* The checker has no notion of which scope a depth stands for, so the     *)
(* model adds it as history: every entered scope gets a number, "path" is  *)
(* the stack of the scopes that are open, and a lifetime's home is the     *)
(* path on which it was created.                                           *)
(***************************************************************************)
EXTENDS Integers, Sequences, SequencesExt

CONSTANTS
  MaxScopes,     (* bound: scopes ever entered    *)
  MaxLifetimes   (* bound: lifetimes ever created *)

VARIABLES
  current_scope,  (* depth of the innermost open scope                   *)
  lifetimes,      (* scope_depth of the lifetimes with ids 1, 2, ...      *)
  path,           (* history: the open scopes, the outermost first       *)
  entered,        (* history: the number of scopes entered so far        *)
  home            (* history: the path on which each lifetime was created *)

vars == <<current_scope, lifetimes, path, entered, home>>

STATIC    == -1    \* LIFETIME_STATIC, all ones
TEMPORARY == 0     \* LIFETIME_TEMPORARY

Created   == DOMAIN lifetimes

TypeOK ==
  /\ current_scope \in 0 .. MaxScopes
  /\ lifetimes \in Seq(0 .. MaxScopes)
  /\ path \in Seq(1 .. entered)
  /\ entered \in 0 .. MaxScopes
  /\ home \in Seq(Seq(1 .. entered))
  /\ Len(home) = Len(lifetimes)

(* borrow_checker_lifetime_valid                                           *)
LifetimeValid(inner, outer) ==
  \/ outer = STATIC
  \/ inner = STATIC
  \/ /\ inner # TEMPORARY
     /\ \/ outer = TEMPORARY
        \/ /\ {inner, outer} \subseteq Created
           /\ lifetimes[inner] >= lifetimes[outer]

-----------------------------------------------------------------------------
(* borrow_checker_create                                                   *)
Init ==
  /\ current_scope = 0
  /\ lifetimes = <<>>
  /\ path = <<>>
  /\ entered = 0
  /\ home = <<>>

(* borrow_checker_enter_scope                                              *)
EnterScope ==
  /\ entered < MaxScopes
  /\ current_scope' = current_scope + 1
  /\ entered' = entered + 1
  /\ path' = Append(path, entered')
  /\ UNCHANGED <<lifetimes, home>>

(* Faulty variant: the depth is allowed to run below zero.                 *)
ExitScopeUnguarded ==
  /\ current_scope' = current_scope - 1
  /\ path' = IF path = <<>> THEN path ELSE Front(path)
  /\ UNCHANGED <<lifetimes, entered, home>>

(* borrow_checker_exit_scope: leaving the outermost scope does nothing.    *)
ExitScope ==
  /\ current_scope' = IF current_scope > 0 THEN current_scope - 1 ELSE current_scope
  /\ path' = IF path = <<>> THEN path ELSE Front(path)
  /\ UNCHANGED <<lifetimes, entered, home>>

(* borrow_checker_new_lifetime; ids count up from 1.                       *)
NewLifetime ==
  /\ Len(lifetimes) < MaxLifetimes
  /\ lifetimes' = Append(lifetimes, current_scope)
  /\ home' = Append(home, path)
  /\ UNCHANGED <<current_scope, path, entered>>

Next == EnterScope \/ ExitScope \/ NewLifetime

Spec == Init /\ [][Next]_vars

-----------------------------------------------------------------------------
(* Properties.                                                             *)

(* The scope in which "inner" was created lies inside the one of "outer".  *)
Within(inner, outer) == IsPrefix(home[outer], home[inner])

Open(l) == IsPrefix(home[l], path)

(* Among lifetimes whose scopes are all still open the comparison of       *)
(* depths is exact, however scopes were entered and left in between: one   *)
(* is valid in the other if and only if its scope lies inside the other's. *)
ValidIsWithinWhileOpen ==
  \A inner, outer \in Created :
     Open(inner) /\ Open(outer) =>
        (LifetimeValid(inner, outer) <=> Within(inner, outer))
=============================================================================
