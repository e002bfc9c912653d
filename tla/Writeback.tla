------------------------------ MODULE Writeback ------------------------------
(***************************************************************************)
(* What the mutable-reference stores of src/src/sync.rs promise, with the  *)
(* stores hidden: while locations have values staged on the other side of  *)
(* the boundary, a location is written only when its staged value is valid *)
(* and only with the value staged for that very location.                  *)
(***************************************************************************)
CONSTANTS
  Cells,     \* the locations behind the mutable references
  Values,    \* the valid values of the referent type
  Bad,       \* a representation that fails validation
  Default,   \* what core::mem::take leaves behind
  Nothing,   \* no value is staged
  MoveOut    \* TRUE: staging takes the value out of the location

VARIABLES
  cell,      \* the content of each location
  staged     \* the value staged for each location, or Nothing

wbVars == <<cell, staged>>

(* The content of a location once its value was staged.                    *)
Left(v) == IF MoveOut THEN Default ELSE v

Unstaged == [c \in Cells |-> Nothing]

WBInit ==
  /\ cell \in [Cells -> Values \cup {Bad}]
  /\ staged = Unstaged

(* A conversion of the locations in S: their values are on the other side. *)
Stage(S) ==
  /\ staged = Unstaged
  /\ \A c \in S : cell[c] \in Values
  /\ staged' = [c \in Cells |-> IF c \in S THEN cell[c] ELSE Nothing]
  /\ cell' = [c \in Cells |-> IF c \in S THEN Left(cell[c]) ELSE cell[c]]

(* The other side changes what is staged, validly or not.                  *)
Change ==
  /\ \E new \in [Cells -> Values \cup {Bad}] :
       staged' = [c \in Cells |-> IF staged[c] = Nothing THEN Nothing ELSE new[c]]
  /\ UNCHANGED cell

(* Every conversion ends: the staged values in `done` are committed, each  *)
(* of them valid, and the others are given up.                             *)
Settle(done) ==
  /\ \A c \in done : staged[c] \in Values
  /\ cell' = [c \in Cells |-> IF c \in done THEN staged[c] ELSE cell[c]]
  /\ staged' = Unstaged

(* Conversions that never got to stage their values: a panic while         *)
(* building.                                                               *)
Abandon(S) ==
  /\ \A c \in S : staged[c] = Nothing
  /\ cell' = [c \in Cells |-> IF c \in S THEN Left(cell[c]) ELSE cell[c]]
  /\ UNCHANGED staged

(* The owner of a location uses it while none of its values is staged.     *)
Own(c) ==
  /\ staged[c] = Nothing
  /\ \E v \in Values \cup {Bad} : cell' = [cell EXCEPT ![c] = v]
  /\ UNCHANGED staged

WBNext ==
  \/ \E c \in Cells : Own(c)
  \/ \E S \in SUBSET Cells : Stage(S) \/ Settle(S) \/ Abandon(S)
  \/ Change

WBSpec == WBInit /\ [][WBNext]_wbVars

=============================================================================
