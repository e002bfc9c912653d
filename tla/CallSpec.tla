------------------------------ MODULE CallSpec -------------------------------
(***************************************************************************)
(* What a call through an ffi! declaration promises its Rust caller: every *)
(* argument behind a mutable reference ends up with the value the callee   *)
(* left for it, and an argument whose value was not acceptable with what   *)
(* it held before (nothing, for one moved out); the call answers "ok" only *)
(* when the callee ran and every value was acceptable.                     *)
(***************************************************************************)
CONSTANTS
  Soft,      \* the arguments that are mutable references
  Taken,     \* those of them encoded by moving the value out
  Values,    \* the valid values
  Bad,       \* what no validation accepts
  Default,   \* what core::mem::take leaves behind
  Errors,    \* the answers that report a failure
  NotRun     \* nothing was left: the callee has not run

VARIABLES
  arg,       \* the caller's values behind the mutable references
  left,      \* what the callee left for each of them, or NotRun
  result     \* "pending" until the call answers

callVars == <<arg, left, result>>

CInit ==
  /\ arg \in [Soft -> Values]
  /\ left = NotRun
  /\ result = "pending"

Run ==
  /\ result = "pending"
  /\ left = NotRun
  /\ left' \in [Soft -> Values \cup {Bad}]
  /\ UNCHANGED <<arg, result>>

(* What an argument may hold when the value left for it is not accepted.   *)
Kept(i) == {arg[i]} \cup IF i \in Taken THEN {Default} ELSE {}

AnswerUnrun ==
  /\ result = "pending"
  /\ left = NotRun
  /\ result' \in Errors
  /\ arg' \in [Soft -> Values]
  /\ \A i \in Soft : arg'[i] \in Kept(i)
  /\ UNCHANGED left

Answer ==
  /\ result = "pending"
  /\ left # NotRun
  /\ result' \in Errors \cup IF \A i \in Soft : left[i] \in Values THEN {"ok"} ELSE {}
  /\ arg' \in [Soft -> Values]
  /\ \A i \in Soft : arg'[i] \in IF left[i] \in Values THEN {left[i]} ELSE Kept(i)
  /\ UNCHANGED left

(* A panic that may not cross the boundary ends the process.               *)
Abort ==
  /\ result = "pending"
  /\ result' = "abort"
  /\ UNCHANGED <<arg, left>>

CNext == Run \/ AnswerUnrun \/ Answer \/ Abort

CSpec == CInit /\ [][CNext]_callVars
=============================================================================
