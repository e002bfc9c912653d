------------------------------- MODULE MCCall --------------------------------
(* Call for TLC: four arguments, one of each kind, so that a failing one can *)
(* stand before, between and after the others.                               *)
EXTENDS Call

CONSTANTS v0, v1

MCValues == {v0, v1}
TakeCopyOwnedView == <<"take", "copy", "move", "view">>

(* A Rust wrapper calling a Rust body in error mode, one that selects an    *)
(* instantiation by tag; the same in panic mode; a wrapper that may unwind  *)
(* calling foreign code; a foreign caller of a dispatched Rust body.        *)
MCConfigs ==
  { [caller |-> "rust", callee |-> "rust", mode |-> "error", unpacked |-> {}, packed |-> {1},
      dispatched |-> TRUE],
    [caller |-> "rust", callee |-> "rust", mode |-> "panic", unpacked |-> {3}, packed |-> {1},
      dispatched |-> FALSE],
    [caller |-> "rust", callee |-> "foreign", mode |-> "panic", unpacked |-> {4}, packed |-> {},
      dispatched |-> FALSE],
    [caller |-> "foreign", callee |-> "rust", mode |-> "error", unpacked |-> {}, packed |-> {3},
      dispatched |-> TRUE] }
=============================================================================
