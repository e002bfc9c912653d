-------------------------- MODULE MCMutEncodeStore ---------------------------
(* MutEncodeStore for TLC: three places, the fewest with which one store    *)
(* can be lent a place, unwind in finish() when it is lent a second, and go *)
(* on with a third; and three carriers, so that another store follows.      *)
EXTENDS MutEncodeStore

CONSTANTS c1, c2, c3, v0, v1, v2

MCCells == {c1, c2, c3}
MCValues == {v0, v1, v2}
=============================================================================
