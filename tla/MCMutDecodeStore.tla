-------------------------- MODULE MCMutDecodeStore ---------------------------
(* MutDecodeStore for TLC: two sources, so that a reuse meets a source that *)
(* is not the pending one, and two valid values.                            *)
EXTENDS MutDecodeStore

CONSTANTS s1, s2, v1, v2

MCSources == {s1, s2}
MCValues == {v1, v2}
=============================================================================
