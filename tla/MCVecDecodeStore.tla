-------------------------- MODULE MCVecDecodeStore ---------------------------
(* VecDecodeStore for TLC: a vector of two elements, so that one can fail    *)
(* before or after the other, and one of one element, so that a reuse meets *)
(* another source and another length.                                       *)
EXTENDS VecDecodeStore

CONSTANTS s1, s2, v1, v2

MCSources == {s1, s2}
MCLen(s) == IF s = s1 THEN 2 ELSE 1
MCValues == {v1, v2}
=============================================================================
