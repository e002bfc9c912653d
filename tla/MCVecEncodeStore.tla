-------------------------- MODULE MCVecEncodeStore ---------------------------
(* VecEncodeStore for TLC: vectors of two elements, so that one of them can *)
(* be rejected or unwind before or after the other, and of one; and a store *)
(* lent both, so that an abandoned conversion stands before the next.       *)
EXTENDS VecEncodeStore

CONSTANTS p1, p2, v0, v1, v2

MCPlaces == {p1, p2}
MCLen(p) == IF p = p1 THEN 2 ELSE 1
MCValues == {v0, v1, v2}
=============================================================================
