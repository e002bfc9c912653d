------------------------- MODULE MCSliceDecodeStore --------------------------
(* SliceDecodeStore for TLC: two slices of two elements and one of one, so  *)
(* that a stale value meets a source of its own and of another length.      *)
EXTENDS SliceDecodeStore

CONSTANTS s1, s2, s3, v1, v2

MCSlices == {s1, s2, s3}
MCLen(s) == IF s = s3 THEN 1 ELSE 2
MCValues == {v1, v2}
=============================================================================
