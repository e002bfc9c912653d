------------------------------ MODULE MCDispatch ------------------------------
(* Dispatch for TLC: two parameters of one tag type, which a swapped order  *)
(* would confuse, and one of another; `use<P, Q> @ (<a, b> | <b, a>)` and   *)
(* `use<R> @ (<c> | <d>)`, as in the dispatch_functions test.  The caller   *)
(* has instantiations the export does not: of a type with an unknown tag,   *)
(* and of one whose tag is no valid value of the export's tag type.         *)
EXTENDS Dispatch

CONSTANTS P, Q, R, ta, tb, tc, td, te, tf

MCTypes == {ta, tb, tc, td, te, tf}
MCKind == [p \in {P, Q, R} |-> IF p = R THEN "u32" ELSE "u8"]
MCFamily == [t \in MCTypes |-> IF t \in {ta, tb, tf} THEN "u8" ELSE "u32"]
MCTag == [t \in MCTypes |-> CASE t \in {ta, tc} -> 1 [] t \in {tb, td} -> 2 [] t = tf -> 3 [] t = te -> 4]
MCReadable == {1, 2, 3}
MCGroups == {{P, Q}, {R}}
MCTargets(g) ==
  IF R \in g THEN [{R} -> {tc, td}]
  ELSE {f \in [{P, Q} -> {ta, tb}] : f[P] # f[Q]}
MCImportArms == {a \in [{P, Q, R} -> MCTypes] : \A p \in {P, Q, R} : MCFamily[a[p]] = MCKind[p]}

ImplR == <<R>>
FnPQ == <<P, Q>>
NoTags == <<>>
TagR == <<R>>
Alphabetical == [p \in {P, Q, R} |-> CASE p = P -> 1 [] p = Q -> 2 [] p = R -> 3]
Renamed == [p \in {P, Q, R} |-> CASE p = Q -> 5 [] p = P -> 4 [] p = R -> 0]
Swapped == [p \in {P, Q, R} |-> CASE p = Q -> 1 [] p = P -> 2 [] p = R -> 3]
FnPQR == <<P, Q, R>>
=============================================================================
