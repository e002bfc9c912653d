--------------------------- MODULE Synchronization ---------------------------
(***************************************************************************)
(* Store::sync(), one rule per store.  A sync answers whether it succeeded *)
(* and what it wrote, as <<address, content>> pairs.  `lends` is memory as *)
(* the borrower left it: the content of each address that was lent.        *)
(***************************************************************************)
EXTENDS ExclusiveConversion

CONSTANTS
  Assign(_, _, _), \* a node with contents stored in it
  Lends(_),        \* the content of every place a node lends exclusively
  Vacated(_)       \* what encoding into a store left in the places it took values from

Synced(ok, writes) == [ok |-> ok, writes |-> writes]
Written(rs) == UNION {rs[i].writes : i \in DOMAIN rs}
AllSynced(rs) == \A i \in DOMAIN rs : rs[i].ok

(* The node with the given contents stored in it, and where they may go. *)
PointsAway == {"ref", "mut", "box"}
ChildAt(n, at, i) == IF n.x \in PointsAway THEN n.a
                     ELSE Append(IF n.x = "vec" THEN n.a ELSE at, i)

AssignRule(n, at, writes) ==
  IF \E x \in writes : x[1] = at /\ at # NoAddr
  THEN (CHOOSE x \in writes : x[1] = at)[2]
  ELSE [n EXCEPT !.s = [i \in DOMAIN @ |-> Assign(@[i], ChildAt(n, at, i), writes)]]

LendsRule(n) == (IF n.x = "mut" THEN {<<n.a, n.s[1]>>} ELSE {})
            \cup UNION {Lends(n.s[i]) : i \in DOMAIN n.s}

(* What the borrower left in a store's content. *)
Content(st, lends) == IF \E x \in lends : x[1] = st.at
                      THEN (CHOOSE x \in lends : x[1] = st.at)[2] ELSE st.c

(* What encoding left in the places it moved values out of. *)
VacatedRule(st) == (IF st.k = "mut" THEN {<<st.to, st.left>>} ELSE {})
               \cup UNION {Vacated(st.s[i]) : i \in DOMAIN st.s}

-----------------------------------------------------------------------------
EmptySync == Synced(TRUE, {})

BoxSync(r) == r

(* A boxed slice or an array of stores visits every one of them ... *)
BoxedSliceSync(rs) == Synced(AllSynced(rs), Written(rs))

ArraySync(rs) == Synced(AllSynced(rs), Written(rs))

(* ... a tuple stops at the first that fails. *)
(* Mutant: a tuple visits every member. *)
TupleSyncAll(rs) == Synced(AllSynced(rs), Written(rs))

TupleSync(rs) ==
  Synced(AllSynced(rs), UNION {rs[i].writes : i \in {j \in DOMAIN rs : \A k \in 1..(j - 1) : rs[k].ok}})

OptionSync(r) == r

(* The store of a shared view ignores what it retains. *)
ViewEncodeSync == EmptySync

ViewDecodeSync == EmptySync

(* A store that holds nothing to restore does not synchronize. *)
UnarmedSync == Synced(FALSE, {})

(* The carrier is decoded and the fields synchronized; the original is      *)
(* assigned when both succeed.                                              *)
SizedEncodeSync(st, decoded, fields) ==
  IF decoded.ok /\ fields.ok THEN Synced(TRUE, fields.writes \cup {<<st.to, decoded.n>>})
  ELSE Synced(FALSE, fields.writes)

(* A value decoded whole is encoded over its source after its fields. *)
(* Mutant: only the fields are written back. *)
WholeDecodeDropped(st, encoded, fields) == Synced(fields.ok, fields.writes)

WholeDecodeSync(st, encoded, fields) ==
  IF fields.ok THEN Synced(TRUE, fields.writes \cup {<<st.to, encoded.n>>})
  ELSE Synced(FALSE, fields.writes)

(* The buffer is copied back to the elements, whose stores follow: `fields` *)
(* answers for them once they hold `CopiedBack`.                            *)
CopiedBack(st, lends) ==
  LET lent == Content(st, lends).s
      elements == IF DOMAIN lent = DOMAIN st.to THEN lent ELSE st.c.s  \* a header was replaced
  IN {<<st.to[i], elements[i]>> : i \in DOMAIN st.to}

WideEncodeSync(back, fields) == Synced(fields.ok, back \cup fields.writes)

ElementsDecodeSync(back, fields) == Synced(fields.ok, back \cup fields.writes)

(* A replaced vector header is refused, after the elements were restored. *)
HeaderEncodeSync(st, lends, wide) ==
  LET header == Content(st, lends)
  IN Synced(wide.ok /\ header.x = st.c.x /\ header.a = st.c.a, wide.writes)
=============================================================================
