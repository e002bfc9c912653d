------------------------ MODULE ExclusiveConversion ------------------------
(***************************************************************************)
(* EncodeMut, DecodeMut and Store::sync: an exclusive borrow whose         *)
(* referent is not its carrier.  The store keeps the converted referent    *)
(* while it is lent; sync() converts it back.  Both sides do the same in   *)
(* opposite directions: the caller keeps a carrier and restores a value,   *)
(* the callee keeps a value and restores a carrier.                        *)
(*                                                                         *)
(* A store of one referent is armed with the address `at` of what it lends,*)
(* what it lent, and the address `to` of where it came from.  A store of   *)
(* elements gathered in one buffer at `at` remembers where each came from. *)
(***************************************************************************)
EXTENDS Carriers

Armed(t, at, to, c, left, st) ==
  [k |-> "mut", s |-> <<st>>, t |-> t, at |-> at, to |-> to, c |-> c, left |-> left]
Gathered(k, sts, at, to, c) == [k |-> k, s |-> sts, at |-> at, to |-> to, c |-> c]

(* What core::mem::take leaves behind: Default::default(). *)
DefaultOf(t, p) == CASE t.k = "box" -> Node("box", p, <<IF Elem(t).k = "opt" THEN NoneV ELSE Zeroed>>)
                     [] t.k = "slice" -> Node("vec", p, <<>>)
                     [] t.k = "copt" -> Zeroed

(* A robust Stable referent is lent in place. *)
DirectMut(v) == Kept(v)

(* Any other is converted into the store: a copy of it, or itself with a *)
(* default value left in its place.                                        *)
CopyMut(t, v, p, r) ==
  Answer(Node("mut", Home(p), <<r.n>>), r.new, r.old, Armed(t, Home(p), v.a, r.n, v.s[1], r.st))

MoveOutMut(t, v, p, r) ==
  Answer(Node("mut", Home(p), <<r.n>>), r.new, r.old,
         Armed(t, Home(p), v.a, r.n, DefaultOf(t, Append(p, 7)), r.st))

ManualMut(r) == r

CellMut(r) == r

(* Slices, arrays and vectors borrow each element and gather its carrier. *)
ElementCarriers(rs) == [i \in DOMAIN rs |-> rs[i].n.s[1]]
ElementPlaces(rs) == [i \in DOMAIN rs |-> rs[i].n.a]

LendBuffer(k, p, rs, buffer) ==
  Answer(Node("mut", Home(p), <<buffer>>), News(rs), Olds(rs),
         Gathered(k, Stores(rs), Home(p), ElementPlaces(rs), buffer))

SliceMut(p, rs) == LendBuffer("wide", p, rs, Compound(ElementCarriers(rs)))

SliceMutUnchecked(p, rs) == LendBuffer("wide", p, rs, Compound(ElementCarriers(rs)))

ArrayMut(p, rs) == LendBuffer("wide", p, rs, Compound(ElementCarriers(rs)))

ArrayMutUnchecked(p, rs) == LendBuffer("wide", p, rs, Compound(ElementCarriers(rs)))

(* The vector stays alive; the store lends a header over its own buffer. *)
VecMut(p, rs) == LendBuffer("header", p, rs, Node("vec", Buffer(p), ElementCarriers(rs)))

VecMutUnchecked(p, rs) == LendBuffer("header", p, rs, Node("vec", Buffer(p), ElementCarriers(rs)))

-----------------------------------------------------------------------------
(* Decoding lends Rust the decoded value, kept in the store at `p`. *)
KeepValue(t, p, w, n, st) ==
  Answer(Node("mut", Home(p), <<n>>), {}, {}, Armed(t, Home(p), w.a, n, n, st))

(* Options, results, arrays and tuples are decoded whole from a copy of the *)
(* carrier; a null pointer or a refused component is refused.               *)
DecodeOptionMut(t, p, w, r) ==
  IF w.a = NoAddr \/ ~r.ok THEN Refused({}, {}) ELSE KeepValue(t, p, w, r.n, r.st)

DecodeNicheOptionMut(t, p, w, r) ==
  IF w.a = NoAddr \/ ~r.ok THEN Refused({}, {}) ELSE KeepValue(t, p, w, r.n, r.st)

DecodeResultMut(t, p, w, r) ==
  IF w.a = NoAddr \/ ~r.ok THEN Refused({}, {}) ELSE KeepValue(t, p, w, r.n, r.st)

DecodeOkNicheMut(t, p, w, r) ==
  IF w.a = NoAddr \/ ~r.ok THEN Refused({}, {}) ELSE KeepValue(t, p, w, r.n, r.st)

DecodeErrNicheMut(t, p, w, r) ==
  IF w.a = NoAddr \/ ~r.ok THEN Refused({}, {}) ELSE KeepValue(t, p, w, r.n, r.st)

DecodeTupleMut(t, p, w, r) ==
  IF w.a = NoAddr \/ ~r.ok THEN Refused({}, {}) ELSE KeepValue(t, p, w, r.n, r.st)

DecodeArrayMut(t, p, w, r) ==
  IF w.a = NoAddr \/ ~r.ok THEN Refused({}, {}) ELSE KeepValue(t, p, w, r.n, r.st)

(* A box, a boxed slice or a vector is cloned, its elements decoded through *)
(* their own borrows, to which the values are assigned again.               *)
CloneElements(p, x, rs) ==
  LendBuffer("wide", p, rs, Node(x, Buffer(p), ElementCarriers(rs)))

AnyRefused(rs) == \E i \in DOMAIN rs : ~rs[i].ok

DecodeBoxMut(p, w, rs) ==
  IF w.a = NoAddr \/ AnyRefused(rs) THEN Refused({}, {}) ELSE CloneElements(p, "box", rs)

DecodeBoxedSliceMut(p, w, rs) ==
  IF w.a = NoAddr \/ w.s[1].a = NoAddr \/ AnyRefused(rs) THEN Refused({}, {})
  ELSE CloneElements(p, "vec", rs)

DecodeVecMut(p, w, rs) ==
  IF w.a = NoAddr \/ w.s[1].a = NoAddr \/ w.s[1].x = "bad" \/ AnyRefused(rs) THEN Refused({}, {})
  ELSE CloneElements(p, "vec", rs)

(* A slice is decoded whole from copies of its elements. *)
DecodeSliceMut(t, p, w, rs) ==
  IF w.a = NoAddr \/ AnyRefused(rs) THEN Refused({}, {})
  ELSE KeepValue(t, p, w, Compound(Nodes(rs)), Within("seq", Stores(rs)))

DecodeManualMut(r) == r

DecodeCellMut(r) == r

=============================================================================
