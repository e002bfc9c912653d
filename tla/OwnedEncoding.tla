--------------------------- MODULE OwnedEncoding ---------------------------
(***************************************************************************)
(* EncodeMove and EncodeMoveUnchecked, one rule per implementation.  A     *)
(* rule is given the value `v`, a fresh address `p` for what it allocates, *)
(* and what encoding the components answered: `r`, or the sequence `rs`.   *)
(***************************************************************************)
EXTENDS Carriers

(* An integer, a bool or a NonZero is its own carrier. *)
IntEncode(v) == Kept(v)

BoolEncode(v) == Kept(v)

NonZeroEncode(v) == Kept(v)

UnitEncode(v) == Kept(v)

(* A reference to a Stable referent is sent as the pointer it is ... *)
RefStableUnchecked(v) == Kept(v)

RefWideUnchecked(v) == Kept(v)

(* ... one to an Unstable referent as the view encode_ref built. *)
RefUnstableUnchecked(v, r) == r

RefStable(v) == RefStableUnchecked(v)

RefWide(v) == RefWideUnchecked(v)

RefUnstable(v, r) == r

MutStableUnchecked(v) == Kept(v)

MutWideUnchecked(v) == Kept(v)

MutUnstableUnchecked(v, r) == r

(* The checked encoding lends the place itself only when the referent is    *)
(* robust; a referent with invalid bit patterns goes through a store.       *)
MutRobust(v) == MutStableUnchecked(v)

MutRobustWide(v) == MutWideUnchecked(v)

MutNonRobust(v, r) == r

MutNonRobustWide(v, r) == r

MutUnstable(v, r) == r

(* A box of a Stable value gives its allocation away. *)
BoxStableUnchecked(v) == Kept(v)

BoxWideUnchecked(v) == Kept(v)

(* Any other box is emptied and freed, its carrier boxed anew. *)
BoxUnstableUnchecked(v, p, r) ==
  Answer(Node("box", Home(p), <<r.n>>), r.new \cup {Home(p)}, r.old \cup {v.a}, Within("box", <<r.st>>))

(* A boxed slice is sent as the vector it becomes. *)
BoxDstUnchecked(r) == r

BoxStableRobust(v) == BoxStableUnchecked(v)

(* The EmptyStore shortcut of this path is never taken (its FIXME). *)
(* Mutant: the box that was emptied is not freed. *)
BoxStableLeaked(v, p, r) ==
  Answer(Node("box", Home(p), <<r.n>>), r.new \cup {Home(p)}, r.old, Within("box", <<r.st>>))

BoxStableNonRobust(v, p, r) ==
  Answer(Node("box", Home(p), <<r.n>>), r.new \cup {Home(p)}, r.old \cup {v.a}, Within("box", <<r.st>>))

BoxWideRobust(v) == BoxWideUnchecked(v)

BoxWideNonRobust(r) == r

BoxUnstable(v, p, r) ==
  Answer(Node("box", Home(p), <<r.n>>), r.new \cup {Home(p)}, r.old \cup {v.a}, Within("box", <<r.st>>))

BoxDst(r) == r

EncodeBoxOwned(r) == r

(* The vector of carriers is a new allocation, whose elements each have a   *)
(* store of their own; the vector of values is freed.                       *)
EncodeVecElements(v, p, rs) ==
  Answer(Node(v.x, Home(p), Nodes(rs)), News(rs) \cup {Home(p)}, Olds(rs) \cup {v.a},
         Within("seq", Stores(rs)))

EncodeVecElementsUnchecked(v, p, rs) ==
  Answer(Node(v.x, Home(p), Nodes(rs)), News(rs) \cup {Home(p)}, Olds(rs) \cup {v.a},
         Within("seq", Stores(rs)))

VecStableUnchecked(v) == Kept(v)

VecUnstableUnchecked(v, p, rs) == EncodeVecElementsUnchecked(v, p, rs)

(* Checked, a vector goes element by element whatever its layout. *)
VecEncode(v, p, rs) == EncodeVecElements(v, p, rs)

StdVecUnchecked(r) == r

StdVecEncode(r) == r

(***************************************************************************)
(* Options and results.  A payload is encoded into a new store, so that    *)
(* nothing of an earlier payload stays in it; a variant with no payload    *)
(* empties the store, except where the code of the checked niche result    *)
(* leaves `st`, what it was given, alone.                                  *)
(***************************************************************************)
OptionTaggedUnchecked(v, r) ==
  IF v.x = "None" THEN Kept(Zeroed)
  ELSE Wrapped(r, Node("1", NoAddr, <<r.n>>), Within("opt", <<r.st>>))

OptionTagged(v, r) ==
  IF v.x = "None" THEN Kept(Zeroed)
  ELSE Wrapped(r, Node("1", NoAddr, <<r.n>>), Within("opt", <<r.st>>))

StdOptionTaggedUnchecked(v, r) == OptionTaggedUnchecked(v, r)

StdOptionTagged(v, r) == OptionTagged(v, r)

OptionNicheUnchecked(t, v, r) ==
  IF v.x = "None" THEN Kept(NicheOf(Elem(t)))
  ELSE Wrapped(r, r.n, Within("opt", <<r.st>>))

OptionNicheEncode(t, v, r) ==
  IF v.x = "None" THEN Kept(NicheOf(Elem(t)))
  ELSE Wrapped(r, r.n, Within("opt", <<r.st>>))

ResultTag(v) == IF ErrSide(v) THEN "1" ELSE "0"

(* Mutant: the tag of the other variant. *)
ResultTaggedSwapped(v, r) ==
  Wrapped(r, Node(IF ResultTag(v) = "1" THEN "0" ELSE "1", NoAddr, <<r.n>>), Within("opt", <<r.st>>))

ResultTaggedUnchecked(v, r) ==
  Wrapped(r, Node(ResultTag(v), NoAddr, <<r.n>>), Within("opt", <<r.st>>))

ResultTagged(v, r) ==
  Wrapped(r, Node(ResultTag(v), NoAddr, <<r.n>>), Within("opt", <<r.st>>))

StdResultTaggedUnchecked(v, r) == ResultTaggedUnchecked(v, r)

StdResultTagged(v, r) == ResultTagged(v, r)

ResultOkNicheUnchecked(t, v, r) ==
  IF v.x = "Err" THEN Kept(NicheOf(t.s[1])) ELSE Wrapped(r, r.n, Within("opt", <<r.st>>))

ResultErrNicheUnchecked(t, v, r) ==
  IF v.x = "Ok" THEN Kept(NicheOf(t.s[2])) ELSE Wrapped(r, r.n, Within("opt", <<r.st>>))

ResultOkNiche(t, v, r, st) ==
  IF v.x = "Err" THEN Answer(NicheOf(t.s[1]), {}, {}, st)
  ELSE Wrapped(r, r.n, Within("opt", <<r.st>>))

(* Mutant: a store that is there is kept. *)
ResultErrNicheStale(t, v, r, st) ==
  IF v.x = "Ok" THEN Answer(NicheOf(t.s[2]), {}, {}, st)
  ELSE Wrapped(r, r.n, IF st = NoStore THEN Within("opt", <<r.st>>) ELSE st)

ResultErrNiche(t, v, r, st) ==
  IF v.x = "Ok" THEN Answer(NicheOf(t.s[2]), {}, {}, st)
  ELSE Wrapped(r, r.n, Within("opt", <<r.st>>))

-----------------------------------------------------------------------------
(* ManuallyDrop and the cells wrap the carrier of what they hold. *)
ManualStableUnchecked(v) == Kept(v)

ManualUnchecked(r) == r

ManualEncode(r) == r

UnsafeCellUnchecked(v, r, stable) == IF stable THEN Kept(v) ELSE r

CellUnchecked(v, r, stable) == IF stable THEN Kept(v) ELSE r

UnsafeCellEncode(v, r, robust) == IF robust THEN Kept(v) ELSE r

CellEncode(v, r, robust) == IF robust THEN Kept(v) ELSE r

(* An array encodes its elements in order, each with its own store. *)
EncodeArrayElements(rs) ==
  Answer(Compound(Nodes(rs)), News(rs), Olds(rs), Within("seq", Stores(rs)))

EncodeUncheckedArrayElements(rs) ==
  Answer(Compound(Nodes(rs)), News(rs), Olds(rs), Within("seq", Stores(rs)))

ArrayUnchecked(v, rs, stable) ==
  IF stable THEN Kept(v) ELSE EncodeUncheckedArrayElements(rs)

ArrayEncode(rs) == EncodeArrayElements(rs)

TupleUnchecked(rs) ==
  Answer(Compound(Nodes(rs)), News(rs), Olds(rs), Within("tup", Stores(rs)))

TupleEncode(rs) ==
  Answer(Compound(Nodes(rs)), News(rs), Olds(rs), Within("tup", Stores(rs)))
=============================================================================
