-------------------------- MODULE SharedConversion --------------------------
(***************************************************************************)
(* EncodeRef, EncodeRefUnchecked and DecodeRef: a shared borrow of a value *)
(* whose layout is not its carrier's.  Encoding builds a view in the       *)
(* caller's store at address `p`: headers are copied, pointees stay where  *)
(* they are.  Decoding clones every value it reaches into the callee's     *)
(* store.  `r` and `rs` are what the borrows of the components answered.   *)
(***************************************************************************)
EXTENDS Carriers

(* encode_ref_field reads the carrier the component's borrow points at. *)
EncodeRefField(r) == r.n.s[1]

EncodeRefFieldUnchecked(r) == r.n.s[1]

(* RefSizedEncodeStore::encode retains the header and lends its address. *)
LendHeader(p, header) == Answer(Node("ref", Home(p), <<header>>), {}, {}, Within("view", <<>>))

(* The header points at what the borrow of the pointee points at. *)
BoxView(p, r) == LendHeader(p, Node("box", r.n.a, r.n.s))

BoxViewUnchecked(p, r) == LendHeader(p, Node("box", r.n.a, r.n.s))

WideBoxView(p, r) == LendHeader(p, Node("vec", r.n.a, r.n.s[1].s))

WideBoxViewUnchecked(p, r) == LendHeader(p, Node("vec", r.n.a, r.n.s[1].s))

(* The elements of a Stable vector are lent in place ... *)
StableVecView(v, p) == LendHeader(p, v)

StableVecViewUnchecked(v, p) == LendHeader(p, v)

(* ... the others as a new buffer of carriers the store keeps. *)
EncodeVecView(v, p, rs) == Node(v.x, Buffer(p), [i \in DOMAIN rs |-> EncodeRefField(rs[i])])

EncodeVecViewUnchecked(v, p, rs) ==
  Node(v.x, Buffer(p), [i \in DOMAIN rs |-> EncodeRefFieldUnchecked(rs[i])])

VecView(v, p, rs) == LendHeader(p, EncodeVecView(v, p, rs))

VecViewUnchecked(v, p, rs) == LendHeader(p, EncodeVecViewUnchecked(v, p, rs))

OptionView(v, p, r) ==
  LendHeader(p, IF v.x = "None" THEN Zeroed ELSE Node("1", NoAddr, <<EncodeRefField(r)>>))

OptionViewUnchecked(v, p, r) ==
  LendHeader(p, IF v.x = "None" THEN Zeroed
                ELSE Node("1", NoAddr, <<EncodeRefFieldUnchecked(r)>>))

NicheOptionView(t, v, p, r) ==
  LendHeader(p, IF v.x = "None" THEN NicheOf(Elem(t)) ELSE EncodeRefField(r))

NicheOptionViewUnchecked(t, v, p, r) ==
  LendHeader(p, IF v.x = "None" THEN NicheOf(Elem(t)) ELSE EncodeRefFieldUnchecked(r))

ResultView(v, p, r) ==
  LendHeader(p, Node(IF ErrSide(v) THEN "1" ELSE "0", NoAddr, <<EncodeRefField(r)>>))

ResultViewUnchecked(v, p, r) ==
  LendHeader(p, Node(IF ErrSide(v) THEN "1" ELSE "0", NoAddr, <<EncodeRefFieldUnchecked(r)>>))

OkNicheResultView(t, v, p, r) ==
  LendHeader(p, IF ErrSide(v) THEN NicheOf(t.s[1]) ELSE EncodeRefField(r))

OkNicheResultViewUnchecked(t, v, p, r) ==
  LendHeader(p, IF ErrSide(v) THEN NicheOf(t.s[1]) ELSE EncodeRefFieldUnchecked(r))

ErrNicheResultView(t, v, p, r) ==
  LendHeader(p, IF ErrSide(v) THEN EncodeRefField(r) ELSE NicheOf(t.s[2]))

ErrNicheResultViewUnchecked(t, v, p, r) ==
  LendHeader(p, IF ErrSide(v) THEN EncodeRefFieldUnchecked(r) ELSE NicheOf(t.s[2]))

(* The wrapper's carrier is the content's: only the pointer is cast. *)
ManualView(r) == r

ManualViewUnchecked(r) == r

TupleView(p, rs) ==
  LendHeader(p, Compound([i \in DOMAIN rs |-> EncodeRefField(rs[i])]))

TupleViewUnchecked(p, rs) ==
  LendHeader(p, Compound([i \in DOMAIN rs |-> EncodeRefFieldUnchecked(rs[i])]))

ArrayView(p, rs) ==
  LendHeader(p, Compound([i \in DOMAIN rs |-> EncodeRefField(rs[i])]))

ArrayViewUnchecked(p, rs) ==
  LendHeader(p, Compound([i \in DOMAIN rs |-> EncodeRefFieldUnchecked(rs[i])]))

SliceView(p, rs) ==
  LendHeader(p, Compound([i \in DOMAIN rs |-> EncodeRefField(rs[i])]))

SliceViewUnchecked(p, rs) ==
  LendHeader(p, Compound([i \in DOMAIN rs |-> EncodeRefFieldUnchecked(rs[i])]))

(* A borrow of a reference copies the reference, converted, into the store; *)
(* of an exclusive reference it gives shared access only.                   *)
NestedRefView(p, r) == LendHeader(p, r.n)

NestedRefViewUnchecked(p, r) == LendHeader(p, r.n)

NestedMutView(p, r) == LendHeader(p, r.n)

NestedMutViewUnchecked(p, r) == LendHeader(p, r.n)

-----------------------------------------------------------------------------
(* RefSizedDecodeStore::decode keeps the value, the store of the components *)
(* what they decoded to; both live until the store is dropped.              *)
Retain(t, v, p, rs) ==
  LET mine == CloneAt(t, v, p)
  IN Answer(Node("ref", Home(p), <<mine>>), OwnedBy(t, mine) \cup News(rs), {}, Within("view", <<>>))

Held(r) == r.n.s[1]

(* A component that is refused leaves what its siblings decoded in the store. *)
Failed(rs) == Refused(News(rs), {})

RetainWith(t, v, p, r) == IF r.ok THEN Retain(t, v, p, <<r>>) ELSE Failed(<<r>>)

(* A wrong header, or a refused component: None. *)
DecodeBoxView(t, p, w, r) ==
  IF w.a = NoAddr THEN Refused({}, {}) ELSE RetainWith(t, Node("box", Buffer(p), <<Held(r)>>), p, r)

DecodeWideBoxView(t, p, w, r) ==
  IF w.a = NoAddr THEN Refused({}, {}) ELSE RetainWith(t, Node("vec", Buffer(p), Held(r).s), p, r)

DecodeTaggedOption(t, p, w, r) ==
  CASE w.a # NoAddr /\ w.s[1].x = "0" -> Retain(t, NoneV, p, <<>>)
    [] w.a # NoAddr /\ w.s[1].x = "1" -> RetainWith(t, SomeV(Held(r)), p, r)
    [] OTHER -> Refused({}, {})

DecodeNicheOption(t, p, w, r) ==
  CASE w.a = NoAddr -> Refused({}, {})
    [] w.a # NoAddr /\ IsNiche(Elem(t), w.s[1]) -> Retain(t, NoneV, p, <<>>)
    [] OTHER -> RetainWith(t, SomeV(Held(r)), p, r)

DecodeTaggedResult(t, p, w, r) ==
  CASE w.a # NoAddr /\ w.s[1].x = "0" -> RetainWith(t, OkV(Held(r)), p, r)
    [] w.a # NoAddr /\ w.s[1].x = "1" -> RetainWith(t, ErrV(Held(r)), p, r)
    [] OTHER -> Refused({}, {})

DecodeOkNicheResult(t, p, w, r) ==
  CASE w.a = NoAddr -> Refused({}, {})
    [] w.a # NoAddr /\ IsNiche(t.s[1], w.s[1]) -> Retain(t, ErrV(UnitV), p, <<>>)
    [] OTHER -> RetainWith(t, OkV(Held(r)), p, r)

DecodeErrNicheResult(t, p, w, r) ==
  CASE w.a = NoAddr -> Refused({}, {})
    [] w.a # NoAddr /\ IsNiche(t.s[2], w.s[1]) -> Retain(t, OkV(UnitV), p, <<>>)
    [] OTHER -> RetainWith(t, ErrV(Held(r)), p, r)

DecodeCOption(t, p, w, r) ==
  CASE w.a # NoAddr /\ w.s[1].x = "0" -> Retain(t, Zeroed, p, <<>>)
    [] w.a # NoAddr /\ w.s[1].x = "1" -> RetainWith(t, Node("1", NoAddr, <<Held(r)>>), p, r)
    [] OTHER -> Refused({}, {})

DecodeCResult(t, p, w, r) ==
  IF w.a # NoAddr /\ w.s[1].x \in {"0", "1"}
  THEN RetainWith(t, Node(w.s[1].x, NoAddr, <<Held(r)>>), p, r)
  ELSE Refused({}, {})

(* The components up to and including the first that is refused. *)
UpToFailure(rs) == {i \in DOMAIN rs : \A j \in 1..(i - 1) : rs[j].ok}
AllOk(rs) == \A i \in DOMAIN rs : rs[i].ok

FailedAt(rs) == Refused(UNION {rs[i].new : i \in UpToFailure(rs)}, {})

DecodeSliceView(t, p, w, rs) ==
  IF w.a = NoAddr THEN Refused({}, {})
  ELSE IF AllOk(rs) THEN Retain(t, Compound([i \in DOMAIN rs |-> Held(rs[i])]), p, rs)
       ELSE FailedAt(rs)

(* A vector's header must name a buffer and no length above its capacity. *)
GoodHeader(w) == w.a # NoAddr /\ w.s[1].a # NoAddr /\ w.s[1].x # "bad"

DecodeVecView(t, p, w, rs) ==
  IF ~GoodHeader(w) THEN Refused({}, {})
  ELSE IF AllOk(rs)
       THEN Retain(t, Node("vec", Buffer(p), [i \in DOMAIN rs |-> Held(rs[i])]), p, rs)
       ELSE FailedAt(rs)

(* An array decodes all its elements before it looks for a refused one. *)
DecodeArrayView(t, p, w, rs) ==
  IF w.a = NoAddr THEN Refused({}, {})
  ELSE IF AllOk(rs) THEN Retain(t, Compound([i \in DOMAIN rs |-> Held(rs[i])]), p, rs)
       ELSE Failed(rs)

(* A tuple stops at the first member that is refused. *)
DecodeTupleView(t, p, w, rs) ==
  IF w.a = NoAddr THEN Refused({}, {})
  ELSE IF AllOk(rs) THEN Retain(t, Compound([i \in DOMAIN rs |-> Held(rs[i])]), p, rs)
       ELSE FailedAt(rs)

DecodeManualView(r) == r

(* The reference found behind the borrow is decoded and kept. *)
DecodeNestedRef(p, w, r) ==
  IF w.a = NoAddr THEN Refused({}, {})
  ELSE IF r.ok THEN Answer(Node("ref", Home(p), <<r.n>>), r.new, r.old, r.st) ELSE Refused(r.new, {})
=============================================================================
