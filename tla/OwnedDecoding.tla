--------------------------- MODULE OwnedDecoding ---------------------------
(***************************************************************************)
(* DecodeMove, one rule per implementation: the carrier `w` has been given *)
(* to the decoder, which answers a value that owns everything the carrier  *)
(* owned, or None.  A carrier has no Drop: an allocation that is neither   *)
(* in the value nor freed here is lost.  What was decoded before or beside *)
(* a refused component is dropped with it.                                 *)
(***************************************************************************)
EXTENDS Carriers

Fails(rs) == ~\A i \in DOMAIN rs : rs[i].ok

(* What dropping the components that did decode frees. *)
DroppedParts(t, w, rs, I) == UNION {OwnedBy(Part(t, w, i), rs[i].n) : i \in {j \in I : rs[j].ok}}

(* Every component is visited, then the whole is refused if one was. *)
RefuseVisited(t, w, rs, old) ==
  Refused(News(rs), old \cup Olds(rs) \cup DroppedParts(t, w, rs, DOMAIN rs))

(* Components after the first that is refused are never looked at. *)
Visited(rs) == {i \in DOMAIN rs : \A j \in 1..(i - 1) : rs[j].ok}

RefuseAtFirst(t, w, rs) ==
  Refused(UNION {rs[i].new : i \in Visited(rs)},
          (UNION {rs[i].old : i \in Visited(rs)}) \cup DroppedParts(t, w, rs, Visited(rs)))

IntDecode(w) == Kept(w)

UnitDecode(w) == Kept(w)

(* Mutant: every byte but a few is taken for a bool. *)
BoolDecodeLoose(w) == IF w.x # "3" THEN Kept(w) ELSE Refused({}, {})

BoolDecode(w) == IF w.x \in {"0", "1"} THEN Kept(w) ELSE Refused({}, {})

NonZeroDecode(w) == IF w.x # "0" THEN Kept(w) ELSE Refused({}, {})

(* A reference to a Stable referent is the pointer itself, once validated. *)
RefStableDecode(t, w) == IF IsValid(t, w) THEN Kept(w) ELSE Refused({}, {})

RefWideDecode(t, w) == IF IsValid(t, w) THEN Kept(w) ELSE Refused({}, {})

MutStableDecode(t, w) == IF IsValid(t, w) THEN Kept(w) ELSE Refused({}, {})

MutWideDecode(t, w) == IF IsValid(t, w) THEN Kept(w) ELSE Refused({}, {})

RefUnstableDecode(r) == r

MutUnstableDecode(r) == r

(* A box of a Stable value takes the allocation over; refused, it is left. *)
BoxStableDecode(t, w) == IF IsValid(t, w) THEN Kept(w) ELSE Refused({}, {})

(* A refused boxed slice is reclaimed as a slice of carriers. *)
BoxWideDecode(t, w) ==
  IF w.a = NoAddr THEN Refused({}, {})
  ELSE IF \A i \in DOMAIN w.s : IsValid(Elem(t), w.s[i]) THEN Kept(w) ELSE Refused({}, {w.a})

(* The carrier's box is freed before its content is decoded. *)
BoxUnstableDecode(w, p, r) ==
  IF w.a = NoAddr THEN Refused({}, {})
  ELSE IF r.ok THEN Answer(Node("box", Home(p), <<r.n>>), r.new \cup {Home(p)}, r.old \cup {w.a},
                           Within("box", <<r.st>>))
       ELSE Refused(r.new, r.old \cup {w.a})

DecodeBoxOwned(w, r) == IF w.a = NoAddr THEN Refused({}, {}) ELSE r

BoxDstDecode(w, r) == DecodeBoxOwned(w, r)

DecodeVecElements(t, w, p, rs) ==
  IF Fails(rs) THEN RefuseVisited(t, w, rs, {w.a})
  ELSE Answer(Node(w.x, Home(p), Nodes(rs)), News(rs) \cup {Home(p)}, Olds(rs) \cup {w.a},
              Within("seq", Stores(rs)))

(* CVec::into_vec: nothing to own behind a null pointer or a bad length. *)
IntoVec(w) == w.a # NoAddr /\ w.x # "bad"

(* Refused by validation, the buffer is reclaimed where its header allows. *)
(* Mutant: the refused buffer is forgotten. *)
VecStableForgotten(t, w) == IF IsValid(t, w) THEN Kept(w) ELSE Refused({}, {})

VecStableDecode(t, w) ==
  IF IsValid(t, w) THEN Kept(w) ELSE Refused({}, IF IntoVec(w) THEN {w.a} ELSE {})

VecUnstableDecode(t, w, p, rs) ==
  IF IntoVec(w) THEN DecodeVecElements(t, w, p, rs) ELSE Refused({}, {})

StdVecDecode(r) == r

OptionTaggedDecode(w, r) ==
  CASE w.x = "0" -> Kept(NoneV)
    [] w.x = "1" -> Wrapped(r, SomeV(r.n), Within("opt", <<r.st>>))
    [] OTHER -> Refused({}, {})

(* co3's own Option and Result are Stable: their value is their carrier. *)
COptionDecode(w, r) ==
  CASE w.x = "0" -> Kept(w)
    [] w.x = "1" -> Wrapped(r, Node("1", NoAddr, <<r.n>>), Within("opt", <<r.st>>))
    [] OTHER -> Refused({}, {})

OptionNicheDecode(t, w, r) ==
  IF IsNiche(Elem(t), w) THEN Kept(NoneV) ELSE Wrapped(r, SomeV(r.n), Within("opt", <<r.st>>))

ResultTaggedDecode(w, r) ==
  CASE w.x = "0" -> Wrapped(r, OkV(r.n), Within("opt", <<r.st>>))
    [] w.x = "1" -> Wrapped(r, ErrV(r.n), Within("opt", <<r.st>>))
    [] OTHER -> Refused({}, {})

CResultDecode(w, r) ==
  IF w.x \in {"0", "1"} THEN Wrapped(r, Node(w.x, NoAddr, <<r.n>>), Within("opt", <<r.st>>))
  ELSE Refused({}, {})

(* The niche result keeps its payload's store directly, with no Option       *)
(* around it: on the niche the store is the one it was given, `st`.          *)
OkNicheDecode(t, w, r, st) ==
  IF IsNiche(t.s[1], w) THEN Answer(ErrV(UnitV), {}, {}, st) ELSE Wrapped(r, OkV(r.n), r.st)

ErrNicheDecode(t, w, r, st) ==
  IF IsNiche(t.s[2], w) THEN Answer(OkV(UnitV), {}, {}, st) ELSE Wrapped(r, ErrV(r.n), r.st)

ManualDecode(r) == r

UnsafeCellDecode(w, r, robust) == IF robust THEN Kept(w) ELSE r

CellDecode(w, r, robust) == IF robust THEN Kept(w) ELSE r

(* Every element is decoded before a refused one is looked for. *)
DecodeArrayElements(t, w, rs) ==
  IF Fails(rs) THEN RefuseVisited(t, w, rs, {})
  ELSE Answer(Compound(Nodes(rs)), News(rs), Olds(rs), Within("seq", Stores(rs)))

ArrayDecode(t, w, rs, robust) == IF robust THEN Kept(w) ELSE DecodeArrayElements(t, w, rs)

TupleDecode(t, w, rs) ==
  IF Fails(rs) THEN RefuseAtFirst(t, w, rs)
  ELSE Answer(Compound(Nodes(rs)), News(rs), Olds(rs), Within("tup", Stores(rs)))
=============================================================================
