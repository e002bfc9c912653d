----------------------------- MODULE Conversion -----------------------------
(***************************************************************************)
(* One value crossing the boundary, by the rules of the modules above: the *)
(* caller encodes it, the callee decodes it, edits what it may, and both   *)
(* synchronize.  Either side may be foreign code, which follows no rule:   *)
(* as the caller it sends any carrier of the right shape, as the callee it *)
(* leaves any in the places lent to it.                                    *)
(***************************************************************************)
EXTENDS OwnedEncoding, Shapes, Synchronization, FiniteSets

CONSTANTS
  Types,               \* the types exchanged
  Encode(_, _, _, _, _), Share(_, _, _, _), Lend(_, _, _, _),
  Decode(_, _, _, _), View(_, _, _), Borrowed(_, _, _),
  DefaultDecodeStore(_),
  SyncEncode(_, _), SyncDecode(_, _)

(* A reference to component i of the pointee of `w`, of the same kind. *)
Reborrow(w, i) == Node(w.x, ChildAt(w.s[1], w.a, i), <<w.s[1].s[i]>>)
Kids(n) == DOMAIN n.s

(* A boxed slice or a vector borrowed as the slice it holds. *)
AsSlice(w) == Node(w.x, w.s[1].a, <<Compound(w.s[1].s)>>)
PointeeOf(w) == Node(w.x, w.s[1].a, w.s[1].s)

(***************************************************************************)
(* Which rule encodes a value.  `m` tells the checked functions from the   *)
(* unchecked ones, `st` is the store the value is encoded into.            *)
(***************************************************************************)

(* A component encoded into the store `s`, all of them into no store, and  *)
(* all of them into their places of the store the whole is given.          *)
EncodePart(m, t, v, p, i, s) == Encode(m, Part(t, v, i), v.s[i], Append(p, i), s)
EncodeParts(m, t, v, p) == [i \in Kids(v) |-> EncodePart(m, t, v, p, i, NoStore)]
EncodeKept(t, v, p, st) == [i \in Kids(v) |-> EncodePart("checked", t, v, p, i, Sub(st, i))]

EncodeUnchecked(t, v, p, st) ==
  LET u == Elem(t)
      first == EncodePart("unchecked", t, v, p, 1, NoStore)
      parts == EncodeParts("unchecked", t, v, p)
  IN CASE t.k = "int" -> IntEncode(v)
       [] t.k = "bool" -> BoolEncode(v)
       [] t.k = "nz" -> NonZeroEncode(v)
       [] t.k = "unit" -> UnitEncode(v)
       [] t.k = "ref" -> IF ~Stable(u) THEN RefUnstableUnchecked(v, Share("unchecked", u, v, p))
                         ELSE IF u.k = "seq" THEN RefWideUnchecked(v) ELSE RefStableUnchecked(v)
       [] t.k = "mut" -> IF ~Stable(u) THEN MutUnstableUnchecked(v, Lend("unchecked", u, v, p))
                         ELSE IF u.k = "seq" THEN MutWideUnchecked(v) ELSE MutStableUnchecked(v)
       [] t.k = "box" -> IF Stable(u) THEN BoxStableUnchecked(v) ELSE BoxUnstableUnchecked(v, p, first)
       [] t.k = "slice" -> IF Stable(u) THEN BoxWideUnchecked(v)
                           ELSE BoxDstUnchecked(VecUnstableUnchecked(v, p, parts))
       [] t.k = "vec" -> StdVecUnchecked(IF Stable(u) THEN VecStableUnchecked(v)
                                         ELSE VecUnstableUnchecked(v, p, parts))
       [] t.k = "opt" -> IF NicheOption(t) THEN OptionNicheUnchecked(t, v, first)
                         ELSE StdOptionTaggedUnchecked(v, first)
       [] t.k = "copt" -> IF v.x = "0" THEN OptionTaggedUnchecked(NoneV, v)
                          ELSE OptionTaggedUnchecked(v, first)
       [] t.k = "res" -> CASE OkNiche(t) -> ResultOkNicheUnchecked(t, v, first)
                           [] ErrNiche(t) -> ResultErrNicheUnchecked(t, v, first)
                           [] OTHER -> StdResultTaggedUnchecked(v, first)
       [] t.k = "cres" -> ResultTaggedUnchecked(v, first)
       [] t.k = "md" -> IF Stable(u) THEN ManualStableUnchecked(v)
                        ELSE ManualUnchecked(Encode("unchecked", u, v, p, st))
       [] t.k = "cell" -> CellUnchecked(v, UnsafeCellUnchecked(v, Encode("unchecked", u, v, p, st), Stable(u)),
                                        Stable(u))
       [] t.k = "arr" -> ArrayUnchecked(v, parts, Stable(u))
       [] t.k = "tup" -> TupleUnchecked(parts)
       [] t.k = "identity" -> IdentityEncode(v)
       [] t.k = "onevariant" -> OneVariantEncodeUnchecked(parts)
       [] t.k \in Structs -> StructEncodeUnchecked(parts)
       [] t.k \in DataEnums -> EnumEncodeUnchecked(t, v, parts)
       [] t.k \in Fieldless -> FieldlessEncode(t, v)
       [] t.k = "single" -> SingleEncode(v)
       [] t.k = "newtype" -> NewtypeEncodeUnchecked(Encode("unchecked", u, v, p, st))

EncodeChecked(t, v, p, st) ==
  LET u == Elem(t)
      first == EncodePart("checked", t, v, p, 1, NoStore)
      boxed == EncodePart("checked", t, v, p, 1, Sub(st, 1))
      parts == EncodeParts("checked", t, v, p)
      kept == EncodeKept(t, v, p, st)
  IN CASE t.k = "int" -> IntEncode(v)
       [] t.k = "bool" -> BoolEncode(v)
       [] t.k = "nz" -> NonZeroEncode(v)
       [] t.k = "unit" -> UnitEncode(v)
       [] t.k = "ref" -> IF ~Stable(u) THEN RefUnstable(v, Share("checked", u, v, p))
                         ELSE IF u.k = "seq" THEN RefWide(v) ELSE RefStable(v)
       [] t.k = "mut" /\ ~Stable(u) -> MutUnstable(v, Lend("checked", u, v, p))
       [] t.k = "mut" /\ Stable(u) /\ u.k = "seq" -> IF Robust(Elem(u)) THEN MutRobustWide(v)
                                                     ELSE MutNonRobustWide(v, Lend("checked", u, v, p))
       [] t.k = "mut" /\ Stable(u) /\ u.k # "seq" -> IF Robust(u) THEN MutRobust(v)
                                                     ELSE MutNonRobust(v, Lend("checked", u, v, p))
       [] t.k = "box" /\ Stable(u) -> IF Robust(u) THEN BoxStableRobust(v)
                                      ELSE BoxStableNonRobust(v, p, boxed)
       [] t.k = "box" /\ ~Stable(u) -> BoxUnstable(v, p, boxed)
       [] t.k = "slice" /\ Stable(u) -> IF Robust(u) THEN BoxWideRobust(v)
                                        ELSE BoxWideNonRobust(EncodeBoxOwned(VecEncode(v, p, parts)))
       [] t.k = "slice" /\ ~Stable(u) -> BoxDst(EncodeBoxOwned(VecEncode(v, p, parts)))
       [] t.k = "vec" -> StdVecEncode(VecEncode(v, p, parts))
       [] t.k = "opt" -> IF NicheOption(t) THEN OptionNicheEncode(t, v, first)
                         ELSE StdOptionTagged(v, first)
       [] t.k = "copt" -> IF v.x = "0" THEN OptionTagged(NoneV, v)
                          ELSE OptionTagged(v, first)
       [] t.k = "res" -> CASE OkNiche(t) -> ResultOkNiche(t, v, first, st)
                           [] ErrNiche(t) -> ResultErrNiche(t, v, first, st)
                           [] OTHER -> StdResultTagged(v, first)
       [] t.k = "cres" -> ResultTagged(v, first)
       [] t.k = "md" -> ManualEncode(Encode("checked", u, v, p, st))
       [] t.k = "cell" -> CellEncode(v, UnsafeCellEncode(v, Encode("checked", u, v, p, st), Robust(u)),
                                     Robust(u))
       [] t.k = "arr" -> ArrayEncode(kept)
       [] t.k = "tup" -> TupleEncode(kept)
       [] t.k = "identity" -> IdentityEncode(v)
       [] t.k = "onevariant" -> OneVariantEncode(kept)
       [] t.k \in Structs -> StructEncode(kept)
       [] t.k \in DataEnums -> EnumEncode(t, v, parts)
       [] t.k \in Fieldless -> FieldlessEncode(t, v)
       [] t.k = "single" -> SingleEncode(v)
       [] t.k = "newtype" -> NewtypeEncode(Encode("checked", u, v, p, st))

EncodeRule(m, t, v, p, st) ==
  IF m = "checked" THEN EncodeChecked(t, v, p, st) ELSE EncodeUnchecked(t, v, p, st)

(* EncodeRef of the referent of the borrow `b`; its components are borrowed *)
(* in place.  A component that is Stable is lent as the pointer it is.      *)
ShareUnchecked(t, b, p) ==
  LET lent(u, w, i) == Encode("unchecked", Ref(u), w, Append(p, i), NoStore)
      c(i) == lent(Part(t, b.s[1], i), Reborrow(b, i), i)
      cs == [i \in Kids(b.s[1]) |-> c(i)]
      v == b.s[1]
  IN CASE t.k = "box" -> BoxViewUnchecked(p, lent(Elem(t), PointeeOf(b), 1))
       [] t.k = "slice" -> WideBoxViewUnchecked(p, lent(SeqOf(Elem(t)), AsSlice(b), 1))
       [] t.k = "vec" /\ Stable(Elem(t)) -> StableVecViewUnchecked(v, p)
       [] t.k = "vec" /\ ~Stable(Elem(t)) -> VecViewUnchecked(v, p, cs)
       [] t.k = "opt" /\ NicheOption(t) -> NicheOptionViewUnchecked(t, v, p, c(1))
       [] t.k = "opt" /\ ~NicheOption(t) -> OptionViewUnchecked(v, p, c(1))
       [] t.k = "res" /\ OkNiche(t) -> OkNicheResultViewUnchecked(t, v, p, c(1))
       [] t.k = "res" /\ ErrNiche(t) -> ErrNicheResultViewUnchecked(t, v, p, c(1))
       [] t.k = "res" /\ ~OkNiche(t) /\ ~ErrNiche(t) -> ResultViewUnchecked(v, p, c(1))
       [] t.k = "md" -> ManualViewUnchecked(Share("unchecked", Elem(t), b, p))
       [] t.k = "tup" -> TupleViewUnchecked(p, cs)
       [] t.k \in Records -> StructView(p, cs)
       [] t.k \in DataEnums -> EnumView(t, v, p, cs)
       [] t.k = "arr" -> ArrayViewUnchecked(p, cs)
       [] t.k = "seq" -> SliceViewUnchecked(p, cs)
       [] t.k = "ref" -> NestedRefViewUnchecked(p, Encode("unchecked", t, v, Append(p, 1), NoStore))
       [] t.k = "mut" -> NestedMutViewUnchecked(p, lent(Elem(t), [v EXCEPT !.x = "ref"], 1))

ShareChecked(t, b, p) ==
  LET lent(u, w, i) == Encode("checked", Ref(u), w, Append(p, i), NoStore)
      c(i) == lent(Part(t, b.s[1], i), Reborrow(b, i), i)
      cs == [i \in Kids(b.s[1]) |-> c(i)]
      v == b.s[1]
  IN CASE t.k = "box" -> BoxView(p, lent(Elem(t), PointeeOf(b), 1))
       [] t.k = "slice" -> WideBoxView(p, lent(SeqOf(Elem(t)), AsSlice(b), 1))
       [] t.k = "vec" /\ Stable(Elem(t)) -> StableVecView(v, p)
       [] t.k = "vec" /\ ~Stable(Elem(t)) -> VecView(v, p, cs)
       [] t.k = "opt" /\ NicheOption(t) -> NicheOptionView(t, v, p, c(1))
       [] t.k = "opt" /\ ~NicheOption(t) -> OptionView(v, p, c(1))
       [] t.k = "res" /\ OkNiche(t) -> OkNicheResultView(t, v, p, c(1))
       [] t.k = "res" /\ ErrNiche(t) -> ErrNicheResultView(t, v, p, c(1))
       [] t.k = "res" /\ ~OkNiche(t) /\ ~ErrNiche(t) -> ResultView(v, p, c(1))
       [] t.k = "md" -> ManualView(Share("checked", Elem(t), b, p))
       [] t.k = "tup" -> TupleView(p, cs)
       [] t.k \in Records -> StructView(p, cs)
       [] t.k \in DataEnums -> EnumView(t, v, p, cs)
       [] t.k = "arr" -> ArrayView(p, cs)
       [] t.k = "seq" -> SliceView(p, cs)
       [] t.k = "ref" -> NestedRefView(p, Encode("checked", t, v, Append(p, 1), NoStore))
       [] t.k = "mut" -> NestedMutView(p, lent(Elem(t), [v EXCEPT !.x = "ref"], 1))

ShareRule(m, t, b, p) == IF m = "checked" THEN ShareChecked(t, b, p) ELSE ShareUnchecked(t, b, p)

(* EncodeMut of the referent of the exclusive borrow `b`. *)
LendRule(m, t, b, p) ==
  LET elements == [i \in Kids(b.s[1]) |->
                     Encode(m, Mut(Elem(t)), Reborrow(b, i), Append(p, i), NoStore)]
      whole == Encode(m, t, b.s[1], Append(p, 1), NoStore)
  IN CASE t.k \in {"int", "unit"} -> DirectMut(b)
       [] t.k \in {"bool", "nz", "opt", "res", "cres"} -> CopyMut(t, b, p, whole)
       [] t.k \in {"box", "slice", "copt"} -> MoveOutMut(t, b, p, whole)
       [] t.k = "seq" -> IF m = "checked" THEN SliceMut(p, elements) ELSE SliceMutUnchecked(p, elements)
       [] t.k = "arr" -> IF m = "checked" THEN ArrayMut(p, elements) ELSE ArrayMutUnchecked(p, elements)
       [] t.k = "vec" -> IF m = "checked" THEN VecMut(p, elements) ELSE VecMutUnchecked(p, elements)
       [] t.k = "md" -> ManualMut(Lend(m, Elem(t), b, p))
       [] t.k \in Records \cup DataEnums \cup Fieldless -> DerivedMut(t, b, p, whole)
       [] t.k = "newtype" -> NewtypeMut(Encode(m, Mut(Elem(t)), b, p, NoStore))
       [] t.k = "cell" -> CellMut(Lend(m, Elem(t), b, p))

-----------------------------------------------------------------------------
(* The store a decoder is given before anything was decoded into it. *)
DefaultDecodeStoreRule(t) ==
  CASE t.k = "mut" /\ ~Stable(Elem(t)) -> Within("unarmed", <<>>)
    [] t.k = "res" /\ OkNiche(t) -> DefaultDecodeStore(t.s[1])
    [] t.k = "res" /\ ErrNiche(t) -> DefaultDecodeStore(t.s[2])
    [] t.k \in {"tup", "arr"} \cup Records ->
         Within(IF t.k = "arr" THEN "seq" ELSE "tup", [i \in DOMAIN t.s |-> DefaultDecodeStore(t.s[i])])
    [] t.k = "box" -> Within("box", <<DefaultDecodeStore(Elem(t))>>)
    [] t.k \in Transparent -> DefaultDecodeStore(Elem(t))
    [] OTHER -> NoStore


(* A component decoded from a new store, all of them, and all of them from *)
(* the store the whole was given.                                          *)
DecodePart(t, w, p, i) == Decode(Part(t, w, i), w.s[i], Append(p, i), DefaultDecodeStore(Part(t, w, i)))
DecodeParts(t, w, p) == [i \in Kids(w) |-> DecodePart(t, w, p, i)]
DecodeKept(t, w, p, st) == [i \in Kids(w) |-> Decode(Part(t, w, i), w.s[i], Append(p, i), Sub(st, i))]

(* Which rule decodes the carrier `w`, which the decoder was given. *)
DecodeRule(t, w, p, st) ==
  LET u == Elem(t)
      first == DecodePart(t, w, p, 1)
      parts == DecodeParts(t, w, p)
      kept == DecodeKept(t, w, p, st)
  IN CASE t.k = "int" -> IntDecode(w)
       [] t.k = "bool" -> BoolDecode(w)
       [] t.k = "nz" -> NonZeroDecode(w)
       [] t.k = "unit" -> UnitDecode(w)
       [] t.k = "ref" -> IF ~Stable(u) THEN RefUnstableDecode(View(u, w, p))
                         ELSE IF u.k = "seq" THEN RefWideDecode(t, w) ELSE RefStableDecode(t, w)
       [] t.k = "mut" -> IF ~Stable(u) THEN MutUnstableDecode(Borrowed(u, w, p))
                         ELSE IF u.k = "seq" THEN MutWideDecode(t, w) ELSE MutStableDecode(t, w)
       [] t.k = "box" -> IF Stable(u) THEN BoxStableDecode(t, w)
                         ELSE BoxUnstableDecode(w, p, Decode(u, w.s[1], Append(p, 1), Sub(st, 1)))
       [] t.k = "slice" -> IF Stable(u) THEN BoxWideDecode(t, w)
                           ELSE BoxDstDecode(w, VecUnstableDecode(t, w, p, parts))
       [] t.k = "vec" -> StdVecDecode(IF Stable(u) THEN VecStableDecode(t, w)
                                      ELSE VecUnstableDecode(t, w, p, parts))
       [] t.k = "opt" -> IF NicheOption(t) THEN OptionNicheDecode(t, w, Decode(u, w, p, DefaultDecodeStore(u)))
                         ELSE OptionTaggedDecode(w, first)
       [] t.k = "copt" -> COptionDecode(w, first)
       [] t.k = "res" -> CASE OkNiche(t) -> OkNicheDecode(t, w, Decode(t.s[1], w, p, st), st)
                           [] ErrNiche(t) -> ErrNicheDecode(t, w, Decode(t.s[2], w, p, st), st)
                           [] OTHER -> ResultTaggedDecode(w, first)
       [] t.k = "cres" -> CResultDecode(w, first)
       [] t.k = "md" -> ManualDecode(Decode(u, w, p, st))
       [] t.k = "cell" -> CellDecode(w, UnsafeCellDecode(w, Decode(u, w, p, st), Robust(u)), Robust(u))
       [] t.k = "arr" -> ArrayDecode(t, w, kept, Robust(u))
       [] t.k = "tup" -> TupleDecode(t, w, kept)
       [] t.k = "identity" -> IdentityDecode(w)
       [] t.k = "onevariant" -> OneVariantDecode(t, w, kept)
       [] t.k \in Structs -> StructDecode(t, w, kept)
       [] t.k \in DataEnums -> EnumDecode(t, w, parts)
       [] t.k \in Fieldless -> FieldlessDecode(t, w)
       [] t.k = "single" -> SingleDecode(w)
       [] t.k = "newtype" -> NewtypeDecode(Decode(u, w, p, st))

(* DecodeRef of the referent of the borrow `w`. *)
ViewRule(t, w, p) ==
  LET seen(u, b, i) == Decode(Ref(u), b, Append(p, i), NoStore)
      c(i) == seen(Part(t, w.s[1], i), Reborrow(w, i), i)
      cs == [i \in Kids(w.s[1]) |-> c(i)]
  IN CASE t.k = "box" -> DecodeBoxView(t, p, w, seen(Elem(t), PointeeOf(w), 1))
       [] t.k = "slice" -> DecodeWideBoxView(t, p, w, seen(SeqOf(Elem(t)), AsSlice(w), 1))
       [] t.k = "vec" -> DecodeVecView(t, p, w, cs)
       [] t.k = "opt" /\ NicheOption(t) -> DecodeNicheOption(t, p, w, seen(Elem(t), w, 1))
       [] t.k = "opt" /\ ~NicheOption(t) -> DecodeTaggedOption(t, p, w, c(1))
       [] t.k = "copt" -> DecodeCOption(t, p, w, c(1))
       [] t.k = "res" /\ OkNiche(t) -> DecodeOkNicheResult(t, p, w, seen(t.s[1], w, 1))
       [] t.k = "res" /\ ErrNiche(t) -> DecodeErrNicheResult(t, p, w, seen(t.s[2], w, 1))
       [] t.k = "res" /\ ~OkNiche(t) /\ ~ErrNiche(t) -> DecodeTaggedResult(t, p, w, c(1))
       [] t.k = "cres" -> DecodeCResult(t, p, w, c(1))
       [] t.k = "seq" -> DecodeSliceView(t, p, w, cs)
       [] t.k = "arr" -> DecodeArrayView(t, p, w, cs)
       [] t.k = "tup" -> DecodeTupleView(t, p, w, cs)
       [] t.k \in Records -> DecodeStructView(t, p, w, cs)
       [] t.k \in DataEnums -> DecodeEnumView(t, p, w, cs)
       [] t.k = "md" -> DecodeManualView(View(Elem(t), w, p))
       [] t.k = "ref" -> DecodeNestedRef(p, w, Decode(t, w.s[1], Append(p, 1), NoStore))

(* DecodeMut of the referent of the exclusive borrow `w`. *)
BorrowedRule(t, w, p) ==
  LET whole == Decode(t, w.s[1], Append(p, 1), DefaultDecodeStore(t))
      lent(u, b, i) == Decode(Mut(u), b, Append(p, i), DefaultDecodeStore(Mut(u)))
      elements == [i \in Kids(w.s[1]) |-> lent(Elem(t), Reborrow(w, i), i)]
  IN CASE t.k = "opt" /\ NicheOption(t) -> DecodeNicheOptionMut(t, p, w, whole)
       [] t.k = "opt" /\ ~NicheOption(t) -> DecodeOptionMut(t, p, w, whole)
       [] t.k = "res" /\ OkNiche(t) -> DecodeOkNicheMut(t, p, w, whole)
       [] t.k = "res" /\ ErrNiche(t) -> DecodeErrNicheMut(t, p, w, whole)
       [] t.k = "res" /\ ~OkNiche(t) /\ ~ErrNiche(t) -> DecodeResultMut(t, p, w, whole)
       [] t.k = "tup" -> DecodeTupleMut(t, p, w, whole)
       [] t.k = "arr" -> DecodeArrayMut(t, p, w, whole)
       [] t.k = "seq" -> DecodeSliceMut(t, p, w, [i \in Kids(w.s[1]) |->
                           Decode(Elem(t), w.s[1].s[i], Append(p, i), DefaultDecodeStore(Elem(t)))])
       [] t.k = "box" -> DecodeBoxMut(p, w, <<lent(Elem(t), PointeeOf(w), 1)>>)
       [] t.k = "slice" -> DecodeBoxedSliceMut(p, w, elements)
       [] t.k = "vec" -> DecodeVecMut(p, w, elements)
       [] t.k = "md" -> DecodeManualMut(lent(Elem(t), w, 1))
       [] t.k = "cell" -> DecodeCellMut(lent(Elem(t), w, 1))

-----------------------------------------------------------------------------
(* Which rule synchronizes a store of the side that encoded ... *)
SyncEncodeRule(st, lends) ==
  LET kids(l) == [i \in DOMAIN st.s |-> SyncEncode(st.s[i], l)]
      back == CopiedBack(st, lends)
      wide == WideEncodeSync(back, BoxedSliceSync(kids(lends \cup back)))
  IN CASE st.k = "none" -> EmptySync
       [] st.k = "view" -> ViewEncodeSync
       [] st.k = "box" -> BoxSync(kids(lends)[1])
       [] st.k = "opt" -> OptionSync(kids(lends)[1])
       [] st.k = "seq" -> ArraySync(kids(lends))
       [] st.k = "tup" -> TupleSync(kids(lends))
       [] st.k = "wide" -> wide
       [] st.k = "header" -> HeaderEncodeSync(st, lends, wide)
       [] st.k = "mut" -> SizedEncodeSync(st, Decode(st.t, Content(st, lends), Append(st.at, 9), NoStore),
                                          kids(lends)[1])

(* ... and of the side that decoded. *)
SyncDecodeRule(st, lends) ==
  LET kids(l) == [i \in DOMAIN st.s |-> SyncDecode(st.s[i], l)]
      back == CopiedBack(st, lends)
  IN CASE st.k = "none" -> EmptySync
       [] st.k = "view" -> ViewDecodeSync
       [] st.k = "unarmed" -> UnarmedSync
       [] st.k = "box" -> BoxSync(kids(lends)[1])
       [] st.k = "opt" -> OptionSync(kids(lends)[1])
       [] st.k = "seq" -> ArraySync(kids(lends))
       [] st.k = "tup" -> TupleSync(kids(lends))
       [] st.k = "wide" -> ElementsDecodeSync(back, BoxedSliceSync(kids(lends \cup back)))
       [] st.k = "mut" -> WholeDecodeSync(st, IF st.t.k = "seq"
                                              THEN EncodeArrayElements(
                                                     [i \in Kids(Content(st, lends)) |->
                                                        Encode("checked", Elem(st.t), Content(st, lends).s[i],
                                                               Append(st.at, i), NoStore)])
                                              ELSE Encode("checked", st.t, Content(st, lends),
                                                          Append(st.at, 9), NoStore),
                                          kids(lends)[1])
=============================================================================
