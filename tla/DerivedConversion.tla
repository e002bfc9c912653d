-------------------------- MODULE DerivedConversion --------------------------
(***************************************************************************)
(* The conversions #[derive(ReprC)] generates.  Each rule is given what    *)
(* converting the fields answered: `rs` for the fields of a struct or of   *)
(* the variant at hand, in order, `r` for the one field of a newtype.      *)
(***************************************************************************)
EXTENDS OwnedDecoding, ExclusiveConversion, SharedConversion

(* The fields are read out of a value that is no longer dropped and encoded *)
(* each into its place of the store.                                        *)
StructEncode(rs) ==
  Answer(Compound(Nodes(rs)), News(rs), Olds(rs), Within("tup", Stores(rs)))

StructEncodeUnchecked(rs) ==
  Answer(Compound(Nodes(rs)), News(rs), Olds(rs), Within("tup", Stores(rs)))

OneVariantEncode(rs) == StructEncode(rs)

OneVariantEncodeUnchecked(rs) == StructEncodeUnchecked(rs)

(* The variant's store replaces what the enum's store held; its tag is sent *)
(* before the payload.                                                      *)
VariantTag(t, v) == VariantTags(t)[VariantOf(t, v)]

EnumEncode(t, v, rs) ==
  Answer(Node(VariantTag(t, v), NoAddr, Nodes(rs)), News(rs), Olds(rs),
         Within("opt", <<Within("tup", Stores(rs))>>))

EnumEncodeUnchecked(t, v, rs) == EnumEncode(t, v, rs)

FieldlessEncode(t, v) == Kept(Atom(VariantTag(t, v)))

SingleEncode(v) == Kept(UnitV)

IdentityEncode(v) == Kept(v)

NewtypeEncode(r) == r

NewtypeEncodeUnchecked(r) == r

-----------------------------------------------------------------------------
(* The fields are decoded in order; the first that is refused ends it.  A  *)
(* struct the closure refuses is dropped.  A custom NICHE is not looked at. *)
StructDecode(t, w, rs) ==
  LET v == Compound(Nodes(rs))
  IN IF Fails(rs) THEN RefuseAtFirst(t, w, rs)
     ELSE IF Satisfies(t, v) THEN Answer(v, News(rs), Olds(rs), Within("tup", Stores(rs)))
          ELSE RefuseVisited(t, w, rs, {})

OneVariantDecode(t, w, rs) == StructDecode(t, w, rs)

(* The variant a tag selects, named as values of the type name it. *)
Selected(t, w) == IF Stable(t) \/ t.k = "cenum" THEN w.x ELSE VariantNames[VariantOf(t, w)]
KnownTag(t, w) == VariantIn(VariantTags(t), w.x) # 0

EnumDecode(t, w, rs) ==
  IF ~KnownTag(t, w) THEN Refused({}, {})
  ELSE IF Fails(rs) THEN RefuseAtFirst(t, w, rs)
       ELSE Answer(Node(Selected(t, w), NoAddr, Nodes(rs)), News(rs), Olds(rs),
                   Within("opt", <<Within("tup", Stores(rs))>>))

FieldlessDecode(t, w) == IF KnownTag(t, w) THEN Kept(Atom(Selected(t, w))) ELSE Refused({}, {})

SingleDecode(w) == Kept(UnitV)

IdentityDecode(w) == Kept(w)

NewtypeDecode(r) == r

-----------------------------------------------------------------------------
(* A shared borrow of an Unstable struct or enum is sent as a header whose  *)
(* fields are the carriers their own borrows point at.                      *)
StructView(p, rs) == LendHeader(p, Compound([i \in DOMAIN rs |-> EncodeRefField(rs[i])]))

EnumView(t, v, p, rs) ==
  LendHeader(p, Node(VariantTag(t, v), NoAddr, [i \in DOMAIN rs |-> EncodeRefField(rs[i])]))

(* It is decoded field by field through shared borrows, whose values are    *)
(* cloned into a value the store keeps; the closure sees the clones.        *)
DecodeStructView(t, p, w, rs) ==
  LET v == Compound([i \in DOMAIN rs |-> Held(rs[i])])
  IN IF w.a = NoAddr THEN Refused({}, {})
     ELSE IF ~AllOk(rs) THEN FailedAt(rs)
          ELSE IF Satisfies(t, v) THEN Retain(t, v, p, rs) ELSE Failed(rs)

DecodeEnumView(t, p, w, rs) ==
  IF w.a = NoAddr \/ ~KnownTag(t, w.s[1]) THEN Refused({}, {})
  ELSE IF AllOk(rs)
       THEN Retain(t, Node(Selected(t, w.s[1]), NoAddr, [i \in DOMAIN rs |-> Held(rs[i])]), p, rs)
       ELSE FailedAt(rs)

-----------------------------------------------------------------------------
(* An exclusive borrow of a Stable struct or enum that is not robust lends  *)
(* the carrier of a clone, kept in the store; a newtype lends its field's.  *)
DerivedMut(t, v, p, r) == CopyMut(t, v, p, r)

NewtypeMut(r) == r
=============================================================================
