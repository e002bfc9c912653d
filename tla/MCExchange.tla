----------------------------- MODULE MCExchange -----------------------------
(* One or two types for every rule of the conversions. *)
EXTENDS Exchange

MaybeBool == Opt(Bool)
MaybeInt == Opt(Integer)
BoxedMaybe == Box(MaybeBool)

Owned == {Bool, NonZero, Box(Integer), Box(Bool), Slice(Integer), Slice(Bool), Slice(Opt(Box(Bool))),
          Vec(Bool), Vec(Box(Bool)), Vec(BoxedMaybe), Vec(Opt(Box(Bool))),
          MaybeBool, MaybeInt, Opt(MaybeBool), Opt(MaybeInt), Opt(Box(Bool)), Opt(Vec(Bool)),
          Opt(Tup(Integer, Bool)), Opt(Arr(Bool)),
          COpt(Box(Bool)), CRes(Box(Bool), NonZero), Res(Box(Bool), NonZero),
          Res(Bool, Unit), Res(Unit, Bool), Res(Box(Bool), Unit),
          Tup(Box(Bool), Bool), Tup(Bool, Box(Bool)), Tup(MaybeBool, Vec(Bool)), Tup(Box(Bool), Vec(Box(Bool))),
          Arr(Integer), Arr(Box(Bool)), Arr(MaybeBool), Manual(Bool), Manual(MaybeBool),
          CellOf(Bool), CellOf(Integer), CellOf(MaybeBool)}

SharedRefs == {Ref(Bool), Ref(SeqOf(Bool)), Ref(SeqOf(MaybeBool)), Ref(BoxedMaybe), Ref(Slice(MaybeBool)),
               Ref(Vec(MaybeBool)), Ref(MaybeBool), Ref(MaybeInt), Ref(Res(Bool, Unit)), Ref(Res(Unit, Bool)),
               Ref(Res(Integer, Bool)), Ref(Tup(Bool, MaybeInt)), Ref(Arr(MaybeBool)), Ref(Manual(MaybeBool)),
               Ref(Ref(MaybeBool)), Ref(Opt(Box(Bool)))}

Exclusive == {Mut(Integer), Mut(Bool), Mut(MaybeBool), Mut(MaybeInt), Mut(Res(Bool, Unit)), Mut(Res(Unit, Bool)),
              Mut(Res(Integer, Bool)), Mut(COpt(Bool)), Mut(Box(Bool)), Mut(BoxedMaybe), Mut(Slice(MaybeBool)),
              Mut(SeqOf(Integer)), Mut(SeqOf(Bool)), Mut(SeqOf(MaybeBool)), Mut(Arr(Bool)), Mut(Arr(MaybeBool)),
              Mut(Vec(Bool)), Mut(Vec(MaybeBool)), Mut(Manual(MaybeBool)), Mut(CellOf(MaybeBool)),
              Opt(Mut(Bool)), Opt(Mut(MaybeBool)), Res(Mut(Bool), Unit), Res(Mut(MaybeBool), Unit),
              Res(Unit, Mut(MaybeBool)), Res(Mut(Bool), Mut(Bool)), Tup(Mut(Bool), Mut(Bool)),
              Tup(Mut(MaybeBool), Mut(Integer)), Arr(Mut(Bool)), Arr(Mut(MaybeBool)), Vec(Mut(Bool)),
              Vec(Mut(MaybeBool)), Tup(Arr(Mut(Bool)), Mut(Bool)), Arr(Tup(Mut(Bool), Mut(Integer)))}

Derived == {Struct(Bool, Box(Bool)), Struct(Box(Bool), Vec(Box(Bool))), CStruct(Bool, Integer), CStruct(Integer, Integer),
            CStruct(Box(Bool), MaybeBool), ValidStruct(Bool, Bool), ValidCStruct(Bool, Bool),
            NicheStruct, Identity, OneVariant(Bool, Box(Bool)), Enum(Bool, Box(Bool)), Enum(Vec(Box(Bool)), MaybeBool),
            CEnum(Bool, Integer), CEnum(Box(Bool), NonZero), Newtype(Bool), Newtype(Box(Bool)),
            Tags, Inferred, Exhaustive, Single, Opt(Struct(Integer, Bool)), Opt(CStruct(Bool, Integer)), Opt(ValidCStruct(Bool, Bool)),
            Opt(NicheStruct), Opt(Identity), Opt(Enum(Bool, Integer)), Opt(CEnum(Bool, Integer)), Opt(Newtype(Bool)),
            Opt(Tags), Opt(Inferred), Opt(Exhaustive), Opt(Single),
            Box(ValidCStruct(Bool, Bool)), Box(NicheStruct), Box(Enum(Bool, Integer)), Box(Tags), Vec(CStruct(Bool, Integer)), Vec(Struct(Bool, Integer)),
            Ref(Struct(Bool, MaybeInt)), Ref(ValidStruct(Bool, Bool)), Ref(ValidCStruct(Bool, Bool)), Ref(NicheStruct),
            Ref(Identity), Ref(OneVariant(Bool, Integer)), Ref(Enum(Bool, MaybeInt)), Ref(CEnum(Bool, Integer)), Ref(CEnum(MaybeBool, Integer)),
            Ref(Tags), Ref(Newtype(Bool)), Ref(Vec(Struct(Bool, Integer))),
            Mut(CStruct(Integer, Integer)), Mut(CStruct(Bool, Integer)), Mut(ValidCStruct(Bool, Bool)), Mut(CEnum(Bool, Integer)), Mut(Tags),
            Mut(Newtype(Bool)), Mut(Newtype(Integer)), Struct(Mut(Bool), Mut(Bool)), Struct(Mut(MaybeBool), Bool),
            Enum(Mut(Bool), Mut(MaybeBool)), Newtype(Mut(Bool))}

AllTypes == Owned \cup SharedRefs \cup Exclusive \cup Derived

-----------------------------------------------------------------------------
(* MCValues(t, at) are the values of a type, what they point at allocated  *)
(* under `at`; Edits(t, v) what safe code may turn a borrowed v into;      *)
(* MCRewrites(t, w) what foreign code may turn a carrier into.             *)
Choices(S) == {c \in [DOMAIN S -> UNION {S[i] : i \in DOMAIN S}] : \A i \in DOMAIN S : c[i] \in S[i]}
Atoms(S) == {Atom(x) : x \in S}

Scalars(t) == CASE t.k \in {"int", "bool"} -> Atoms({"0", "1"})
                [] t.k = "nz" -> Atoms({"1", "2"})
                [] t.k = "tags" -> Atoms({"1", "2"})
                [] t.k = "inferred" -> Atoms({"A", "B"})
                [] t.k = "exhaustive" -> {Atom(TagBytes[i]) : i \in DOMAIN TagBytes}
                [] t.k \in {"unit", "single"} -> {UnitV}
                [] OTHER -> {}

(* Values that satisfy the closure of their type and are not its niche. *)
Sound(t, v) == Satisfies(t, v) /\ (t.k = "trap" => ~StructIsNiche(t, v))

RECURSIVE MCValues(_, _)
MCValues(t, at) ==
  LET of(i) == MCValues(t.s[i], Append(at, i))
      two == Choices(<<MCValues(Elem(t), Append(at, 1)), MCValues(Elem(t), Append(at, 2))>>)
      pointers(x, S) == {Node(x, Append(at, 0), s) : s \in S}
      fields == Choices([i \in DOMAIN t.s |-> of(i)])
      variants(names) == {Node(names[1], NoAddr, <<x>>) : x \in of(1)}
                         \cup {Node(names[2], NoAddr, <<x>>) : x \in of(2)}
  IN CASE t.k \in {"int", "bool", "nz", "unit", "single"} \cup Fieldless -> Scalars(t)
       [] t.k = "enum" -> variants(VariantNames) \cup {Atom("C")}
       [] t.k = "cenum" -> variants(VariantTags(t))
       [] t.k \in Records -> {v \in {Compound(s) : s \in fields} : Sound(t, v)}
       [] t.k \in {"box", "ref", "mut"} -> pointers(t.k, {<<x>> : x \in of(1)})
       [] t.k \in {"vec", "slice"} -> pointers("vec", two)
       [] t.k = "seq" -> {Compound(s) : s \in two}
       [] t.k = "opt" -> {NoneV} \cup {SomeV(x) : x \in of(1)}
       [] t.k = "copt" -> {Zeroed} \cup {Node("1", NoAddr, <<x>>) : x \in of(1)}
       [] t.k = "res" -> {OkV(x) : x \in of(1)} \cup {ErrV(x) : x \in of(2)}
       [] t.k = "cres" -> {Node("0", NoAddr, <<x>>) : x \in of(1)}
                          \cup {Node("1", NoAddr, <<x>>) : x \in of(2)}
       [] t.k \in Transparent -> of(1)
       [] t.k \in {"tup", "arr"} -> {Compound(s) : s \in fields}

RECURSIVE Edits(_, _)
Edits(t, v) ==
  CASE t.k \in {"int", "bool", "nz", "unit", "single"} \cup Fieldless -> Scalars(t)
    [] t.k = "cenum" -> {Node("1", NoAddr, <<x>>) : x \in Scalars(t.s[1])}
                        \cup {Node("2", NoAddr, <<x>>) : x \in Scalars(t.s[2])}
    [] t.k \in Records -> {x \in {[v EXCEPT !.s = s] : s \in Choices([i \in Kids(v) |-> Edits(t.s[i], v.s[i])])} :
                            Sound(t, x)}
    [] t.k = "opt" -> {NoneV} \cup {SomeV(x) : x \in Scalars(Elem(t))}
    [] t.k = "copt" -> {Zeroed} \cup {Node("1", NoAddr, <<x>>) : x \in Scalars(Elem(t))}
    [] t.k = "res" -> {OkV(x) : x \in Scalars(t.s[1])} \cup {ErrV(x) : x \in Scalars(t.s[2])}
    [] t.k \in Transparent -> Edits(Elem(t), v)
    [] OTHER -> {[v EXCEPT !.s = s] : s \in Choices([i \in Kids(v) |-> Edits(Part(t, v, i), v.s[i])])}

ScalarBytes(t) == CASE t.k \in {"bool"} \cup Fieldless -> Atoms({"0", "1", "2", "3"})
                    [] t.k \in {"int", "nz"} -> Atoms({"0", "1"})
                    [] OTHER -> {}

RECURSIVE MCRewrites(_, _)
MCRewrites(t, w) ==
  LET payload(u, n) == IF IsNiche(u, n) THEN ScalarBytes(u) ELSE MCRewrites(u, n)
      kid(u) == IF w.s = <<>> THEN ScalarBytes(u) ELSE MCRewrites(u, w.s[1])
      kids == {[w EXCEPT !.s = s] : s \in Choices([i \in Kids(w) |-> MCRewrites(Part(t, w, i), w.s[i])])}
  IN CASE t.k \in {"int", "bool", "nz"} \cup Fieldless -> ScalarBytes(t)
       [] t.k \in {"unit", "single"} -> {w}
       [] t.k \in DataEnums -> kids \cup {[w EXCEPT !.x = EnumNicheTag(t)]}
       [] t.k = "vec" -> kids \cup {Null, [w EXCEPT !.x = "bad"]}
       [] t.k \in Pointers -> kids \cup {Null}
       [] t.k = "opt" /\ NicheOption(t) -> {NicheOf(Elem(t))} \cup payload(Elem(t), w)
       [] t.k \in {"opt", "copt"} -> {Zeroed, OptionNiche} \cup {Node("1", NoAddr, <<x>>) : x \in kid(Elem(t))}
       [] t.k = "res" /\ OkNiche(t) -> {NicheOf(t.s[1])} \cup payload(t.s[1], w)
       [] t.k = "res" /\ ErrNiche(t) -> {NicheOf(t.s[2])} \cup payload(t.s[2], w)
       [] t.k \in {"res", "cres"} -> kids \cup {[w EXCEPT !.x = "2"]}
       [] t.k \in Transparent -> MCRewrites(Elem(t), w)
       [] OTHER -> kids

(* The same, in the places lent exclusively only: F is Edits or Rewrites. *)
RECURSIVE MCLent(_, _, _)
MCLent(rust, t, n) ==
  LET same(u) == MCLent(rust, u, n)
  IN CASE t.k = "mut" -> {[n EXCEPT !.s = <<x>>] : x \in IF rust THEN Edits(Elem(t), n.s[1])
                                                         ELSE MCRewrites(Elem(t), n.s[1])}
       [] t.k = "ref" -> {n}
       [] t.k = "opt" /\ NicheOption(t) /\ ~rust -> IF IsNiche(Elem(t), n) THEN {n} ELSE same(Elem(t))
       [] t.k = "res" /\ OkNiche(t) /\ ~rust -> IF IsNiche(t.s[1], n) THEN {n} ELSE same(t.s[1])
       [] t.k = "res" /\ ErrNiche(t) /\ ~rust -> IF IsNiche(t.s[2], n) THEN {n} ELSE same(t.s[2])
       [] t.k \in Transparent -> same(Elem(t))
       [] OTHER -> {[n EXCEPT !.s = s] : s \in Choices([i \in Kids(n) |-> MCLent(rust, Part(t, n, i), n.s[i])])}

-----------------------------------------------------------------------------
(***************************************************************************)
(* The constants of the modules that are read along the structure of a     *)
(* type: each is its rule, which is written with them.  (The LET is for    *)
(* TLC's coverage, which would unfold a constant's value for ever.)        *)
(***************************************************************************)
MCStable(t) == LET rule == StableRule(t) IN rule
MCRobust(t) == LET rule == RobustRule(t) IN rule
MCOwnedBy(t, v) == LET rule == OwnedByRule(t, v) IN rule
MCCloneAt(t, v, p) == LET rule == CloneAtRule(t, v, p) IN rule
MCHasNiche(t) == LET rule == HasNicheRule(t) IN rule
MCNicheOf(t) == LET rule == NicheOfRule(t) IN rule
MCIsNiche(t, w) == LET rule == IsNicheRule(t, w) IN rule
MCIsValid(t, w) == LET rule == IsValidRule(t, w) IN rule
MCAssign(n, at, writes) == LET rule == AssignRule(n, at, writes) IN rule
MCLends(n) == LET rule == LendsRule(n) IN rule
MCVacated(st) == LET rule == VacatedRule(st) IN rule
MCEncode(m, t, v, p, st) == LET rule == EncodeRule(m, t, v, p, st) IN rule
MCShare(m, t, b, p) == LET rule == ShareRule(m, t, b, p) IN rule
MCLend(m, t, b, p) == LET rule == LendRule(m, t, b, p) IN rule
MCDecode(t, w, p, st) == LET rule == DecodeRule(t, w, p, st) IN rule
MCView(t, w, p) == LET rule == ViewRule(t, w, p) IN rule
MCBorrowed(t, w, p) == LET rule == BorrowedRule(t, w, p) IN rule
MCDefaultDecodeStore(t) == LET rule == DefaultDecodeStoreRule(t) IN rule
MCSyncEncode(st, lends) == LET rule == SyncEncodeRule(st, lends) IN rule
MCSyncDecode(st, lends) == LET rule == SyncDecodeRule(st, lends) IN rule
MCStrip(n) == LET rule == StripRule(n) IN rule
MCMentions(K, t) == LET rule == MentionsRule(K, t) IN rule
MCIsValue(t, v) == LET rule == IsValueRule(t, v) IN rule
MCIsCarrier(t, w) == LET rule == IsCarrierRule(t, w) IN rule
MCAllocs(n) == LET rule == AllocsRule(n) IN rule
MCSole(n) == LET rule == SoleRule(n) IN rule
MCLost(t, w) == LET rule == LostRule(t, w) IN rule
MCSettles(t, v, w) == LET rule == SettlesRule(t, v, w) IN rule
MCAfter(t, v, w) == LET rule == AfterRule(t, v, w) IN rule
=============================================================================
