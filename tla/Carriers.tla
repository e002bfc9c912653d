------------------------------ MODULE Carriers ------------------------------
(***************************************************************************)
(* The types co3 converts, the carriers (`ReprC::CType`) they are sent as, *)
(* and the three classifications every conversion consults: whether the    *)
(* layout is Stable (a value may be reinterpreted as its carrier), whether *)
(* a carrier has a niche, and whether the bits of a carrier are a valid    *)
(* value of a Stable type.                                                 *)
(*                                                                         *)
(* A type is [k |-> kind, s |-> parameters].  A value and a carrier are    *)
(* both nodes [x, a, s]: `x` is the part that is neither a pointer nor a   *)
(* component (a scalar, an enum variant, a tag, which pointer it is), `a`  *)
(* the address an owning or borrowing pointer holds, `s` the components,   *)
(* the pointee of a pointer being its component.  A Stable value and its   *)
(* carrier are the same node, since the code transmutes one into the       *)
(* other; an Unstable value differs from its carrier.                      *)
(***************************************************************************)
EXTENDS Naturals, Sequences

(***************************************************************************)
(* What is computed along the structure of a type or a node is a constant  *)
(* operator X, and its definition, one layer of the structure deep, the    *)
(* operator XRule.  A model gives X the value XRule.                       *)
(***************************************************************************)
CONSTANTS
  Stable(_),       \* the layout of the type is its carrier's
  Robust(_),       \* every bit pattern of the carrier is a value
  OwnedBy(_, _),   \* the allocations dropping a value frees
  CloneAt(_, _, _),\* a clone of a value
  HasNiche(_),     \* the carrier has a pattern that is no value's
  NicheOf(_),      \* that pattern
  IsNiche(_, _),   \* whether a carrier is recognized as it
  IsValid(_, _)    \* whether a carrier of a Stable type is a value

Ty(k, s) == [k |-> k, s |-> s]
Integer == Ty("int", <<>>)              \* every integer, float and UnicodeChar
Bool == Ty("bool", <<>>)
NonZero == Ty("nz", <<>>)
Unit == Ty("unit", <<>>)
Box(t) == Ty("box", <<t>>)          \* Box<T> of a sized T
Slice(t) == Ty("slice", <<t>>)      \* Box<[T]>
Vec(t) == Ty("vec", <<t>>)          \* std Vec, which converts through co3::vec::Vec
Opt(t) == Ty("opt", <<t>>)          \* core::option::Option
COpt(t) == Ty("copt", <<t>>)        \* co3::option::Option
Res(t, e) == Ty("res", <<t, e>>)    \* core::result::Result
CRes(t, e) == Ty("cres", <<t, e>>)  \* co3::result::Result
Tup(t, u) == Ty("tup", <<t, u>>)
Arr(t) == Ty("arr", <<t, t>>)       \* [T; 2]
SeqOf(t) == Ty("seq", <<t>>)        \* [T]
Manual(t) == Ty("md", <<t>>)        \* ManuallyDrop<T>
CellOf(t) == Ty("cell", <<t>>)      \* UnsafeCell<T> and Cell<T>
Ref(t) == Ty("ref", <<t>>)
Mut(t) == Ty("mut", <<t>>)

(* What #[derive(ReprC)] is applied to: structs without representation,     *)
(* with repr(C), each of them with a custom is_valid, with a custom NICHE,  *)
(* or with their carrier being themselves; data enums of no representation  *)
(* and of repr(C, u8); an enum of one variant; newtypes; fieldless enums    *)
(* with explicit tags, with inferred ones, with as many as the tag has      *)
(* values, and with a single variant.                                      *)
Struct(t, u) == Ty("struct", <<t, u>>)
CStruct(t, u) == Ty("cstruct", <<t, u>>)
ValidStruct(t, u) == Ty("vstruct", <<t, u>>)
ValidCStruct(t, u) == Ty("vcstruct", <<t, u>>)
NicheStruct == Ty("trap", <<Integer, Integer>>)
Identity == Ty("identity", <<Integer, Integer>>)
Enum(t, u) == Ty("enum", <<t, u>>)      \* A(t), B(u), C
CEnum(t, u) == Ty("cenum", <<t, u>>)    \* A(t) = 1, B(u)
OneVariant(t, u) == Ty("onevariant", <<t, u>>)
Newtype(t) == Ty("newtype", <<t>>)
Tags == Ty("tags", <<>>)                \* A = 1, B
Inferred == Ty("inferred", <<>>)        \* A, B
Exhaustive == Ty("exhaustive", <<>>)
Single == Ty("single", <<>>)

NoAddr == <<>>
Home(p) == Append(p, 0)             \* what a conversion given the address p keeps or allocates,
Buffer(p) == Append(p, 8)           \* and its second allocation; component i is given Append(p, i)
Node(x, a, s) == [x |-> x, a |-> a, s |-> s]
Atom(x) == Node(x, NoAddr, <<>>)
Compound(s) == Node("compound", NoAddr, s)   \* nothing but its components
Null == Atom("null")
Zeroed == Atom("0")                 \* what MaybeUninit::zeroed() leaves

(* Rust values that are not their own carrier, and the unit value. *)
UnitV == Atom("unit")
NoneV == Atom("None")
SomeV(n) == Node("Some", NoAddr, <<n>>)
OkV(n) == Node("Ok", NoAddr, <<n>>)
ErrV(n) == Node("Err", NoAddr, <<n>>)
ErrSide(v) == v.x \in {"Err", "1"}

Pointers == {"box", "slice", "vec", "ref", "mut"}
Elem(t) == t.s[1]

(* ManuallyDrop, the cells and a newtype are transparent: their node is their content's. *)
Transparent == {"md", "cell", "newtype"}

Structs == {"struct", "cstruct", "vstruct", "vcstruct", "trap"}
Records == Structs \cup {"identity", "onevariant"}
DataEnums == {"enum", "cenum"}
Fieldless == {"tags", "inferred", "exhaustive"}
Tagged == DataEnums \cup Fieldless

(* The tag type is a byte of four values. *)
TagBytes == <<"0", "1", "2", "3">>

(* The tag of each variant, in order: explicit tags start from 1. *)
VariantTags(t) == CASE t.k \in {"cenum", "tags"} -> <<"1", "2">>
                    [] t.k = "inferred" -> <<"0", "1">>
                    [] t.k = "enum" -> <<"0", "1", "2">>
                    [] t.k = "exhaustive" -> TagBytes

(* The variant of a value or carrier; 0 when the tag is no variant's. *)
VariantNames == <<"A", "B", "C">>
VariantIn(names, x) == IF \E i \in DOMAIN names : names[i] = x
                       THEN CHOOSE i \in DOMAIN names : names[i] = x ELSE 0
VariantOf(t, v) == LET i == VariantIn(VariantTags(t), v.x)
                   IN IF i # 0 THEN i ELSE VariantIn(VariantNames, v.x)
Payload(t, v) == LET i == VariantOf(t, v) IN IF i \in DOMAIN t.s THEN t.s[i] ELSE t.s[2]

(* The type of component i of the node v of type t. *)
Part(t, v, i) == CASE t.k \in {"tup", "arr"} \cup Records -> t.s[i]
                   [] t.k \in DataEnums -> Payload(t, v)
                   [] t.k \in {"res", "cres"} /\ ErrSide(v) -> t.s[2]
                   [] OTHER -> Elem(t)

(***************************************************************************)
(* rust_spec's derived classification, an external crate, for the types    *)
(* above.  An Option or Result stands only where it is not itself behind a *)
(* pointer that would be transmuted, so its layout is not Stable here.     *)
(***************************************************************************)
StableRule(t) ==
  CASE t.k \in {"int", "bool", "nz", "unit", "tags", "exhaustive"} -> TRUE
    [] t.k \in {"slice", "opt", "res", "tup", "struct", "vstruct", "onevariant",
                "enum", "inferred", "single"} -> FALSE
    [] OTHER -> \A i \in DOMAIN t.s : Stable(t.s[i])

(* Every bit pattern is a value (Trap = Robust). *)
RobustRule(t) ==
  \/ t.k \in {"int", "unit"}
  \/ t.k \in {"arr", "md", "cell", "newtype", "cstruct", "identity"} /\ \A i \in DOMAIN t.s : Robust(t.s[i])

(* The allocations that dropping a value of the type frees.  A carrier has  *)
(* no Drop, and ManuallyDrop none either.                                   *)
OwnedByRule(t, v) ==
  CASE t.k \in {"ref", "mut", "md"} -> {}
    [] t.k \in {"cell", "newtype"} -> OwnedBy(Elem(t), v)
    [] OTHER -> (IF t.k \in {"box", "slice", "vec"} THEN {v.a} ELSE {})
                \cup UNION {OwnedBy(Part(t, v, i), v.s[i]) : i \in DOMAIN v.s}

(* A clone of the value, whose allocations are named after the clone's. *)
CloneAtRule(t, v, p) ==
  CASE t.k \in {"ref", "mut"} -> v
    [] t.k \in Transparent -> CloneAt(Elem(t), v, p)
    [] OTHER -> [v EXCEPT !.a = IF t.k \in {"box", "slice", "vec"} THEN p \o @ ELSE @,
                          !.s = [i \in DOMAIN @ |-> CloneAt(Part(t, v, i), @[i], p)]]

-----------------------------------------------------------------------------
(* Niche::NICHE and Niche::is_niche. *)

BoolNiche == Atom("2")
NonZeroNiche == Atom("0")

(* A null reference, box, boxed slice or vector. *)
RefIsNiche(w) == w.a = NoAddr

MutIsNiche(w) == w.a = NoAddr

BoxIsNiche(w) == w.a = NoAddr

VecIsNiche(w) == w.a = NoAddr

(* A tag that is neither None nor Some; the payload is zeroed. *)
OptionNiche == Node("2", NoAddr, <<>>)

OptionIsNiche(w) == w.x = "2"

ResultNiche == Node("2", NoAddr, <<>>)

ResultIsNiche(w) == w.x = "2"

(* Mutant: Option<bool> reuses the niche of its bool. *)
OptionBoolNicheShared == Atom("2")

(* Option<bool> and Option<Option<bool>> use the next value of the byte. *)
OptionBoolNiche == Atom("3")

OptionOptionBoolNiche == Atom("4")

(* A tuple uses the first member that has one and looks at no other. *)
TupleNiche(t) == IF HasNiche(t.s[1]) THEN Compound(<<NicheOf(t.s[1]), Zeroed>>)
                 ELSE Compound(<<Zeroed, NicheOf(t.s[2])>>)

TupleIsNiche(t, w) == LET i == IF HasNiche(t.s[1]) THEN 1 ELSE 2 IN IsNiche(t.s[i], w.s[i])

ArrayNiche(t) == Compound(<<NicheOf(Elem(t)), NicheOf(Elem(t))>>)

ArrayIsNiche(t, w) == w.s # <<>> /\ \A i \in DOMAIN w.s : IsNiche(Elem(t), w.s[i])

ManualIsNiche(t, w) == IsNiche(Elem(t), w)

(* A struct's niche is that of the tuple of its fields, unless it declares   *)
(* one of its own; its fields must then have none.                          *)
StructNiche(t) == IF t.k = "trap" THEN Compound(<<Atom("0"), Atom("1")>>) ELSE TupleNiche(t)

StructIsNiche(t, w) == IF t.k = "trap" THEN w = StructNiche(t) ELSE TupleIsNiche(t, w)

(* With explicit tags the first byte, counting down from 0, that is no      *)
(* variant's; else the largest byte.                                       *)
EnumNicheTag(t) ==
  IF t.k \in {"cenum", "tags"}
  THEN LET down == <<"0", "3", "2", "1">>
       IN down[CHOOSE i \in 1..4 : /\ VariantIn(VariantTags(t), down[i]) = 0
                                  /\ \A j \in 1..(i - 1) : VariantIn(VariantTags(t), down[j]) # 0]
  ELSE "3"

EnumNiche(t) == Node(EnumNicheTag(t), NoAddr, <<>>)

EnumIsNiche(t, w) == w.x = EnumNicheTag(t)

NewtypeNiche(n) == n

NewtypeIsNiche(b) == b

(* The option is sent as its payload's carrier, None as the niche, exactly *)
(* when the payload has a niche; otherwise with a tag byte.                *)
NicheOption(t) == HasNiche(Elem(t))

(* A result is sent as one side's carrier when the other side is zero-sized. *)
ZeroSized(t) == t = Unit

OkNiche(t) == ZeroSized(t.s[2]) /\ ~ZeroSized(t.s[1]) /\ HasNiche(t.s[1])
ErrNiche(t) == ZeroSized(t.s[1]) /\ ~ZeroSized(t.s[2]) /\ HasNiche(t.s[2])

HasNicheRule(t) ==
  CASE t.k \in {"bool", "nz", "copt", "cres"} \cup Pointers -> TRUE
    [] t.k = "opt" -> ~NicheOption(t) \/ t \in {Opt(Bool), Opt(Opt(Bool))}
    [] t.k = "res" -> ~OkNiche(t) /\ ~ErrNiche(t)
    [] t.k \in {"enum", "cenum", "tags", "inferred", "trap"} -> TRUE
    [] t.k \in {"tup", "struct", "cstruct", "vstruct", "vcstruct", "onevariant"} -> HasNiche(t.s[1]) \/ HasNiche(t.s[2])
    [] t.k \in {"arr", "md", "newtype"} -> HasNiche(Elem(t))
    [] OTHER -> FALSE

NicheOfRule(t) ==
  CASE t.k = "bool" -> BoolNiche
    [] t.k = "nz" -> NonZeroNiche
    [] t.k \in Pointers -> Null
    [] t.k = "opt" -> CASE t = Opt(Bool) -> OptionBoolNiche
                        [] t = Opt(Opt(Bool)) -> OptionOptionBoolNiche
                        [] OTHER -> OptionNiche
    [] t.k = "copt" -> OptionNiche
    [] t.k \in {"res", "cres"} -> ResultNiche
    [] t.k = "tup" -> TupleNiche(t)
    [] t.k = "arr" -> ArrayNiche(t)
    [] t.k = "md" -> NicheOf(Elem(t))
    [] t.k = "newtype" -> NewtypeNiche(NicheOf(Elem(t)))
    [] t.k \in Records -> StructNiche(t)
    [] t.k \in Tagged -> EnumNiche(t)

IsNicheRule(t, w) ==
  CASE t.k \in {"bool", "nz"} -> w = NicheOf(t)
    [] t.k = "ref" -> RefIsNiche(w)
    [] t.k = "mut" -> MutIsNiche(w)
    [] t.k \in {"box", "slice"} -> BoxIsNiche(w)
    [] t.k = "vec" -> VecIsNiche(w)
    [] t.k = "opt" -> IF NicheOption(t) THEN w = NicheOf(t) ELSE OptionIsNiche(w)
    [] t.k = "copt" -> OptionIsNiche(w)
    [] t.k \in {"res", "cres"} -> ResultIsNiche(w)
    [] t.k = "tup" -> TupleIsNiche(t, w)
    [] t.k = "arr" -> ArrayIsNiche(t, w)
    [] t.k = "md" -> ManualIsNiche(t, w)
    [] t.k = "newtype" -> NewtypeIsNiche(IsNiche(Elem(t), w))
    [] t.k \in Records -> StructIsNiche(t, w)
    [] t.k \in Tagged -> EnumIsNiche(t, w)

-----------------------------------------------------------------------------
(* AbiCompatibleValidate::is_valid, for Stable types. *)

IntIsValid(w) == TRUE

BoolIsValid(w) == w.x \in {"0", "1"}

NonZeroIsValid(w) == w.x # "0"

RefIsValid(t, w) == w.a # NoAddr /\ IsValid(Elem(t), w.s[1])

MutIsValid(t, w) == w.a # NoAddr /\ IsValid(Elem(t), w.s[1])

BoxIsValid(t, w) == w.a # NoAddr /\ IsValid(Elem(t), w.s[1])

ManualIsValid(t, w) == IsValid(Elem(t), w)

CellIsValid(t, w) == Robust(t) \/ IsValid(Elem(t), w)

ArrayIsValid(t, w) == \A i \in DOMAIN w.s : IsValid(t.s[i], w.s[i])

SliceIsValid(t, w) == \A i \in DOMAIN w.s : IsValid(Elem(t), w.s[i])

(* A null pointer or a length above the capacity is rejected, then elements. *)
VecIsValid(t, w) == /\ w.a # NoAddr /\ w.x # "bad"
                    /\ \A i \in DOMAIN w.s : IsValid(Elem(t), w.s[i])

OptionIsValid(t, w) == \/ w.x = "0"
                       \/ w.x = "1" /\ IsValid(Elem(t), w.s[1])

ResultIsValid(t, w) == \/ w.x = "0" /\ IsValid(t.s[1], w.s[1])
                       \/ w.x = "1" /\ IsValid(t.s[2], w.s[1])

(* The is_valid closure of the structs that declare one: their fields differ. *)
Satisfies(t, v) == t.k \in {"vstruct", "vcstruct"} => v.s[1].x # v.s[2].x

(* A struct's fields, then that it is not the niche it declares, then the closure. *)
StructIsValid(t, w) == /\ \A i \in DOMAIN w.s : IsValid(t.s[i], w.s[i])
                       /\ t.k = "trap" => ~StructIsNiche(t, w)
                       /\ Satisfies(t, w)

EnumIsValid(t, w) == /\ VariantIn(VariantTags(t), w.x) # 0
                     /\ \A i \in DOMAIN w.s : IsValid(Payload(t, w), w.s[i])

TagsIsValid(t, w) == VariantIn(VariantTags(t), w.x) # 0

IdentityIsValid(w) == TRUE

NewtypeIsValid(b) == b

IsValidRule(t, w) ==
  CASE t.k \in {"int", "unit"} -> IntIsValid(w)
    [] t.k = "bool" -> BoolIsValid(w)
    [] t.k = "nz" -> NonZeroIsValid(w)
    [] t.k = "ref" -> RefIsValid(t, w)
    [] t.k = "mut" -> MutIsValid(t, w)
    [] t.k = "box" -> BoxIsValid(t, w)
    [] t.k = "seq" -> SliceIsValid(t, w)
    [] t.k = "md" -> ManualIsValid(t, w)
    [] t.k = "cell" -> CellIsValid(t, w)
    [] t.k = "arr" -> ArrayIsValid(t, w)
    [] t.k = "vec" -> VecIsValid(t, w)
    [] t.k = "copt" -> OptionIsValid(t, w)
    [] t.k = "cres" -> ResultIsValid(t, w)
    [] t.k = "identity" -> IdentityIsValid(w)
    [] t.k = "newtype" -> NewtypeIsValid(IsValid(Elem(t), w))
    [] t.k \in Records \ {"identity"} -> StructIsValid(t, w)
    [] t.k \in DataEnums -> EnumIsValid(t, w)
    [] t.k \in Fieldless -> TagsIsValid(t, w)

-----------------------------------------------------------------------------
(***************************************************************************)
(* What a conversion answers: the node it built, the allocations it made   *)
(* and the ones it freed, and the store it left.  A store is a tree with   *)
(* the shape of the conversion: nothing, an Option or Box around a store,  *)
(* a sequence of stores (array, boxed slice, tuple), or the store of one   *)
(* mutable reference.                                                      *)
(***************************************************************************)
NoStore == [k |-> "none", s |-> <<>>]
Within(k, s) == [k |-> k, s |-> s]

Answer(n, new, old, st) == [ok |-> TRUE, n |-> n, new |-> new, old |-> old, st |-> st]
Kept(n) == Answer(n, {}, {}, NoStore)
Refused(new, old) == [ok |-> FALSE, n |-> Null, new |-> new, old |-> old, st |-> NoStore]

News(rs) == UNION {rs[i].new : i \in DOMAIN rs}
Olds(rs) == UNION {rs[i].old : i \in DOMAIN rs}
Nodes(rs) == [i \in DOMAIN rs |-> rs[i].n]
Stores(rs) == [i \in DOMAIN rs |-> rs[i].st]

(* The answer of a component becomes the whole's: refused, as it is; else  *)
(* with `n` made of its node and `st` of its store.                        *)
Wrapped(r, n, st) == IF r.ok THEN Answer(n, r.new, r.old, st) ELSE r

(* The store a conversion finds at component i of the one it is given. *)
Sub(st, i) == IF i \in DOMAIN st.s THEN st.s[i] ELSE NoStore
=============================================================================
