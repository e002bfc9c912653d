------------------------------- MODULE Derive -------------------------------
(***************************************************************************)
(* #[derive(ReprC)]: from the attributes and variants of an item to the    *)
(* conversion that is generated and, for an enum, to the tags of its       *)
(* variants and the niche tag that is none of theirs.  The macro accepts   *)
(* or rejects; the constants it emitted are then evaluated by rustc, which *)
(* is where a zero tag is refused and where the niche tag is searched for. *)
(*                                                                         *)
(* An item is [shape, repr, attrs, n, arity, variants]: `repr` the tokens  *)
(* of its #[repr], `attrs` its #[repr_c] attributes, each a sequence of    *)
(* options, `n` the fields of a struct and `arity` the parameters of its   *)
(* is_valid closure.  A variant is [unit, n, disc, attrs, arity], `disc`   *)
(* being <<>> or the one explicit discriminant.                            *)
(***************************************************************************)
EXTENDS Integers, Sequences, FiniteSets, SequencesExt

CONSTANTS
  Items,        \* the items derived for, by family
  ByteValues,   \* the values an 8-bit tag takes, 2^8 in the code
  ShortValues,  \* the values a 16-bit tag takes, 2^16 in the code
  WideValues    \* the values a wider one takes, which is never taken for exhausted

ASSUME WidthAssumption ==
  /\ ByteValues \in Nat /\ ShortValues \in Nat /\ WideValues \in Nat
  /\ 1 < ByteValues /\ ByteValues < ShortValues /\ ShortValues < WideValues

VariantType == [unit : BOOLEAN, n : Nat, disc : Seq(Int), attrs : Seq(Seq(STRING)), arity : Nat]

(* A variant has one explicit discriminant or none, and the variants of an enum *)
(* are counted with a usize.                                                    *)
ASSUME ItemAssumption ==
  \A family \in Items : \A i \in family :
    /\ i.repr \in Seq(STRING) /\ i.attrs \in Seq(Seq(STRING))
    /\ i.variants \in Seq(VariantType) /\ Len(i.variants) < WideValues
    /\ \A k \in DOMAIN i.variants : Len(i.variants[k].disc) <= 1

VARIABLES
  stage,    \* the step of derive_repr_c that runs next, or how it ended
  item,
  tokens,   \* #[repr] tokens not read yet
  kind,     \* the representation: <<>>, <<"transparent">>, <<"C">>, <<integer>> or <<"C", integer>>
  errors,   \* an error was pushed; reported when the checks are through
  plan,     \* the conversion generated
  niche     \* the candidate of the niche search

deriveVars == <<stage, item, tokens, kind, errors, plan, niche>>

Integer == {"u8", "i8", "u16", "usize"}
Transparent == <<"transparent">>
C == <<"C">>
Primitive == {<<p>> : p \in Integer}
CPrimitive == {<<"C", p>> : p \in Integer}
Values(tag) == CASE tag \in {"u8", "i8"} -> ByteValues
                 [] tag = "u16" -> ShortValues
                 [] OTHER -> WideValues
Wrap(tag, v) == v % Values(tag)

Options(attrs) == FlattenSeq(attrs)
Has(attrs, option) == option \in Range(Options(attrs))
Known == {"identity", "move", "transparent", "view", "__wide_data", "is_valid", "allow_zero_tag", "NICHE"}

Unit(v) == v.unit
NoFields(v) == v.n = 0
Variants == item.variants
AllUnit == \A i \in DOMAIN Variants : Unit(Variants[i])
Opt(option) == Has(item.attrs, option)
IsEnum == item.shape = "enum"

-----------------------------------------------------------------------------
(* ReprToken::parse. *)
Parsed(token) == IF token \in {"transparent", "C", "packed", "align"} \cup Integer THEN token ELSE "unrecognized"

IsKind(token) == token \notin {"packed", "align"}

HasIntegerRepr == kind \in Primitive \cup CPrimitive

(* The kind after one more token: C and an integer combine in either order, *)
(* and the same kind twice is tolerated.                                    *)
Duplicate(k, token) ==
  ~(k \in {<<>>, <<token>>} \/ (k = C /\ token \in Integer) \/ (k \in Primitive /\ token = "C"))

Merged(k, token) == CASE k = C /\ token \in Integer -> <<"C", token>>
                      [] k \in Primitive /\ token = "C" -> <<"C", k[1]>>
                      [] OTHER -> <<token>>

(* The smallest of the tag types that tells so many variants apart. *)
infer_repr(n) == IF n <= ByteValues THEN "u8" ELSE IF n <= ShortValues THEN "u16" ELSE "usize"

(* The integer of the representation. *)
primitive_tag_type(k) == Last(k)

(* The other representations have no tag, and asking for it panics. *)
HasTagType(k) == k \in {<<>>} \cup Primitive \cup CPrimitive

enum_tag_type(k, n) == IF k = <<>> THEN infer_repr(n) ELSE primitive_tag_type(k)

is_transparent_enum_repr(k, variants) == k = Transparent \/ (k = <<>> /\ Len(variants) = 1)

(* Mutant: the capacity of a signed tag is not looked up. *)
UnsignedExhausted(n, tag) == tag \notin {"usize", "i8"} /\ n = Values(tag)

(* usize and the 64-bit integers are never exhausted. *)
is_exhaustive_enum(n, tag) == tag # "usize" /\ n = Values(tag)

ExhaustiveEnum == /\ HasTagType(kind)
                  /\ is_exhaustive_enum(Len(Variants), enum_tag_type(kind, Len(Variants)))

(* The tag of every variant: an explicit discriminant converted, an implicit *)
(* one counted from the last explicit one, wrapping.                        *)
enum_variant_tag_exprs(variants, tag) ==
  [i \in DOMAIN variants |->
     LET explicit == {j \in 1..i : variants[j].disc # <<>>}
         last == CHOOSE j \in explicit : \A k \in explicit : k <= j
     IN IF explicit = {} THEN Wrap(tag, i - 1) ELSE Wrap(tag, variants[last].disc[1] + (i - last))]

(* How many implicit tags end at variant i. *)
RunLength(variants, i) == Cardinality({j \in 1..i : \A k \in j..i : variants[k].disc = <<>>})

(* Mutant: the offset is not reset at an explicit discriminant. *)
OffsetKept(variants, tag) ==
  [i \in DOMAIN variants |->
     IF variants[i].disc # <<>> THEN Wrap(tag, variants[i].disc[1]) ELSE Wrap(tag, i - 1)]

(* The __CO3_TAG_ constants of a fieldless enum, each implicit one computed *)
(* from the constant of the last explicit variant.                         *)
tag_consts(variants, tag) ==
  LET explicit(i) == Wrap(tag, variants[i].disc[1])
  IN [i \in DOMAIN variants |->
        LET offset == RunLength(variants, i)
        IN CASE offset = 0 -> explicit(i)
             [] offset = i -> Wrap(tag, i - 1)
             [] OTHER -> Wrap(tag, explicit(i - offset) + offset)]

-----------------------------------------------------------------------------
DeriveInit ==
        /\ \E family \in Items : item \in family
        /\ stage = "repr"
        /\ tokens = item.repr
        /\ kind = <<>>
        /\ errors = FALSE
        /\ plan = [conversion |-> "none", tag |-> "", tags |-> <<>>]
        /\ niche = 0

Fail == stage' = "rejected" /\ UNCHANGED <<item, tokens, kind, errors, plan, niche>>

Check(next, wrong) ==
  /\ stage' = next
  /\ errors' = (errors \/ wrong)
  /\ UNCHANGED <<item, tokens, kind, plan, niche>>

(* One token of parse_repr: an unknown one ends it, packed and a second kind *)
(* are pushed, and an alignment decides nothing here.                       *)
parse_repr ==
  /\ stage = "repr" /\ tokens # <<>>
  /\ LET token == Parsed(Head(tokens))
         duplicate == IsKind(token) /\ Duplicate(kind, token)
     IN IF token = "unrecognized" THEN Fail
        ELSE /\ tokens' = Tail(tokens)
             /\ kind' = IF IsKind(token) /\ ~duplicate THEN Merged(kind, token) ELSE kind
             /\ errors' = (errors \/ token = "packed" \/ duplicate)
             /\ UNCHANGED <<stage, item, plan, niche>>

ReprRead ==
  /\ stage = "repr" /\ tokens = <<>>
  /\ IF errors THEN Fail ELSE Check("options", FALSE)

(* parse_repr_c_attrs: every option is known, written once, and an attribute *)
(* that is there says something.                                            *)
OptionsAccepted(attrs) ==
  LET options == Options(attrs)
  IN /\ Range(options) \subseteq Known
     /\ \A i, j \in DOMAIN options : options[i] = options[j] => i = j
     /\ attrs # <<>> => options # <<>>

parse_repr_c_attrs ==
  /\ stage = "options"
  /\ IF ~OptionsAccepted(item.attrs) THEN Fail
     ELSE Check(IF Opt("transparent") THEN "transparent" ELSE IF Opt("identity") THEN "identity" ELSE "data", FALSE)

(* repr_c(transparent) is for a struct of one field, for a fieldless enum, and *)
(* for an enum of one variant, of no field or of one under repr(transparent).  *)
FieldlessEnum == IsEnum /\ Variants # <<>> /\ AllUnit

CheckTransparent ==
  /\ stage = "transparent"
  /\ LET fields == IF IsEnum THEN Variants[1].n ELSE item.n
         refused == \/ Opt("identity") \/ Opt("view") \/ Opt("__wide_data")
                    \/ item.shape = "union"
                    \/ IsEnum /\ Len(Variants) # 1 /\ ~FieldlessEnum
                    \/ fields # 1 /\ ~(IsEnum /\ fields = 0)
                    \/ IsEnum /\ ~FieldlessEnum /\ kind # Transparent
     IN IF refused THEN Fail ELSE Check("data", Opt("NICHE") \/ Opt("is_valid"))

(* repr_c(identity) is for a struct of a defined layout and an enum every value *)
(* of whose integer is a variant.                                              *)
IdentityRefused ==
  \/ Opt("move") \/ Opt("is_valid") \/ Opt("NICHE") \/ Opt("view") \/ Opt("__wide_data")
  \/ CASE item.shape = "struct" -> kind \notin {C, Transparent}
       [] IsEnum -> ~(HasIntegerRepr /\ ExhaustiveEnum)
       [] OTHER -> TRUE

CheckIdentity == stage = "identity" /\ Check("data", IdentityRefused)

(* An is_valid closure takes one argument per field. *)
type_is_valid_closure(attrs, fields, arity) == Has(attrs, "is_valid") => arity = fields

CheckStruct ==
  /\ stage = "data" /\ item.shape = "struct"
  /\ Check("report", Opt("allow_zero_tag") \/ ~type_is_valid_closure(item.attrs, item.n, item.arity))

VariantRefused(v) ==
  \/ Opt("identity") /\ Has(v.attrs, "is_valid")
  \/ ~type_is_valid_closure(v.attrs, v.n, v.arity)
  \/ Has(v.attrs, "NICHE") \/ Has(v.attrs, "view") \/ Has(v.attrs, "identity") \/ Has(v.attrs, "move")

CheckEnum ==
  /\ stage = "data" /\ IsEnum
  /\ IF \E i \in DOMAIN Variants : ~OptionsAccepted(Variants[i].attrs) THEN Fail
     ELSE Check("zero", \/ Opt("allow_zero_tag") \/ Opt("is_valid") \/ Opt("NICHE") \/ kind = C
                        \/ \E i \in DOMAIN Variants : VariantRefused(Variants[i]))

(* Where allow_zero_tag would mean nothing. *)
ZeroTagRefused ==
  \/ kind = Transparent
  \/ AllUnit /\ Len(Variants) = 1
  \/ ~AllUnit /\ ~HasIntegerRepr
  \/ ExhaustiveEnum

AllowsZero(v) == Has(v.attrs, "allow_zero_tag")

CheckZeroTags ==
  /\ stage = "zero"
  /\ Check("report", ZeroTagRefused /\ \E i \in DOMAIN Variants : AllowsZero(Variants[i]))

RefuseUnion == stage = "data" /\ item.shape = "union" /\ Fail

Report == stage = "report" /\ (IF errors THEN Fail ELSE Check("generate", FALSE))

-----------------------------------------------------------------------------
Emit(next, conversion, tag, tags) ==
  /\ stage' = next
  /\ plan' = [conversion |-> conversion, tag |-> tag, tags |-> tags]
  /\ UNCHANGED <<item, tokens, kind, errors, niche>>

FieldTransparent == Opt("transparent") /\ ~(IsEnum /\ \A i \in DOMAIN Variants : NoFields(Variants[i]))

(* A newtype: everything is the field's. *)
derive_field_repr_c == stage = "generate" /\ FieldTransparent /\ Emit("compiled", "field", "", <<>>)

RefuseUninhabited == stage = "generate" /\ ~FieldTransparent /\ IsEnum /\ Variants = <<>> /\ Fail

(* A struct, a type that is its own carrier, or a transparent enum. *)
Untagged == ~IsEnum \/ Opt("identity") \/ (is_transparent_enum_repr(kind, Variants) /\ ~AllUnit)

derive_item ==
  /\ stage = "generate" /\ ~FieldTransparent /\ Untagged /\ (IsEnum => Variants # <<>>)
  /\ IF IsEnum /\ kind = Transparent /\ Len(Variants) # 1
     THEN Emit("compiled", "none", "", <<>>)
     ELSE Emit("compiled", IF Opt("identity") THEN "identity" ELSE "record", "", <<>>)

(* A data enum is tagged with its representation's integer or an inferred one. *)
gen_enum_codec_impls ==
  /\ stage = "generate" /\ ~FieldTransparent /\ IsEnum /\ ~Untagged /\ ~AllUnit
  /\ IF ~HasTagType(kind) THEN Emit("panicked", "none", "", <<>>)
     ELSE LET tag == enum_tag_type(kind, Len(Variants))
          IN Emit("assert", "enum", tag, enum_variant_tag_exprs(Variants, tag))

(* A fieldless enum of one variant and no representation has no tag. *)
derive_fieldless_enum ==
  /\ stage = "generate" /\ ~FieldTransparent /\ IsEnum /\ Variants # <<>> /\ ~Opt("identity") /\ AllUnit
  /\ CASE kind = C -> Emit("panicked", "none", "", <<>>)
       [] is_transparent_enum_repr(kind, Variants) -> Emit("compiled", "unit", "", <<>>)
       [] OTHER -> LET tag == enum_tag_type(kind, Len(Variants))
                   IN Emit("assert", "fieldless", tag, tag_consts(Variants, tag))

(* The assertions on tag zero: where one is emitted for every variant. *)
ZeroTagAsserted ==
  /\ AllUnit \/ HasIntegerRepr
  /\ ~(AllUnit /\ Len(Variants) = 1)
  /\ ~is_transparent_enum_repr(kind, Variants)
  /\ ~ExhaustiveEnum

AssertZeroTags ==
  /\ stage = "assert"
  /\ IF ZeroTagAsserted /\ \E i \in DOMAIN Variants : (plan.tags[i] = 0) # AllowsZero(Variants[i])
     THEN Fail ELSE Check("niche", FALSE)

-----------------------------------------------------------------------------
(* gen_enum_niche_ir: a single unit variant and an exhausted tag have none. *)
HasNiche == ~(Len(Variants) = 1 /\ AllUnit) /\ ~ExhaustiveEnum

gen_enum_niche_ir == stage = "niche" /\ Check(IF HasNiche THEN "search" ELSE "compiled", FALSE)

Searched == \E i \in DOMAIN Variants : Variants[i].disc # <<>>

(* One round of gen_enum_niche_tag's loop: down from zero, wrapping, to the  *)
(* first tag that is no variant's.  Without explicit tags it is the largest. *)
Free(candidate) == \A i \in DOMAIN Variants : candidate # plan.tags[i]

gen_enum_niche_tag ==
  /\ stage = "search"
  /\ niche' = IF Searched /\ Free(niche) THEN niche ELSE Wrap(plan.tag, niche - 1)
  /\ stage' = IF Searched /\ ~Free(niche) THEN "search" ELSE "compiled"
  /\ UNCHANGED <<item, tokens, kind, errors, plan>>

DeriveNext ==
        \/ parse_repr \/ ReprRead \/ parse_repr_c_attrs
        \/ CheckTransparent \/ CheckIdentity \/ CheckStruct \/ CheckEnum \/ CheckZeroTags
        \/ RefuseUnion \/ Report
        \/ derive_field_repr_c \/ RefuseUninhabited \/ derive_item
        \/ gen_enum_codec_impls \/ derive_fieldless_enum
        \/ AssertZeroTags \/ gen_enum_niche_ir \/ gen_enum_niche_tag

-----------------------------------------------------------------------------
(* rustc's own discriminants: explicit, or one more than the previous, from 0. *)
Discriminant(i) ==
  LET disc[j \in 1..i] == IF Variants[j].disc # <<>> THEN Variants[j].disc[1]
                          ELSE IF j = 1 THEN 0 ELSE disc[j - 1] + 1
  IN disc[i]

Discriminants == [i \in DOMAIN Variants |-> Wrap(plan.tag, Discriminant(i))]

(* No two discriminants are the same modulo the tag.  rustc sees to it for  *)
(* an integer representation, but not for a tag inferred from the number of *)
(* variants of an enum whose discriminants do not fit it.                   *)
Fit == IsInjective(Discriminants)

(* TagsDistinguish: the tags a generated encoder writes are the enum's own   *)
(* discriminants, by which a Stable enum is reinterpreted and a generated    *)
(* decoder selects; they tell the variants apart; and the niche, which an    *)
(* Option of the enum takes for None, is the tag of no variant.  The two     *)
(* computations of the tags agree.                                           *)
TagsDistinguish ==
  stage = "compiled" /\ plan.tags # <<>> /\ Fit =>
    /\ plan.tags = Discriminants
    /\ IsInjective(plan.tags)
    /\ enum_variant_tag_exprs(Variants, plan.tag) = tag_consts(Variants, plan.tag)
    /\ HasNiche => niche \notin Range(plan.tags)
=============================================================================
