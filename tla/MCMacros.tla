------------------------------ MODULE MCMacros ------------------------------
(* Items to derive for, of every shape and with every option, and declarations to expand. *)
EXTENDS Macros

None == <<>>
Field(n) == [unit |-> FALSE, n |-> n, disc |-> None, attrs |-> <<>>, arity |-> 0]
UnitOf(disc) == [unit |-> TRUE, n |-> 0, disc |-> disc, attrs |-> <<>>, arity |-> 0]
Marked(v, option) == [v EXCEPT !.attrs = <<<<option>>>>]

Item(shape, repr, attrs, n, arity, variants) ==
  [shape |-> shape, repr |-> repr, attrs |-> attrs, n |-> n, arity |-> arity, variants |-> variants]

Reprs == {<<>>, <<"transparent">>, <<"C">>, <<"u8">>, <<"i8">>, <<"u16">>, <<"usize">>, <<"C", "u8">>, <<"u16", "C">>,
          <<"C", "align", "C">>, <<"u8", "u16">>, <<"C", "u8", "u8">>, <<"transparent", "C">>, <<"packed">>, <<"other">>}

TypeOptions == {<<>>, <<<<>>>>, <<<<"unknown">>>>, <<<<"move">>, <<"move">>>>, <<<<"transparent", "NICHE">>>>,
                <<<<"transparent", "identity">>>>, <<<<"transparent">>, <<"is_valid">>>>, <<<<"identity", "move">>>>}
               \cup {<<<<o>>>> : o \in Known}

(* Every sequence of explicit and implicit tags, its mark for zero on at most one variant. *)
Discs == {None, <<-2>>, <<-1>>, <<0>>, <<1>>, <<3>>}
MarkAt(v, i) == IF i = 0 THEN v ELSE [v EXCEPT ![i] = Marked(@, "allow_zero_tag")]

Shapes == {<<>>, <<Field(0)>>, <<Field(1)>>, <<Field(2)>>, <<UnitOf(None)>>, <<Field(1), UnitOf(None)>>,
           <<UnitOf(None), Field(1), Field(0)>>, <<UnitOf(None), UnitOf(None)>>,
           <<UnitOf(<<1>>), Field(1)>>, <<UnitOf(None), UnitOf(<<1>>), UnitOf(None), UnitOf(None)>>,
           <<Marked(UnitOf(None), "allow_zero_tag"), Field(2)>>,
           <<Marked(Field(1), "NICHE"), UnitOf(None)>>, <<[Marked(Field(1), "is_valid") EXCEPT !.arity = 1], UnitOf(<<1>>)>>,
           <<Marked(Field(1), "is_valid")>>, <<Marked(UnitOf(None), "unknown")>>,
           [i \in 1..5 |-> UnitOf(None)], [i \in 1..5 |-> Marked(UnitOf(None), "allow_zero_tag")],
           [i \in 1..8 |-> UnitOf(<<8 - i>>)], [i \in 1..8 |-> Marked(UnitOf(None), "allow_zero_tag")]}

(* rustc: explicit discriminants beside fields need an integer, every discriminant *)
(* is different and fits the integer, and repr(transparent) has one variant.       *)
Bounds(repr) == CASE "i8" \in Range(repr) -> -2..1
                  [] "u8" \in Range(repr) -> 0..3
                  [] "u16" \in Range(repr) -> 0..7
                  [] "usize" \in Range(repr) -> 0..15
                  [] OTHER -> -8..8

DiscriminantsOf(v) ==
  LET disc[j \in DOMAIN v] == IF v[j].disc # None THEN v[j].disc[1] ELSE IF j = 1 THEN 0 ELSE disc[j - 1] + 1 IN disc

Accepted(repr, v) ==
  LET discs == DiscriminantsOf(v)
  IN /\ IsInjective(discs)
     /\ Range(discs) \subseteq Bounds(repr)
     /\ (\E j \in DOMAIN v : v[j].disc # None) /\ (\E j \in DOMAIN v : ~v[j].unit) => Integer \cap Range(repr) # {}
     /\ "transparent" \in Range(repr) => Len(v) = 1

Enums(reprs, attrs, variants) ==
  {i \in {Item("enum", r, a, 0, 0, v) : r \in reprs, a \in attrs, v \in variants} : Accepted(i.repr, i.variants)}

Plain(n) == {[i \in 1..n |-> UnitOf(d[i])] : d \in [1..n -> Discs]}

(* The internal option __wide_data is only ever written on a generated struct. *)
EnumOptions == {a \in TypeOptions : "__wide_data" \notin Range(FlattenSeq(a))}

Structs == {Item("struct", r, a, n, 1, <<>>) : r \in Reprs, a \in TypeOptions, n \in 0..2}
Unions == {Item("union", r, a, 1, 1, <<>>) : r \in {<<>>, <<"C">>}, a \in TypeOptions}
EnumsOfAnyShape == Enums(Reprs, EnumOptions, Shapes)
Fieldless(n) == {MarkAt(v, i) : v \in Plain(n), i \in 0..n}
FieldlessEnums(n) == Enums({<<>>, <<"u8">>, <<"i8">>, <<"C", "u8">>, <<"usize">>}, {<<>>, <<<<"transparent">>>>}, Fieldless(n))
FullEnums == Enums({<<"u8">>, <<"i8">>}, {<<>>}, Fieldless(4))

AllItems == {Structs, Unions, EnumsOfAnyShape, FieldlessEnums(2), FieldlessEnums(3), FullEnums}

-----------------------------------------------------------------------------
(* Declarations: T and U are type parameters and N a constant, Foo and Bar *)
(* declared types, of which Foo has a tag.  Types that are spelled alike:  *)
(* wrap_u8 is an identifier as well as what is left of a wrapped u8, the   *)
(* self of a qualified path is dropped, as is a sign, and the two declared *)
(* types of a block that gives both one fragment.  The names of a_b and    *)
(* a__b are words of their own.                                            *)
ByFoo == "<Foo as Tr>::A"
ByBar == "<Bar as Tr>::A"

MCWords(name) ==
  CASE name \in {ByFoo, ByBar} -> <<"Tr", "A">>
    [] name = "wrap_u8" -> <<"wrap", "u8">>
    [] name = "-1" -> <<"1">>
    [] name = "a_b" -> <<"a", "b">>
    [] name = "b_c" -> <<"b", "c">>
    [] name = "a__b" -> <<"a", "", "b">>
    [] name = "b__c" -> <<"b", "", "c">>
    [] OTHER -> <<name>>

P(leaf) == [layers |-> <<>>, leaf |-> leaf, path |-> "plain"]
Assoc(leaf) == [P(leaf) EXCEPT !.path = "assoc"]
In(layer, ty) == [ty EXCEPT !.layers = <<layer>> \o @]
Ref(ty) == In("ref", ty)
Vec(ty) == In("wrap", ty)
Opaque(ty) == In("decl", ty)

MCFragments == [ty \in {P("Foo"), P("Bar")} |-> <<"handle">>]

Parameter(name, sort, dyn, payload) == [name |-> name, kind |-> sort, dyn |-> dyn, payload |-> payload, outer |-> FALSE]
Static(name) == Parameter(name, "type", FALSE, FALSE)
Dyn(name) == Parameter(name, "type", TRUE, FALSE)
DynAs(name) == Parameter(name, "type", TRUE, TRUE)
Const(name) == Parameter(name, "const", FALSE, FALSE)
Outer(params) == [i \in DOMAIN params |-> [params[i] EXCEPT !.outer = TRUE]]

Group(params, targets) == [params |-> params, targets |-> targets]
One(name, types) == Group(<<name>>, [i \in DOMAIN types |-> <<types[i]>>])

(* What a parameter can be selected as. *)
Picks == {<<P("i32"), P("u8")>>, <<P("Foo"), P("Bar")>>, <<P("Foo"), P("i32")>>, <<Vec(P("Foo")), Opaque(P("i32"))>>,
          <<P(ByFoo), P(ByBar)>>, <<Vec(P("u8")), P("wrap_u8")>>}

UsesOf(name) ==
  {<<>>, <<<<One(name, <<>>)>>>>, <<<<One(name, <<P("0")>>)>>>>, <<<<One("X", <<P("i32")>>)>>>>,
   <<<<One(name, <<P("i32")>>), One(name, <<P("u8")>>)>>>>, <<<<Group(<<name>>, <<<<P("i32"), P("u8")>>>>)>>>>,
   <<<<One(name, <<P("i32")>>)>>, <<One(name, <<P("i32")>>)>>>>, <<<<One(name, <<Vec(P(name))>>)>>>>}
  \cup {<<<<One(name, pick)>>>> : pick \in Picks}

UsesOfTwo ==
  {<<>>, <<<<Group(<<"T", "U">>, <<<<P("Foo"), P("i32")>>, <<P("Bar"), P("u8")>>>>)>>>>,
   <<<<One("T", <<P("U")>>), One("U", <<P("T")>>)>>>>}
  \cup {<<<<One("T", t), One("U", u)>>>> :
          t \in {<<P("U")>>, <<Vec(P("U"))>>, <<Opaque(P("U"))>>, <<Ref(P("U")), P("i32")>>, <<P("Foo"), P("Bar")>>},
          u \in {<<P("i32"), P("u8")>>, <<P("Foo"), P("Bar")>>}}
  \cup {<<<<One("T", <<P("Foo"), P("Bar")>>), One("U", <<P("T")>>)>>>>, <<<<One("U", <<P("i32"), P("u8")>>)>>>>}

Value(ty) == [form |-> "value", ty |-> ty]
Tag(name) == [form |-> "tag", ty |-> P(name)]
Unpack(ty) == [form |-> "unpack", ty |-> ty]
Receiver == [form |-> "receiver", ty |-> Ref(P("Self"))]

TypesOf(name) == {P(name), Ref(P(name)), Vec(P(name)), Ref(Vec(P(name))), Vec(Ref(P(name))), Opaque(P(name)),
                  Ref(Opaque(P(name))), Assoc(name)}

ArgsOf(name) == {<<>>} \cup {<<Value(ty)>> : ty \in TypesOf(name)}
                \cup {<<Tag(name), Value(Ref(P(name)))>>, <<Value(Ref(P(name))), Tag(name)>>, <<Tag(name)>>,
                      <<Tag(name), Value(Ref(P(name))), Tag(name)>>, <<Tag("X"), Value(Ref(P(name)))>>,
                      <<Tag(name), Unpack(Ref(P(name)))>>, <<Unpack(P(name))>>}

ArgsOfTwo == {<<Value(t), Value(u)>> : t \in {Ref(P("T")), Vec(P("T")), Opaque(P("T"))},
                                       u \in {P("U"), Ref(P("U")), Opaque(P("U")), Vec(P("U"))}}
             \cup {<<Value(Ref(P("T")))>>, <<Value(Assoc("T"))>>, <<Value(P("U"))>>, <<Tag("U"), Value(Ref(P("T"))), Tag("T")>>}

Symbols == {<<>>, <<<<>>>>, <<<<"T">>>>, <<<<"T", "T">>>>, <<<<"T", "U">>>>}

Fn(dir, params, uses, args, out, names) ==
  [dir |-> dir, impl |-> FALSE, self |-> P("i32"), trait |-> <<>>, dynSelf |-> FALSE, params |-> params,
   outerUses |-> <<>>, innerUses |-> uses, args |-> args, out |-> out, symbol |-> names]

Method(dir, self, trait, dynSelf, outer, outerUses, params, uses, args, names) ==
  [dir |-> dir, impl |-> TRUE, self |-> self, trait |-> trait, dynSelf |-> dynSelf, params |-> Outer(outer) \o params,
   outerUses |-> outerUses, innerUses |-> uses, args |-> args, out |-> <<>>, symbol |-> names]

Dirs == {"export", "extern"}
Kinds(name) == {Static(name), Dyn(name), DynAs(name)}

Functions1 ==
  {Fn(d, <<p>>, u, a, <<>>, <<>>) : d \in Dirs, p \in Kinds("T"), u \in UsesOf("T"), a \in ArgsOf("T")}

Functions1Out ==
  {Fn(d, <<Static("T")>>, u, <<Value(P("i32"))>>, <<o>>, n) :
     d \in Dirs, u \in {<<<<One("T", pick)>>>> : pick \in Picks}, o \in TypesOf("T"), n \in Symbols}

FunctionsOfConst ==
  {Fn(d, <<Const("N")>>, u, <<>>, o, n) :
     d \in Dirs, u \in {<<>>, <<<<One("N", <<P("0"), P("1")>>)>>>>, <<<<One("N", <<P("1"), P("-1")>>)>>>>}, o \in {<<>>, <<Vec(P("N"))>>, <<Opaque(P("N"))>>},
     n \in {<<>>, <<<<"N">>>>}}

OtherFunctions ==
  {Fn(d, params, <<>>, a, <<>>, <<>>) :
     d \in Dirs, params \in {<<>>, <<Parameter("T", "type", FALSE, TRUE)>>}, a \in {<<>>, <<Value(P("i32"))>>}}

Functions2 ==
  {Fn(d, <<t, u>>, uses, a, <<>>, n) :
     d \in Dirs, t \in Kinds("T"), u \in {Static("U"), Dyn("U")}, uses \in UsesOfTwo, a \in ArgsOfTwo, n \in {<<>>, <<<<"T">>>>}}

Selves == {P("T"), Vec(P("T")), Opaque(P("T")), P("Foo")}

Methods1 ==
  {Method(d, s, tr, FALSE, <<p>>, u, <<>>, <<>>, a, <<>>) :
     d \in Dirs, s \in Selves, tr \in {<<>>, <<P("T")>>}, p \in Kinds("T"),
     u \in {<<>>} \cup {<<<<One("T", pick)>>>> : pick \in Picks},
     a \in {<<>>, <<Receiver>>, <<Tag("T"), Receiver>>, <<Value(Ref(P("T"))), Receiver>>, <<Receiver, Value(Vec(P("T")))>>}}

Methods2 ==
  {Method(d, s, tr, FALSE, <<t>>, <<<<One("T", pick)>>>>, <<u>>, uses, <<Receiver, Value(ty)>>, <<>>) :
     d \in Dirs, s \in Selves, tr \in {<<>>, <<P("i32")>>}, t \in {Static("T"), Dyn("T")}, pick \in Picks,
     u \in {Static("U"), Dyn("U"), Static("T")}, uses \in {<<>>, <<<<One("U", <<P("i32"), P("Foo")>>)>>>>, <<<<One("U", <<P("Self")>>)>>>>},
     ty \in {Ref(P("U")), Vec(P("U")), Opaque(P("T"))}}

MethodsOfDyn ==
  {Method(d, s, <<>>, TRUE, outer, u, params, uses, a, <<>>) :
     d \in Dirs, s \in {P("Foo"), P("Bar"), P("T")}, outer \in {<<>>, <<Dyn("T")>>}, u \in {<<>>, <<<<One("T", <<P("Foo")>>)>>>>},
     params \in {<<>>, <<Static("U")>>, <<Dyn("U")>>}, uses \in {<<>>, <<<<One("U", <<P("i32"), P("Foo")>>)>>>>},
     a \in {<<Receiver>>, <<Tag("Self"), Receiver>>, <<Receiver, Value(Ref(P("U"))), Value(Ref(P("T")))>>}}

(* T is selected as a type made of U, itself selected or not, next to S that is. *)
FunctionsOfOthers ==
  {Fn(d, <<t, u, Static("S")>>, <<<<One("T", <<ty>>), One("S", <<P("i32"), P("u8")>>)>> \o more>>, <<Value(P("S")), Value(a)>> \o b, <<>>, <<>>) :
     d \in Dirs, t \in {Static("T"), Dyn("T")}, u \in Kinds("U"), ty \in {P("U"), Assoc("U"), Ref(P("U"))},
     more \in {<<>>, <<One("U", <<P("Foo"), P("Bar")>>)>>}, a \in {P("T"), Ref(P("T")), Vec(P("T"))},
     b \in {<<>>, <<Value(Ref(P("U")))>>, <<Value(Opaque(P("U"))), Value(Assoc("U"))>>, <<Tag("U"), Unpack(Ref(P("U")))>>}}

(* Selections whose words run into each other, with two underscores or with one. *)
FunctionsOfNames ==
  {Fn(d, <<Static("T"), Static("U")>>, <<<<One("T", t), One("U", u)>>>>, <<Value(P("T")), Value(Vec(P("U")))>>, <<>>, n) :
     d \in Dirs, t \in {<<P("a"), P("a_b")>>, <<P("a"), P("a__b")>>}, u \in {<<P("b_c"), P("c")>>, <<P("b__c"), P("c")>>},
     n \in {<<>>, <<<<"U", "T">>>>}}

AllDeclarations ==
  {Functions1, FunctionsOfOthers, Functions1Out, FunctionsOfConst, OtherFunctions, Functions2, Methods1, Methods2, MethodsOfDyn,
   FunctionsOfNames}
=============================================================================
