----------------------------- MODULE Declaration -----------------------------
(***************************************************************************)
(* ffi!: one function, or one method of an impl, from its declaration to   *)
(* the foreign declarations generated for it.  The macro parses the `use`  *)
(* predicates, validates the parameters, adds the tags of the runtime      *)
(* parameters, names the symbols, and then makes a binding for every       *)
(* selection of the static parameters, whose types it substitutes until    *)
(* none is left.                                                           *)
(*                                                                         *)
(* A type is [layers, leaf, path]: the references, named wrappers and      *)
(* declared types around a leaf, outermost first, and whether the leaf is  *)
(* "plain", the start of a projection ("assoc"), or what a projection or a *)
(* constant was replaced by ("selected").  A parameter is [name, kind,     *)
(* dyn, payload, outer], `outer` for the generics of the impl.  A use      *)
(* predicate is a sequence of groups [params, targets], a target one       *)
(* argument per parameter.  An argument of the signature is [form, ty];    *)
(* form "tag" is `<dyn ty>::TAG`.                                          *)
(***************************************************************************)
EXTENDS Integers, Sequences, FiniteSets, SequencesExt

CONSTANTS
  Declarations,    \* the declarations expanded, by family
  DeclaredTypes,   \* the types the ffi! block declares, opaque across the boundary
  TaggedTypes,     \* those of them with a tag
  Words(_),        \* a name as the words, between underscores, that sanitizing leaves of it
  Fragments        \* symbol_fragments: the words the block gives for a type

ASSUME TaggedAssumption == TaggedTypes \subseteq DeclaredTypes

Consts == {"0", "1", "-1"}

is_builtin_symbol_fragment_type(ty) ==
  ty.layers = <<>> /\ ty.leaf \in
    {"bool", "char", "str", "i8", "i16", "i32", "i64", "i128", "isize",
     "u8", "u16", "u32", "u64", "u128", "usize", "f32", "f64"}

(* Fragments are given for paths.  What they are is not compared. *)
ASSUME FragmentsAssumption ==
  \A ty \in DOMAIN Fragments :
    ~is_builtin_symbol_fragment_type(ty) /\ (ty.layers # <<>> => Head(ty.layers) # "ref")

TypeSet == [layers : Seq({"ref", "wrap", "decl"}), leaf : STRING, path : {"plain", "assoc"}]
ParameterSet == [name : STRING, kind : {"type", "const"}, dyn : BOOLEAN, payload : BOOLEAN, outer : BOOLEAN]
GroupSet == [params : Seq(STRING), targets : Seq(Seq(TypeSet))]
ArgumentSet == [form : {"value", "tag", "unpack", "receiver"}, ty : TypeSet]
DeclarationSet ==
  [dir : {"export", "extern"}, impl : BOOLEAN, self : TypeSet, trait : Seq(TypeSet), dynSelf : BOOLEAN,
   params : Seq(ParameterSet), outerUses : Seq(Seq(GroupSet)), innerUses : Seq(Seq(GroupSet)),
   args : Seq(ArgumentSet), out : Seq(TypeSet), symbol : Seq(Seq(STRING))]

(* What syn and rustc see to: a leaf is a resolved name, so that no parameter  *)
(* is also something else and none of a scope is declared twice; the header of *)
(* an impl does not reach the generics of its methods; a tag names a parameter *)
(* or Self, and a receiver is Self or a reference to it.                       *)
NamesOf(d, outer) == {d.params[i].name : i \in {k \in DOMAIN d.params : d.params[k].outer = outer}}

Resolved(d) ==
  LET inner == NamesOf(d, FALSE) \ NamesOf(d, TRUE)
  IN /\ \A i, j \in DOMAIN d.params :
          d.params[i].name = d.params[j].name /\ d.params[i].outer = d.params[j].outer => i = j
     /\ (NamesOf(d, TRUE) \cup NamesOf(d, FALSE)) \cap ({"Self", "void", "payload"} \cup Consts \cup DeclaredTypes) = {}
     /\ d.impl \/ (NamesOf(d, TRUE) = {} /\ d.outerUses = <<>> /\ ~d.dynSelf)
     /\ \A ty \in {d.self} \cup Range(d.trait) : ty.leaf \notin inner
     /\ \A gs \in Range(d.outerUses) : \A i \in DOMAIN gs : \A t \in Range(gs[i].targets) : \A ty \in Range(t) : ty.leaf \notin inner

ArgumentsFormed(d) ==
  Len(d.out) <= 1 /\ \A a \in Range(d.args) :
    /\ a.form = "tag" => a.ty.layers = <<>> /\ a.ty.path = "plain"
    /\ a.form = "receiver" => a.ty.leaf = "Self" /\ a.ty.path = "plain" /\ Range(a.ty.layers) \subseteq {"ref"}

ASSUME DeclarationAssumption ==
  \A family \in Declarations : \A d \in family : d \in DeclarationSet /\ Resolved(d) /\ ArgumentsFormed(d)

VARIABLES
  phase,     \* the step of the expansion that is next, or how it ended
  decl,
  refused,   \* an error was pushed; reported when the checks are through
  groups,    \* the groups selected from, Self replaced
  inputs,    \* the arguments, the synthesized tags among them
  symbol,    \* the static parameters interpolated into the symbol
  bindings   \* the foreign declarations: [symbol, sub, types], the symbol as its words

declVars == <<phase, decl, refused, groups, inputs, symbol, bindings>>

Names == {p.name : p \in Range(decl.params)}
Param(name) == CHOOSE p \in Range(decl.params) : p.name = name
IsRuntime(name) == name \in Names /\ Param(name).dyn
Payloadless(name) == IsRuntime(name) /\ ~Param(name).payload
Scope(outer) == {p \in Range(decl.params) : p.outer = outer}
Runtime(params) == {p.name : p \in {q \in params : q.dyn}}

Places(gs, name) == UNION {{<<i, k>> : k \in {n \in DOMAIN gs[i].params : gs[i].params[n] = name}} : i \in DOMAIN gs}
Members(gs) == UNION {Range(gs[i].params) : i \in DOMAIN gs}
contains_param(gs, name) == name \in Members(gs)
Targets(gs, name) ==
  UNION {{t[j] : t \in Range(gs[i].targets), j \in {k \in DOMAIN gs[i].params : gs[i].params[k] = name}} : i \in DOMAIN gs}

(* How a detector that looks for a name sees a type: everywhere, or not past *)
(* a declared type, whose argument does not show at the boundary.            *)
Mentions(ty, name) == ty.leaf = name
Hidden(ty) == "decl" \in Range(ty.layers)
Wrapped(ty) == "wrap" \in Range(ty.layers)
ErasedSeen(ty, name) == Mentions(ty, name) /\ (Hidden(ty) \/ ty.path = "plain")
ErasedExposed(ty, name) == Mentions(ty, name) /\ ~Hidden(ty) /\ ty.path = "plain"

is_direct_declared_type(ty) ==
  IF ty.layers = <<>> THEN ty.leaf \in DeclaredTypes /\ ty.path = "plain" ELSE Head(ty.layers) = "decl"

(* visit_signature_positions: a receiver is not one, a tag is. *)
Positions == {a.ty : a \in {b \in Range(decl.args) : b.form # "receiver"}} \cup Range(decl.out)

-----------------------------------------------------------------------------
(* The predicate of one scope, whose groups are not empty, select parameters *)
(* declared there and each of them at most once.                             *)
Groups(uses) == IF uses = <<>> THEN <<>> ELSE uses[1]

parse_dispatch_group(gs, declared) ==
  /\ \A i \in DOMAIN gs : gs[i].params # <<>> /\ Range(gs[i].params) \subseteq declared
  /\ \A name \in Members(gs) : \A p, q \in Places(gs, name) : p = q

KindOf(ty) == IF ty.leaf \in Consts \/ (ty.leaf \in Names /\ Param(ty.leaf).kind = "const") THEN "const" ELSE "type"

validate_dispatch_targets(gs) ==
  \A i \in DOMAIN gs :
    /\ gs[i].targets # <<>>
    /\ \A t \in Range(gs[i].targets) :
         /\ Len(t) = Len(gs[i].params)
         /\ \A j \in DOMAIN t : KindOf(t[j]) = Param(gs[i].params[j]).kind

parse_dispatch_attr(uses, outer) ==
  /\ Len(uses) <= 1
  /\ parse_dispatch_group(Groups(uses), {p.name : p \in Scope(outer)})
  /\ validate_dispatch_targets(Groups(uses))

(* for_each_combination, each as the argument it selects for a parameter. *)
Combinations(gs) ==
  {c \in [DOMAIN gs -> UNION {DOMAIN gs[i].targets : i \in DOMAIN gs}] :
     \A i \in DOMAIN gs : c[i] \in DOMAIN gs[i].targets}

Selection(gs, c) ==
  [name \in Members(gs) |->
     LET i == CHOOSE i \in DOMAIN gs : name \in Range(gs[i].params)
         j == CHOOSE j \in DOMAIN gs[i].params : gs[i].params[j] = name
     IN gs[i].targets[c[i]][j]]

(* Self in a target stands for the type of the impl. *)
InSelf(ty) == [layers |-> ty.layers \o decl.self.layers, leaf |-> decl.self.leaf, path |-> decl.self.path]
concretize_self(ty) == IF decl.impl /\ ty.leaf = "Self" THEN InSelf(ty) ELSE ty

dispatch_target_mentions_param(ty, name) == Mentions(concretize_self(ty), name) \/ Mentions(ty, name)

(* No selection leads back to the parameter it is selected for. *)
validate_dispatch_cycles(gs) ==
  \A c \in Combinations(gs) :
    LET sel == Selection(gs, c)
    IN \A S \in SUBSET DOMAIN sel \ {{}} :
         \E name \in S : \A other \in S : ~dispatch_target_mentions_param(sel[name], other)

Parses(uses, outer) == parse_dispatch_attr(uses, outer) /\ validate_dispatch_cycles(Groups(uses))

Concretized(gs) ==
  [i \in DOMAIN gs |-> [gs[i] EXCEPT !.targets = [t \in DOMAIN @ |-> [j \in DOMAIN @[t] |-> concretize_self(@[t][j])]]]]

OuterGroups == Concretized(Groups(decl.outerUses))
InnerGroups == Concretized(Groups(decl.innerUses))

-----------------------------------------------------------------------------
(* payloadless_dependency: the parameter is what every selection of a runtime *)
(* parameter without payload is made of, so that it does not show either.     *)
Dependency(gs, local, name) ==
  LET owners == {o \in Members(gs) : \E t \in Targets(gs, o) : Mentions(t, name)}
      hidden(o) == /\ \E p \in local : p.name = o /\ p.dyn /\ ~p.payload
                   /\ \A t \in Targets(gs, o) : Mentions(t, name)
  IN [invalid |-> \E o \in owners : ~hidden(o), valid |-> owners # {} /\ \A o \in owners : hidden(o)]

Open(p, gs) == p.dyn /\ p.payload /\ ~contains_param(gs, p.name)

SeenIn(types, name) == \E ty \in types : ErasedSeen(ty, name)
ExposedIn(types, name) == \E ty \in types : ErasedExposed(ty, name)

validate_callable_parameter_usage(gs) ==
  \A p \in Scope(FALSE) :
    \/ Open(p, gs) \/ contains_param(gs, p.name)
    \/ SeenIn(Positions, p.name) \/ Dependency(gs, Scope(FALSE), p.name).valid

(* Only its tag and what is unpacked is made of the parameter. *)
runtime_param_has_stable_abi(name) ==
  LET uses == {a \in Range(decl.args) : a.form # "receiver" /\ Mentions(a.ty, name)}
  IN /\ uses # {} /\ \A a \in uses : a.form = "unpack" \/ (a.form = "tag" /\ a.ty.layers = <<>>)
     /\ \A ty \in Range(decl.out) : ~Mentions(ty, name)

(* A parameter that is used has to be selected; not so, in an import, a static *)
(* one the boundary does not see.                                             *)
validate_callable_parameter_bounds(gs, require) ==
  \A p \in Scope(FALSE) :
    LET dependency == Dependency(gs, Scope(FALSE), p.name)
        used == SeenIn(Positions, p.name) \/ dependency.valid
        shows == p.dyn \/ dependency.invalid \/ ExposedIn(Positions, p.name)
    IN /\ ~Open(p, gs)
       /\ \/ contains_param(gs, p.name)
          \/ p.dyn /\ ~require /\ runtime_param_has_stable_abi(p.name)
          \/ ~used \/ shows = require

ImplTypes == {decl.self} \cup Range(decl.trait)

impl_param_use(name) ==
  LET dependency == Dependency(OuterGroups, Scope(TRUE), name)
  IN [used |-> (\E ty \in ImplTypes : Mentions(ty, name)) \/ dependency.valid,
      exposed |-> ExposedIn(ImplTypes, name) \/ dependency.invalid]

validate_impl_generic_usage ==
  \A p \in Scope(TRUE) : Open(p, OuterGroups) \/ impl_param_use(p.name).used

validate_impl_generic_bounds(require) ==
  \A p \in Scope(TRUE) :
    \/ contains_param(OuterGroups, p.name)
    \/ /\ ~Open(p, OuterGroups)
       /\ LET use == impl_param_use(p.name) IN ~use.used \/ (p.dyn \/ use.exposed) = require

validate_parameter_bounds(require) ==
  validate_impl_generic_bounds(require) /\ validate_callable_parameter_bounds(InnerGroups, require)

-----------------------------------------------------------------------------
(* direct_selection_types: every selection is a declared type, all one pointer. *)
DirectlyErased(name) == \A t \in Targets(groups, name) : is_direct_declared_type(t)

(* Mutant: a parameter inside a wrapper is taken for one behind a pointer. *)
ExposedUnlessDirect(ty, name) ==
  Mentions(ty, name) /\ ~Hidden(ty) /\ (ty.path # "plain" \/ ~DirectlyErased(name))

SymbolExposed(ty, name) ==
  Mentions(ty, name) /\ ~Hidden(ty) /\ (ty.path # "plain" \/ Wrapped(ty) \/ ~DirectlyErased(name))

(* The static parameters that are selected and that the boundary sees; with    *)
(* `direct` those too whose selections all are opaque.  One that is not seen   *)
(* at all only counts on the function's own generics.                          *)
symbol_binding_params(direct, outer) ==
  LET types == Positions \cup (IF decl.impl THEN {decl.self} ELSE {})
      owned(open) == UNION {Targets(groups, o) : o \in {n \in Members(groups) : Payloadless(n) = open}}
      exposed(name) == \E ty \in types \cup owned(FALSE) : SymbolExposed(ty, name)
      seen(name) == \E ty \in types \cup owned(FALSE) \cup owned(TRUE) : Mentions(ty, name)
  IN {p.name : p \in {q \in Range(decl.params) :
        /\ ~q.dyn /\ contains_param(groups, q.name)
        /\ \/ q.kind = "const" \/ exposed(q.name)
           \/ direct /\ DirectlyErased(q.name)
           \/ q \notin outer /\ ~seen(q.name)}}

impl_method_symbol_binding_params == symbol_binding_params(FALSE, Scope(TRUE))
impl_method_static_binding_params == symbol_binding_params(TRUE, Scope(TRUE))

-----------------------------------------------------------------------------
DeclInit ==
  /\ \E family \in Declarations : decl \in family
  /\ phase = "parse"
  /\ refused = FALSE
  /\ groups = <<>> /\ inputs = decl.args /\ symbol = {} /\ bindings = {}

Continue(next, accepted) ==
  /\ phase' = next
  /\ refused' = (refused \/ ~accepted)
  /\ UNCHANGED <<decl, groups, inputs, symbol, bindings>>

Refuse == phase' = "rejected" /\ UNCHANGED <<decl, refused, groups, inputs, symbol, bindings>>

(* normalize_impl and normalize_fn: nothing is validated of what does not parse. *)
normalize ==
  /\ phase = "parse"
  /\ IF Parses(decl.outerUses, TRUE) /\ Parses(decl.innerUses, FALSE)
     THEN /\ phase' = "generics"
          /\ groups' = OuterGroups \o InnerGroups
          /\ UNCHANGED <<decl, refused, inputs, symbol, bindings>>
     ELSE Refuse

(* A trait method has no generics, and a method's do not shadow its impl's. *)
validate_method_generic_declarations ==
  /\ phase = "generics"
  /\ IF decl.impl /\ (\/ decl.trait # <<>> /\ Scope(FALSE) # {}
                      \/ {p.name : p \in Scope(TRUE)} \cap {p.name : p \in Scope(FALSE)} # {})
     THEN Refuse ELSE Continue("self", TRUE)

(* `dyn Self` is a declared type that has a tag, and no parameter. *)
validate_packed_dyn_self_decls ==
  /\ phase = "self"
  /\ Continue("symbols", decl.dynSelf => /\ decl.self.leaf \notin Names
                                         /\ decl.self.leaf \in DeclaredTypes => decl.self.leaf \in TaggedTypes)

(* An explicit symbol interpolates every parameter that has to be, once, and no other. *)
validate_static_symbol_interpolations ==
  /\ phase = "symbols"
  /\ Continue("parameters", decl.symbol # <<>> =>
       IsInjective(decl.symbol[1]) /\ Range(decl.symbol[1]) = impl_method_symbol_binding_params)

validate_parameter_bindings ==
  /\ phase = "parameters"
  /\ Continue("shape", /\ validate_impl_generic_usage
                       /\ validate_callable_parameter_usage(InnerGroups)
                       /\ validate_parameter_bounds(FALSE))

(* A parameter with a payload is written alone or behind references. *)
validate_dispatch_param_positions ==
  \A ty \in {a.ty : a \in {b \in Range(decl.args) : b.form = "value"}} \cup Range(decl.out) :
    IsRuntime(ty.leaf) /\ ~Payloadless(ty.leaf) => ~Hidden(ty) /\ ~Wrapped(ty) /\ ty.path = "plain"

validate_type_param_defaults == \A p \in Range(decl.params) : p.payload => p.dyn

validate_shared ==
  /\ phase = "shape"
  /\ Continue(decl.dir, validate_dispatch_param_positions /\ validate_type_param_defaults)

Tags(args) == {i \in DOMAIN args : args[i].form = "tag"}

(* Only tags come before the receiver. *)
validate_receiver_position ==
  \A i \in DOMAIN decl.args : decl.args[i].form = "receiver" => 1..(i - 1) \subseteq Tags(decl.args)

(* An export selects every parameter and leaves tags and unpacking to the macro. *)
ExportAccepted ==
  /\ validate_parameter_bounds(TRUE)
  /\ \A i \in DOMAIN decl.args : decl.args[i].form # "unpack"
  /\ Tags(decl.args) = {}
  /\ decl.impl => validate_receiver_position

Dispatched(gs, params) == gs # <<>> \/ Runtime(params) # {}

(* An explicit tag is of a runtime parameter or of Self, and there is one of each. *)
validate_extern_dispatch_sig ==
  Dispatched(groups, Range(decl.params)) =>
    /\ \A i \in Tags(decl.args) : decl.args[i].ty.leaf \in Runtime(Range(decl.params)) \cup {"Self"}
    /\ \A i, j \in Tags(decl.args) : decl.args[i].ty = decl.args[j].ty => i = j

(* Mutant: the explicit tags of an import are not looked at. *)
ImportTakesTagTwice == phase = "extern" /\ Continue("report", decl.impl => validate_receiver_position)

validate_export_decls == phase = "export" /\ Continue("report", ExportAccepted)

validate_extern_decls ==
  /\ phase = "extern"
  /\ Continue("report", validate_extern_dispatch_sig /\ (decl.impl => validate_receiver_position))

validate_items == phase = "report" /\ (IF refused THEN Refuse ELSE Continue("tags", TRUE))

-----------------------------------------------------------------------------
(* The runtime parameters without a tag get one, in front; Self only if none has. *)
synthesize_dispatch_tag_ids(self, names, args) ==
  LET explicit == {args[i].ty.leaf : i \in Tags(args)}
      tag(name) == [form |-> "tag", ty |-> [layers |-> <<>>, leaf |-> name, path |-> "plain"]]
      missing == SetToSeq(names \ explicit)
  IN (IF names = {} /\ self /\ "Self" \notin explicit THEN <<tag("Self")>> ELSE <<>>)
     \o [i \in DOMAIN missing |-> tag(missing[i])] \o args

OwnDispatch == decl.innerUses # <<>> \/ Runtime(Scope(FALSE)) # {}

(* A method of an impl is reached up to three times: for dyn Self, for the      *)
(* parameters of the impl and for its own, and what is there is not added again. *)
synthesize_dispatch_tag_ids_in_decls ==
  /\ phase = "tags"
  /\ LET outer == Runtime(Scope(TRUE))
         forSelf == IF decl.dynSelf THEN synthesize_dispatch_tag_ids(TRUE, outer, inputs) ELSE inputs
         forImpl == IF Dispatched(OuterGroups, Scope(TRUE)) THEN synthesize_dispatch_tag_ids(FALSE, outer, forSelf) ELSE forSelf
     IN inputs' = IF OwnDispatch
                  THEN synthesize_dispatch_tag_ids(decl.dynSelf, outer \cup Runtime(Scope(FALSE)), forImpl) ELSE forImpl
  /\ phase' = "name"
  /\ UNCHANGED <<decl, refused, groups, symbol, bindings>>

ensure_symbol_names ==
  /\ phase = "name"
  /\ symbol' = IF decl.symbol # <<>> THEN Range(decl.symbol[1]) ELSE impl_method_symbol_binding_params
  /\ phase' = "bind"
  /\ UNCHANGED <<decl, refused, groups, inputs, bindings>>

-----------------------------------------------------------------------------
(* ErasedParamReplacer: a payload takes its parameter's place; without one, what *)
(* is behind a reference is void, and what is inside a wrapper stays.            *)
ErasedAt(ty) == {i \in DOMAIN ty.layers : ty.layers[i] = "ref" /\ (i < Len(ty.layers) => ty.layers[i + 1] # "ref")}
Void(n, ty) == [layers |-> SubSeq(ty.layers, 1, n), leaf |-> "void", path |-> "plain"]

erase(ty) ==
  IF ~IsRuntime(ty.leaf) THEN ty
  ELSE IF ~Payloadless(ty.leaf) THEN (IF ty.path = "plain" THEN [ty EXCEPT !.leaf = "payload"] ELSE ty)
  ELSE IF ErasedAt(ty) # {} THEN Void(CHOOSE i \in ErasedAt(ty) : \A j \in ErasedAt(ty) : i <= j, ty)
  ELSE IF ty.layers = <<>> /\ ty.path = "plain" THEN Void(0, ty) ELSE ty

(* The values of the signature, by position, the one returned at 0; a dyn Self *)
(* is erased to what it points to.                                            *)
SignatureValues ==
  LET value(a) == IF a.form # "receiver" THEN a.ty
                  ELSE IF decl.dynSelf THEN Void(Len(a.ty.layers), a.ty) ELSE concretize_self(a.ty)
      values == {i \in DOMAIN inputs : inputs[i].form \in {"value", "receiver"}}
      returned == IF decl.out = <<>> THEN {} ELSE {0}
  IN [i \in values \cup returned |-> IF i = 0 THEN decl.out[1] ELSE value(inputs[i])]

Erased(types) == [i \in DOMAIN types |-> erase(types[i])]

(* SymbolNameBuilder: a type is read from outside in, without its brackets, its *)
(* qualified self and its lifetimes.                                            *)
type_symbol_name(ty) == ty.layers \o Words(ty.leaf) \o (IF ty.path = "assoc" THEN <<"Assoc">> ELSE <<>>)

(* The selection as it is written, parameters selected in turn among them. *)
Fragment(ty) == IF ty \in DOMAIN Fragments THEN Fragments[ty] ELSE type_symbol_name(ty)

(* The parameters as the template of the symbol names them: in the order of an  *)
(* explicit one, or of the generics.                                            *)
Template == IF decl.symbol # <<>> THEN decl.symbol[1]
            ELSE SelectSeq([i \in DOMAIN decl.params |-> decl.params[i].name], LAMBDA name : name \in symbol)


(* The symbol split at its underscores: "__" parts the selections, in what is   *)
(* written between the names of an explicit template too, and a name nothing is *)
(* selected for stays in its braces.                                            *)
interpolate_symbol_attrs(sub) ==
  FlattenSeq([i \in DOMAIN Template |->
    <<"">> \o (IF Template[i] \in DOMAIN sub THEN Fragment(sub[Template[i]]) ELSE <<"{", Template[i], "}">>)])

Binding(sub, types) == [symbol |-> interpolate_symbol_attrs(sub), sub |-> sub, types |-> types]

Selections == {Selection(groups, c) : c \in Combinations(groups)}

(* static_bindings: an export is defined for every selection of its static  *)
(* parameters.  A method with predicates of its own is lifted, its generics *)
(* among its impl's.                                                        *)
Lifted == IF decl.impl /\ OwnDispatch THEN Range(decl.params) ELSE Scope(TRUE)

static_bindings ==
  /\ phase = "bind" /\ decl.dir = "export"
  /\ LET static == symbol_binding_params(TRUE, Lifted)
     IN bindings' = {Binding([n \in static |-> s[n]], SignatureValues) : s \in Selections}
  /\ phase' = "substitute"
  /\ UNCHANGED <<decl, refused, groups, inputs, symbol>>

(* An import is declared, its runtime parameters erased, for every selection, *)
(* or once when there is no static parameter to tell them apart.              *)
ForEverySelection == IF decl.impl /\ ~OwnDispatch THEN Dispatched(OuterGroups, Scope(TRUE)) \/ decl.dynSelf
                     ELSE impl_method_static_binding_params # {}

prepare_dispatch_import ==
  /\ phase = "bind" /\ decl.dir = "extern"
  /\ bindings' = IF ForEverySelection THEN {Binding(s, Erased(SignatureValues)) : s \in Selections}
                 ELSE {Binding(<<>>, Erased(SignatureValues))}
  /\ phase' = "substitute"
  /\ UNCHANGED <<decl, refused, groups, inputs, symbol>>

(* DispatchMonomorphizer: a parameter is replaced and its selection visited in *)
(* turn; of a projection only the first segment is, and that once.             *)
substituted(ty, sub) ==
  IF ty.path = "selected" \/ ty.leaf \notin DOMAIN sub THEN ty
  ELSE [layers |-> ty.layers \o sub[ty.leaf].layers,
        leaf |-> sub[ty.leaf].leaf,
        path |-> IF ty.path = "assoc" \/ Param(ty.leaf).kind = "const" THEN "selected" ELSE sub[ty.leaf].path]

Substituted(b) == [b EXCEPT !.types = [i \in DOMAIN @ |-> substituted(@[i], b.sub)]]

visit_type_mut ==
  /\ phase = "substitute"
  /\ LET next == {Substituted(b) : b \in bindings}
     IN IF next # bindings THEN bindings' = next /\ phase' = phase
        ELSE /\ bindings' = IF decl.dir = "export" THEN {[b EXCEPT !.types = Erased(@)] : b \in bindings} ELSE bindings
             /\ phase' = "expanded"
  /\ UNCHANGED <<decl, refused, groups, inputs, symbol>>

DeclNext ==
  \/ normalize \/ validate_method_generic_declarations \/ validate_packed_dyn_self_decls
  \/ validate_static_symbol_interpolations \/ validate_parameter_bindings \/ validate_shared
  \/ validate_export_decls \/ validate_extern_decls \/ validate_items
  \/ synthesize_dispatch_tag_ids_in_decls \/ ensure_symbol_names
  \/ static_bindings \/ prepare_dispatch_import \/ visit_type_mut

-----------------------------------------------------------------------------
Expanded == phase = "expanded"

(* SPEC.md:126-130: a runtime parameter has one tag, a static one none.  A   *)
(* function that dispatches nothing is not checked for explicit tags.        *)
TagCount(name) == Cardinality({i \in Tags(inputs) : inputs[i].ty.leaf = name})

OneTagEach == Dispatched(groups, Range(decl.params)) =>
                \A name \in Names : TagCount(name) = IF IsRuntime(name) THEN 1 ELSE 0

(* SPEC.md:134-137: a parameter is selected once, in an export always. *)
SelectedOnce ==
  \A name \in Names : /\ \A p, q \in Places(groups, name) : p = q
                      /\ decl.dir = "export" => Places(groups, name) # {}

(* No parameter shows in a foreign signature.  What is left for rustc to refuse  *)
(* is what a projection was replaced by, which is not visited again; a projection *)
(* of a parameter that is not replaced; a runtime parameter inside a wrapper and  *)
(* behind no indirection; and, in an import, a parameter that is not selected and *)
(* that the validator does not follow: one of the impl, into a method, and one    *)
(* that another is selected to be made of.                                        *)
SelectedFrom(name) == \E owner \in Members(groups) : \E ty \in Targets(groups, owner) : Mentions(ty, name)

LeftToRustc(ty) ==
  \/ ty.path = "selected"
  \/ ty.path = "assoc" /\ (IsRuntime(ty.leaf) \/ ~contains_param(groups, ty.leaf))
  \/ Payloadless(ty.leaf) /\ ErasedAt(ty) = {}
  \/ ~contains_param(groups, ty.leaf) /\ (Param(ty.leaf).outer \/ SelectedFrom(ty.leaf))

NoneShows ==
  \A b \in bindings : \A ty \in Range(b.types) : ty.leaf \in Names => Hidden(ty) \/ LeftToRustc(ty)

(* AcceptedConforms: what the passes of the validator let through keeps the *)
(* tagging and constraining rules in the expansion, for every mix of impl   *)
(* and method parameters, selections, explicit tags and hidden positions.   *)
AcceptedConforms == Expanded => OneTagEach /\ SelectedOnce /\ NoneShows

(* What crosses the boundary: a declared type is one opaque pointer whatever *)
(* its arguments are, but not inside a wrapper, whose layout it decides.     *)
Lowered(ty) ==
  LET declared == {i \in DOMAIN ty.layers : ty.layers[i] = "decl"}
      first == CHOOSE i \in declared : \A j \in declared : i <= j
  IN IF declared # {} THEN <<SubSeq(ty.layers, 1, first - 1), "opaque">>
     ELSE <<ty.layers, IF ty.leaf \in DeclaredTypes /\ ~Wrapped(ty) THEN "opaque" ELSE ty.leaf>>

Abi(b) == [i \in DOMAIN b.types |-> Lowered(b.types[i])]

(* A runtime parameter is written where it is erased (elsewhere the layout check *)
(* generated for it names the parameter, which rustc refuses), and no static     *)
(* parameter is selected to be made of a parameter that is not interpolated      *)
(* itself.                                                                       *)
Direct ==
  /\ \A ty \in Range(SignatureValues) : IsRuntime(ty.leaf) => Hidden(ty) \/ ~IsRuntime(erase(ty).leaf)
  /\ \A name \in Members(groups) \cap Names :
       ~IsRuntime(name) => \A t \in Targets(groups, name) : t.leaf \in Names => t.leaf \in symbol

(* The selections a binding puts into its symbol, before they are spelled. *)
Interpolated(sub) == [name \in symbol |-> IF name \in DOMAIN sub THEN <<sub[name]>> ELSE <<>>]

(* InterpolatedDecideAbi (SPEC.md:144): a static parameter that is left out of   *)
(* the symbol decides nothing the boundary can see: two bindings that agree on   *)
(* the parameters interpolated have one signature, whatever they select for the  *)
(* others.  It is about selections; whether their spelling keeps them apart is   *)
(* UniqueSymbols.                                                                *)
InterpolatedDecideAbi ==
  Expanded /\ Direct =>
    \A b, other \in bindings : Interpolated(b.sub) = Interpolated(other.sub) => Abi(b) = Abi(other)

(* Spelling does not keep the selections apart: two of them are spelled alike,   *)
(* as signs, brackets and qualified selves are dropped and fragments may be      *)
(* equal, or the name of one has the separator in it.                            *)
SpelledAlike(ty, other) == ty # other /\ Fragment(ty) = Fragment(other)
Parted(ty) == "" \in Range(Fragment(ty))

=============================================================================
