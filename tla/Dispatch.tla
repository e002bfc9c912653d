------------------------------- MODULE Dispatch -------------------------------
(***************************************************************************)
(* Tagged dispatch (src/derive/src/dispatch.rs): one exported function     *)
(* stands for several instantiations of a generic one.  The caller erases  *)
(* its arguments and sends a tag for each parameter that is dispatched at  *)
(* run time; the exported function matches the tags, gives the arguments   *)
(* back the types of the arm they select, and runs it.                     *)
(*                                                                         *)
(* A parameter stands for the same thing on both sides: only its name may  *)
(* differ between the two declarations.                                    *)
(***************************************************************************)
EXTENDS Naturals, Sequences, FiniteSets

CONSTANTS
  ImplParams,   \* the parameters `dyn(Kind) T` of the impl, as declared
  FnParams,     \* those of the function itself
  Types,
  Kind,         \* Kind[p]: the tag type declared for p
  Family,       \* Family[t]: TagFamily::Kind of t
  Tag,          \* Tag[t]: Tagged::TAG
  Readable,     \* the tags that decode as a tag in the export
  Groups,       \* the export's `use<...>` predicates: sets of parameters
  Targets(_),   \* the types a predicate lists for its parameters
  ImportArms,   \* the instantiations the caller was compiled for
  ExportRank,   \* where the export's name for p is in alphabetical order
  ImportRank,   \* where the caller's is
  Explicit,     \* the tags the import writes among its arguments, in order
  Foreign,      \* TRUE: a caller written by the document, not by the macro
  Output,       \* the parameter that is the output's type
  None

Elems(s) == {s[i] : i \in 1..Len(s)}
Params == Elems(ImplParams) \cup Elems(FnParams)

(* for_each_combination: each predicate selects one of its targets.        *)
Arms == {a \in [Params -> Types] : \A g \in Groups : [p \in g |-> a[p]] \in Targets(g)}

ASSUME DispatchAssumption ==
  /\ IsFiniteSet(Params)
  /\ Elems(ImplParams) \cap Elems(FnParams) = {}
  /\ None \notin Types \cup [Params -> Types]
  /\ Output \in Params
  /\ Explicit \in Seq(Params)
  /\ \A i, j \in 1..Len(Explicit) : Explicit[i] = Explicit[j] => i = j
  /\ ImportArms \subseteq [Params -> Types]
  /\ Foreign \in BOOLEAN

(* Names are unique within a declaration.                                  *)
ASSUME NameAssumption ==
  \A rank \in {ExportRank, ImportRank} :
    /\ rank \in [Params -> Nat]
    /\ \A p, q \in Params : rank[p] = rank[q] => p = q

(* What `unsafe impl Tagged` promises, and the checks of the tags' types.  *)
ASSUME TagAssumption ==
  /\ \A t, u \in Types : Family[t] = Family[u] /\ Tag[t] = Tag[u] => t = u
  /\ \A a \in Arms \cup ImportArms : \A p \in Params : Family[a[p]] = Kind[p]

-----------------------------------------------------------------------------
(* synthesize_dispatch_tag_ids() *)

(* The tags of S come in the order of a BTreeSet of names.                 *)
Sorted(S, rank) ==
  [i \in 1..Cardinality(S) |->
     CHOOSE p \in S : Cardinality({q \in S : rank[q] < rank[p]}) = i - 1]

(* The impl's tags go in front of the inputs first, the function's in      *)
(* front of those; none is added for a tag that is written explicitly.     *)
Slots(rank, explicit) ==
  Sorted(Elems(FnParams) \ Elems(explicit), rank)
    \o Sorted(Elems(ImplParams) \ Elems(explicit), rank) \o explicit

(* Mutant: the export adds the function's tags before the impl's.          *)
FunctionFirst == Sorted(Elems(ImplParams), ExportRank) \o Sorted(Elems(FnParams), ExportRank)

ExportSlots == Slots(ExportRank, <<>>)

(* What the document says: at the start, in declaration order.             *)
Documented == ImplParams \o FnParams
CallerSlots == IF Foreign THEN Documented ELSE Slots(ImportRank, Explicit)

-----------------------------------------------------------------------------
VARIABLES
  pc,         \* "idle", "match", "arm", "return"
  want,       \* the instantiation the caller has
  wire,       \* the tags, in the order of the function's arguments
  arm,        \* the instantiation the tags selected, or None
  seen,       \* seen[p]: the type p's argument was decoded as, or None
  out,        \* the type of the output the arm erased, or None
  answer

vars == <<pc, want, wire, arm, seen, out, answer>>

Unseen == [p \in Params |-> None]

Init ==
  /\ pc = "idle"
  /\ want \in ImportArms
  /\ wire = <<>>
  /\ arm = None
  /\ seen = Unseen
  /\ out = None
  /\ answer = "none"

(* The wrapper evaluates <T as Tagged>::TAG for each tag and erases its    *)
(* arguments and receiver.                                                 *)
Call(w) ==
  /\ pc = "idle"
  /\ want' = w
  /\ wire' = [i \in 1..Len(CallerSlots) |-> Tag[w[CallerSlots[i]]]]
  /\ arm' = None /\ seen' = Unseen /\ out' = None /\ answer' = "none"
  /\ pc' = "match"

Answered(a) ==
  /\ answer' = a
  /\ pc' = "idle"

(* gen_input_decode_stmts of the selectors: one of them is no valid tag.   *)
SelectorRefused ==
  /\ pc = "match"
  /\ \E i \in 1..Len(ExportSlots) : wire[i] \notin Readable
  /\ Answered("decode_error")
  /\ UNCHANGED <<want, wire, arm, seen, out>>

AllReadable == \A i \in 1..Len(ExportSlots) : wire[i] \in Readable

(* Mutant: an arm's pattern holds the tag of one parameter.                *)
MatchesOne(a) == wire[1] = Tag[a[ExportSlots[1]]]

(* The pattern of an arm is the tuple of its types' tags.                  *)
Matches(a) == \A i \in 1..Len(ExportSlots) : wire[i] = Tag[a[ExportSlots[i]]]

Select(a) ==
  /\ pc = "match"
  /\ AllReadable
  /\ Matches(a)
  /\ arm' = a
  /\ pc' = "arm"
  /\ UNCHANGED <<want, wire, seen, out, answer>>

(* The wildcard arm.                                                       *)
UnknownTag ==
  /\ pc = "match"
  /\ AllReadable
  /\ \A a \in Arms : ~Matches(a)
  /\ Answered("unknown_tag")
  /\ UNCHANGED <<want, wire, arm, seen, out>>

(* The arm retypes every erased argument and decodes it; when all decode,  *)
(* the callee runs and its output is erased.                               *)
ArmRuns ==
  /\ pc = "arm"
  /\ seen' = arm
  /\ out' = arm[Output]
  /\ pc' = "return"
  /\ UNCHANGED <<want, wire, arm, answer>>

(* The arguments that do not decode are rejected, the others decoded all   *)
(* the same; or the callee ran and a store could not be synchronized.      *)
ArmFails ==
  /\ pc = "arm"
  /\ \/ /\ \E bad \in (SUBSET Params) \ {{}} :
             seen' = [p \in Params |-> IF p \in bad THEN None ELSE arm[p]]
        /\ Answered("decode_error")
     \/ /\ seen' = arm
        /\ Answered("soft_sync_error")
  /\ UNCHANGED <<want, wire, arm, out>>

(* gen_return_derase_expr(): the wrapper gives the output its type back.   *)
Return ==
  /\ pc = "return"
  /\ Answered("ok")
  /\ UNCHANGED <<want, wire, arm, seen, out>>

Next ==
  \/ \E w \in ImportArms : Call(w)
  \/ SelectorRefused
  \/ \E a \in Arms : Select(a)
  \/ UnknownTag
  \/ ArmRuns
  \/ ArmFails
  \/ Return

Spec == Init /\ [][Next]_vars

-----------------------------------------------------------------------------
TypeOK ==
  /\ pc \in {"idle", "match", "arm", "return"}
  /\ want \in ImportArms
  /\ wire \in Seq({Tag[t] : t \in Types})
  /\ arm \in Arms \cup {None}
  /\ seen \in [Params -> Types \cup {None}]
  /\ out \in Types \cup {None}
  /\ answer \in {"none", "decode_error", "unknown_tag", "soft_sync_error", "ok"}

(* An argument is decoded as the type it was erased from, in every         *)
(* argument of a call, and the caller reads the output as the type the     *)
(* callee wrote.                                                           *)
DecodedAsErased ==
  /\ \A p \in Params : seen[p] \in {None, want[p]}
  /\ out \in {None, want[Output]}

(* A call is refused for its tags only when the export has no such         *)
(* instantiation, and then no argument was decoded.                        *)
KnownNeverRefused ==
  answer = "unknown_tag" => want \notin Arms /\ seen = Unseen

(* A caller that sends its tags in declaration order, as the specification *)
(* of the macro says they are synthesized, selects what it has.            *)
DocumentedOrderSelects == Foreign /\ arm # None => arm = want

=============================================================================
