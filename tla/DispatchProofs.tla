---------------------------- MODULE DispatchProofs ----------------------------
(***************************************************************************)
(* Proofs about Dispatch, for any parameters, names, predicates and tags.  *)
(***************************************************************************)
EXTENDS Dispatch, FiniteSetTheorems, TLAPS

Ranks == {r \in [Params -> Nat] : \A p, q \in Params : r[p] = r[q] => p = q}

(* The names of S that come before p.                                      *)
Before(S, rank, p) == {q \in S : rank[q] < rank[p]}

(* p is in the sequence s, at one place.                                   *)
Once(s, p) == \E i \in 1..Len(s) : s[i] = p /\ \A j \in 1..Len(s) : s[j] = p => j = i
Never(s, p) == \A j \in 1..Len(s) : s[j] # p

-----------------------------------------------------------------------------
(* Sorting by name *)

LEMMA BeforeCounts ==
  ASSUME NEW rank \in Ranks, NEW S \in SUBSET Params, NEW p \in S, NEW q \in S
  PROVE  /\ IsFiniteSet(S)
         /\ IsFiniteSet(Before(S, rank, p))
         /\ Cardinality(Before(S, rank, p)) \in 0..(Cardinality(S) - 1)
         /\ Cardinality(Before(S, rank, p)) = Cardinality(Before(S, rank, q)) => p = q
<1>1. IsFiniteSet(S)
  BY FS_Subset, DispatchAssumption
<1>2. rank[p] \in Nat /\ rank[q] \in Nat
  BY DEF Ranks
<1>3. \A x \in S : /\ Before(S, rank, x) \subseteq S /\ Before(S, rank, x) # S
                   /\ IsFiniteSet(Before(S, rank, x))
                   /\ Cardinality(Before(S, rank, x)) \in Nat
  <2> TAKE x \in S
  <2>1. rank[x] \in Nat
    BY DEF Ranks
  <2>2. x \notin Before(S, rank, x) /\ Before(S, rank, x) \subseteq S
    BY <2>1 DEF Before
  <2> QED
    BY <2>2, <1>1, FS_Subset, FS_CardinalityType
<1>4. Cardinality(S) \in Nat /\ Cardinality(Before(S, rank, p)) < Cardinality(S)
  BY <1>1, <1>3, FS_Subset, FS_CardinalityType
<1>5. \A x, y \in S : rank[x] < rank[y] =>
        Cardinality(Before(S, rank, x)) < Cardinality(Before(S, rank, y))
  <2> TAKE x, y \in S
  <2> HAVE rank[x] < rank[y]
  <2>1. \A z \in S : rank[z] \in Nat
    BY DEF Ranks
  <2>2. Before(S, rank, x) \subseteq Before(S, rank, y)
    BY <2>1 DEF Before
  <2>3. x \in Before(S, rank, y) /\ x \notin Before(S, rank, x)
    BY <2>1 DEF Before
  <2>4. Before(S, rank, x) # Before(S, rank, y)
    BY <2>3
  <2> QED
    BY <1>3, <2>2, <2>4, FS_Subset, FS_CardinalityType
<1>6. Cardinality(Before(S, rank, p)) = Cardinality(Before(S, rank, q)) => p = q
  <2> SUFFICES ASSUME p # q
               PROVE  Cardinality(Before(S, rank, p)) # Cardinality(Before(S, rank, q))
    OBVIOUS
  <2>1. rank[p] # rank[q]
    BY DEF Ranks
  <2>2. rank[p] < rank[q] \/ rank[q] < rank[p]
    BY <1>2, <2>1
  <2> QED
    BY <1>3, <1>5, <2>2
<1> QED
  BY <1>1, <1>3, <1>4, <1>6

(* Sorting puts each parameter of S at exactly one place, and no other.    *)
LEMMA SortedOnce ==
  ASSUME NEW rank \in Ranks, NEW S \in SUBSET Params
  PROVE  /\ Sorted(S, rank) \in Seq(Params)
         /\ \A p \in S : Once(Sorted(S, rank), p)
         /\ \A p \in Params \ S : Never(Sorted(S, rank), p)
<1> DEFINE n == Cardinality(S)
           place == [p \in S |-> Cardinality(Before(S, rank, p))]
           s == Sorted(S, rank)
<1>1. IsFiniteSet(S) /\ n \in Nat
  BY FS_Subset, FS_CardinalityType, DispatchAssumption
<1>2. place \in [S -> 0..(n - 1)]
  BY BeforeCounts
<1>3. \A p, q \in S : place[p] = place[q] => p = q
  BY BeforeCounts
<1>4. place \in Injection(S, 0..(n - 1))
  BY <1>2, <1>3 DEF Injection, IsInjective
<1>5. IsFiniteSet(0..(n - 1)) /\ Cardinality(0..(n - 1)) = n
  BY <1>1, FS_Interval
<1>6. place \in Surjection(S, 0..(n - 1))
  BY <1>4, <1>5, FS_Injection
<1>7. \A k \in 0..(n - 1) : \E p \in S : place[p] = k
  BY <1>6 DEF Surjection
<1>8. \A i \in 1..n : \E p \in S : Cardinality({q \in S : rank[q] < rank[p]}) = i - 1
  <2> TAKE i \in 1..n
  <2>1. i - 1 \in 0..(n - 1)
    BY <1>1
  <2> QED
    BY <1>7, <2>1 DEF Before
<1>9. s = [i \in 1..n |-> CHOOSE p \in S : Cardinality({q \in S : rank[q] < rank[p]}) = i - 1]
  BY DEF Sorted
<1>10. \A i \in 1..n : s[i] \in S /\ place[s[i]] = i - 1
  BY <1>8, <1>9 DEF Before
<1>11. s \in Seq(Params) /\ Len(s) = n
  <2>1. s \in [1..n -> Params]
    BY <1>9, <1>10
  <2> QED
    BY <1>1, <2>1
<1>12. ASSUME NEW p \in S PROVE Once(s, p)
  <2> DEFINE i == place[p] + 1
  <2>1. i \in 1..n /\ i - 1 = place[p]
    BY <1>1, <1>2
  <2>2. s[i] = p
    BY <1>3, <1>10, <2>1
  <2>3. \A j \in 1..n : s[j] = p => j = i
    <3> TAKE j \in 1..n
    <3> HAVE s[j] = p
    <3>1. place[p] = j - 1
      BY <1>10
    <3> HIDE DEF place, s, n
    <3> QED
      BY <1>1, <2>1, <3>1
  <2> QED
    BY <1>11, <2>1, <2>2, <2>3 DEF Once
<1>13. \A p \in Params \ S : Never(s, p)
  BY <1>10, <1>11 DEF Never
<1> HIDE DEF s
<1> QED
  BY <1>11, <1>12, <1>13 DEF s

LEMMA ConcatOnce ==
  ASSUME NEW s \in Seq(Params), NEW t \in Seq(Params), NEW p \in Params
  PROVE  /\ s \o t \in Seq(Params)
         /\ Once(s, p) /\ Never(t, p) => Once(s \o t, p)
         /\ Never(s, p) /\ Once(t, p) => Once(s \o t, p)
         /\ Never(s, p) /\ Never(t, p) => Never(s \o t, p)
<1> DEFINE u == s \o t
           m == Len(s)
<1>1. /\ u \in Seq(Params) /\ Len(u) = m + Len(t) /\ m \in Nat /\ Len(t) \in Nat
      /\ \A i \in 1..Len(u) : u[i] = IF i <= m THEN s[i] ELSE t[i - m]
  OBVIOUS
<1> HIDE DEF u, m
<1>2. ASSUME Once(s, p), Never(t, p) PROVE Once(u, p)
  <2>1. PICK i \in 1..m : s[i] = p /\ \A j \in 1..m : s[j] = p => j = i
    BY <1>2 DEF Once, m
  <2>2. i \in 1..Len(u) /\ u[i] = p
    BY <1>1, <2>1
  <2>3. \A j \in 1..Len(u) : u[j] = p => j = i
    <3> TAKE j \in 1..Len(u)
    <3> HAVE u[j] = p
    <3>1. CASE j <= m
      BY <1>1, <2>1, <3>1
    <3>2. CASE ~(j <= m)
      <4>1. j - m \in 1..Len(t) /\ t[j - m] = p
        BY <1>1, <3>2
      <4> QED
        BY <1>2, <4>1 DEF Never
    <3> QED
      BY <3>1, <3>2
  <2> QED
    BY <2>2, <2>3 DEF Once
<1>3. ASSUME Never(s, p), Once(t, p) PROVE Once(u, p)
  <2>1. PICK i \in 1..Len(t) : t[i] = p /\ \A j \in 1..Len(t) : t[j] = p => j = i
    BY <1>3 DEF Once
  <2>2. i + m \in 1..Len(u) /\ u[i + m] = p
    <3>1. i + m \in 1..Len(u) /\ ~(i + m <= m) /\ (i + m) - m = i
      BY <1>1, <2>1
    <3> QED
      BY <1>1, <2>1, <3>1
  <2>3. \A j \in 1..Len(u) : u[j] = p => j = i + m
    <3> TAKE j \in 1..Len(u)
    <3> HAVE u[j] = p
    <3>1. ~(j <= m)
      BY <1>1, <1>3 DEF Never, m
    <3>2. j - m \in 1..Len(t) /\ t[j - m] = p
      BY <1>1, <3>1
    <3>3. j - m = i
      BY <2>1, <3>2
    <3> QED
      BY <1>1, <3>3
  <2> QED
    BY <2>2, <2>3 DEF Once
<1>4. ASSUME Never(s, p), Never(t, p) PROVE Never(u, p)
  <2>1. ASSUME NEW j \in 1..Len(u), u[j] = p PROVE FALSE
    <3>1. CASE j <= m
      BY <1>1, <1>4, <2>1, <3>1 DEF Never, m
    <3>2. CASE ~(j <= m)
      <4>1. j - m \in 1..Len(t) /\ t[j - m] = p
        BY <1>1, <2>1, <3>2
      <4> QED
        BY <1>4, <4>1 DEF Never
    <3> QED
      BY <3>1, <3>2
  <2> QED
    BY <2>1 DEF Never
<1> QED
  BY <1>1, <1>2, <1>3, <1>4 DEF u

(* Every parameter dispatched at run time injects exactly one tag, whether *)
(* written explicitly or not, in whatever order the names are              *)
(* (synthesize_dispatch_tag_ids).                                          *)
THEOREM ExactlyOneTag ==
  ASSUME NEW rank \in Ranks, NEW explicit \in Seq(Params),
         \A i, j \in 1..Len(explicit) : explicit[i] = explicit[j] => i = j
  PROVE  Slots(rank, explicit) \in Seq(Params) /\ \A p \in Params : Once(Slots(rank, explicit), p)
<1> DEFINE F == Elems(FnParams) \ Elems(explicit)
           I == Elems(ImplParams) \ Elems(explicit)
<1>1. F \in SUBSET Params /\ I \in SUBSET Params /\ F \cap I = {}
  BY DispatchAssumption DEF Params
<1>2. /\ Sorted(F, rank) \in Seq(Params) /\ Sorted(I, rank) \in Seq(Params)
      /\ \A p \in F : Once(Sorted(F, rank), p)
      /\ \A p \in Params \ F : Never(Sorted(F, rank), p)
      /\ \A p \in I : Once(Sorted(I, rank), p)
      /\ \A p \in Params \ I : Never(Sorted(I, rank), p)
  BY <1>1, SortedOnce
<1>3. \A p \in Params : IF p \in Elems(explicit) THEN Once(explicit, p) ELSE Never(explicit, p)
  BY DEF Once, Never, Elems
<1>4. Params \ Elems(explicit) = F \cup I
  BY DEF Params
<1>5. Slots(rank, explicit) = Sorted(F, rank) \o Sorted(I, rank) \o explicit
  BY DEF Slots
<1> HIDE DEF F, I
<1>6. Sorted(F, rank) \o Sorted(I, rank) \in Seq(Params)
  BY <1>2
<1>7. ASSUME NEW p \in Params PROVE Once(Slots(rank, explicit), p)
  <2>1. CASE p \in Elems(explicit)
    <3>1. p \notin F /\ p \notin I
      BY <2>1 DEF F, I
    <3>2. Never(Sorted(F, rank) \o Sorted(I, rank), p)
      BY <1>2, <3>1, ConcatOnce
    <3>3. Once(explicit, p)
      BY <1>3, <2>1
    <3>4. Once((Sorted(F, rank) \o Sorted(I, rank)) \o explicit, p)
      BY <1>6, <3>2, <3>3, ConcatOnce
    <3> QED
      BY <1>5, <3>4
  <2>2. CASE p \notin Elems(explicit)
    <3>1. Once(Sorted(F, rank) \o Sorted(I, rank), p)
      BY <1>1, <1>2, <1>4, <2>2, ConcatOnce
    <3>2. Never(explicit, p)
      BY <1>3, <2>2
    <3>3. Once((Sorted(F, rank) \o Sorted(I, rank)) \o explicit, p)
      BY <1>6, <3>1, <3>2, ConcatOnce
    <3> QED
      BY <1>5, <3>3
  <2> QED
    BY <2>1, <2>2
<1> QED
  BY <1>5, <1>6, <1>7

(* Two declarations whose names come in the same order send their tags in  *)
(* the same order: nothing else of the names matters.                      *)
THEOREM SameOrderSameTags ==
  ASSUME NEW r1 \in Ranks, NEW r2 \in Ranks, NEW explicit \in Seq(Params),
         \A p, q \in Params : r1[p] < r1[q] <=> r2[p] < r2[q]
  PROVE  Slots(r1, explicit) = Slots(r2, explicit)
<1>1. ASSUME NEW S \in SUBSET Params PROVE Sorted(S, r1) = Sorted(S, r2)
  <2> DEFINE C1(p, i) == Cardinality({q \in S : r1[q] < r1[p]}) = i - 1
             C2(p, i) == Cardinality({q \in S : r2[q] < r2[p]}) = i - 1
  <2>1. \A p \in S : {q \in S : r1[q] < r1[p]} = {q \in S : r2[q] < r2[p]}
    OBVIOUS
  <2>2. \A p \in S : \A i : C1(p, i) <=> C2(p, i)
    BY <2>1
  <2>3. /\ Sorted(S, r1) = [i \in 1..Cardinality(S) |-> CHOOSE p \in S : C1(p, i)]
        /\ Sorted(S, r2) = [i \in 1..Cardinality(S) |-> CHOOSE p \in S : C2(p, i)]
    BY DEF Sorted
  <2> HIDE DEF C1, C2
  <2>4. \A i : (CHOOSE p \in S : C1(p, i)) = (CHOOSE p \in S : C2(p, i))
    BY <2>2
  <2> QED
    BY <2>3, <2>4
<1>2. Elems(FnParams) \ Elems(explicit) \in SUBSET Params
      /\ Elems(ImplParams) \ Elems(explicit) \in SUBSET Params
  BY DEF Params
<1> QED
  BY <1>1, <1>2 DEF Slots

-----------------------------------------------------------------------------
(* The dispatched call *)

Parked ==
  /\ pc = "match" =>
       /\ wire = [i \in 1..Len(CallerSlots) |-> Tag[want[CallerSlots[i]]]]
       /\ arm = None /\ seen = Unseen /\ out = None
  /\ pc \in {"arm", "return"} => arm # None
  /\ pc \in {"match", "arm", "return"} => answer = "none"
  /\ pc = "arm" => out = None

Selected ==
  /\ arm # None => arm = want /\ want \in Arms
  /\ seen # Unseen => arm # None

DispatchInv == TypeOK /\ Parked /\ Selected /\ DecodedAsErased /\ KnownNeverRefused

LEMMA OneTagEach == \A p \in Params : \E i \in 1..Len(ExportSlots) : ExportSlots[i] = p
<1>1. ExportRank \in Ranks
  BY NameAssumption DEF Ranks
<1>2. <<>> \in Seq(Params) /\ \A i, j \in 1..Len(<<>>) : <<>>[i] = <<>>[j] => i = j
  OBVIOUS
<1>3. \A p \in Params : Once(ExportSlots, p)
  BY <1>1, <1>2, ExactlyOneTag DEF ExportSlots
<1> QED
  BY <1>3 DEF Once

LEMMA CallerSlotsType == CallerSlots = ExportSlots => CallerSlots \in Seq(Params)
<1>1. ExportRank \in Ranks
  BY NameAssumption DEF Ranks
<1>2. <<>> \in Seq(Params) /\ \A i, j \in 1..Len(<<>>) : <<>>[i] = <<>>[j] => i = j
  OBVIOUS
<1>3. Slots(ExportRank, <<>>) \in Seq(Params)
  BY <1>1, <1>2, ExactlyOneTag
<1> QED
  BY <1>3 DEF ExportSlots

(* An arm whose tags are those of the caller's types has those types.      *)
LEMMA MatchIsWanted ==
  ASSUME CallerSlots = ExportSlots, TypeOK, Parked, pc = "match", NEW a \in Arms
  PROVE  Matches(a) <=> a = want
<1>1. wire = [i \in 1..Len(ExportSlots) |-> Tag[want[ExportSlots[i]]]]
  BY DEF Parked
<1>2. want \in [Params -> Types] /\ a \in [Params -> Types]
  BY DispatchAssumption DEF TypeOK, Arms
<1>3. ASSUME Matches(a), NEW p \in Params PROVE a[p] = want[p]
  <2>1. PICK i \in 1..Len(ExportSlots) : ExportSlots[i] = p
    BY OneTagEach
  <2>2. Tag[a[p]] = Tag[want[p]]
    BY <1>1, <1>3, <2>1 DEF Matches
  <2>3. Family[a[p]] = Kind[p] /\ Family[want[p]] = Kind[p]
    BY TagAssumption DEF TypeOK
  <2> QED
    BY <1>2, <2>2, <2>3, TagAssumption
<1>4. Matches(a) => a = want
  BY <1>2, <1>3
<1>5. a = want => Matches(a)
  BY <1>1 DEF Matches
<1> QED
  BY <1>4, <1>5

LEMMA Preserved ==
  CallerSlots = ExportSlots => (Init => DispatchInv) /\ (DispatchInv /\ [Next]_vars => DispatchInv')
<1> SUFFICES ASSUME CallerSlots = ExportSlots
             PROVE  (Init => DispatchInv) /\ (DispatchInv /\ [Next]_vars => DispatchInv')
  OBVIOUS
<1> USE DispatchAssumption
<1>a. CallerSlots \in Seq(Params)
  BY CallerSlotsType
<1>b. Arms \subseteq [Params -> Types] /\ ImportArms \subseteq [Params -> Types]
      /\ None \notin Arms
  BY DEF Arms
<1>1. Init => DispatchInv
  BY DEF Init, DispatchInv, TypeOK, Parked, Selected, DecodedAsErased, KnownNeverRefused, Unseen
<1>2. DispatchInv /\ [Next]_vars => DispatchInv'
  <2> SUFFICES ASSUME DispatchInv, [Next]_vars PROVE DispatchInv'
    OBVIOUS
  <2> USE DEF DispatchInv
  <2>1. ASSUME NEW w \in ImportArms, Call(w) PROVE DispatchInv'
    <3>1. wire' \in Seq({Tag[t] : t \in Types})
      <4>1. \A i \in 1..Len(CallerSlots) : w[CallerSlots[i]] \in Types
        BY <1>a, <1>b
      <4> QED
        BY <1>a, <2>1, <4>1 DEF Call
    <3>2. TypeOK'
      BY <2>1, <3>1 DEF Call, TypeOK, Unseen
    <3> QED
      BY <2>1, <3>2 DEF Call, Parked, Selected, DecodedAsErased, KnownNeverRefused, Unseen
  <2>2. ASSUME SelectorRefused PROVE DispatchInv'
    BY <2>2 DEF SelectorRefused, Answered, TypeOK, Parked, Selected, DecodedAsErased,
      KnownNeverRefused, Unseen
  <2>3. ASSUME NEW a \in Arms, Select(a) PROVE DispatchInv'
    <3>1. a = want
      BY <2>3, MatchIsWanted DEF Select
    <3>2. TypeOK' /\ Parked' /\ Selected'
      BY <1>b, <2>3, <3>1 DEF Select, TypeOK, Parked, Selected, Unseen
    <3> QED
      BY <2>3, <3>2 DEF Select, DecodedAsErased, KnownNeverRefused, Parked
  <2>4. ASSUME UnknownTag PROVE DispatchInv'
    <3>1. want \notin Arms
      BY <2>4, MatchIsWanted DEF UnknownTag
    <3> QED
      BY <2>4, <3>1 DEF UnknownTag, Answered, TypeOK, Parked, Selected, DecodedAsErased,
        KnownNeverRefused
  <2>5. ASSUME ArmRuns PROVE DispatchInv'
    <3>1. arm = want /\ arm \in [Params -> Types]
      BY <1>b, <2>5 DEF ArmRuns, Parked, Selected, TypeOK
    <3> QED
      BY <2>5, <3>1 DEF ArmRuns, TypeOK, Parked, Selected, DecodedAsErased, KnownNeverRefused
  <2>6. ASSUME ArmFails PROVE DispatchInv'
    <3>1. arm = want /\ arm \in [Params -> Types]
      BY <1>b, <2>6 DEF ArmFails, Parked, Selected, TypeOK
    <3>2. seen' \in [Params -> Types \cup {None}] /\ \A p \in Params : seen'[p] \in {None, want[p]}
      BY <2>6, <3>1 DEF ArmFails
    <3> QED
      BY <2>6, <3>1, <3>2 DEF ArmFails, Answered, TypeOK, Parked, Selected, DecodedAsErased,
        KnownNeverRefused
  <2>7. ASSUME Return PROVE DispatchInv'
    BY <2>7 DEF Return, Answered, TypeOK, Parked, Selected, DecodedAsErased, KnownNeverRefused
  <2>8. CASE UNCHANGED vars
    BY <2>8 DEF vars, TypeOK, Parked, Selected, DecodedAsErased, KnownNeverRefused, Matches
  <2> QED
    BY <2>1, <2>2, <2>3, <2>4, <2>5, <2>6, <2>7, <2>8 DEF Next
<1> QED
  BY <1>1, <1>2

(* The inductive invariant of a dispatched call holds throughout, when the *)
(* caller's tags are where the export looks for them.                      *)
THEOREM Inductive ==
  ASSUME CallerSlots = ExportSlots
  PROVE  Spec => []DispatchInv
<1>1. (Init => DispatchInv) /\ (DispatchInv /\ [Next]_vars => DispatchInv')
  BY Preserved
<1> QED
  BY <1>1, PTL DEF Spec

(* Whatever the parameters, predicates and tags: an argument is decoded    *)
(* only as the type it was erased from, when the tags are in the same      *)
(* order on both sides.                                                    *)
THEOREM NeverConfused ==
  ASSUME CallerSlots = ExportSlots
  PROVE  Spec => []DecodedAsErased
<1>1. DispatchInv => DecodedAsErased
  BY DEF DispatchInv
<1> QED
  BY <1>1, Inductive, PTL

(* And a call is refused for its tags only when the export has no such     *)
(* instantiation, in which case no argument was decoded.                   *)
THEOREM OnlyUnknownRefused ==
  ASSUME CallerSlots = ExportSlots
  PROVE  Spec => []KnownNeverRefused
<1>1. DispatchInv => KnownNeverRefused
  BY DEF DispatchInv
<1> QED
  BY <1>1, Inductive, PTL

(* A wrapper generated from a declaration whose names come in the export's *)
(* order is one of the callers the two theorems are about.                 *)
COROLLARY WrapperNeverConfused ==
  ASSUME ~Foreign, Explicit = <<>>,
         \A p, q \in Params : ImportRank[p] < ImportRank[q] <=> ExportRank[p] < ExportRank[q]
  PROVE  Spec => [](DecodedAsErased /\ KnownNeverRefused)
<1>1. ImportRank \in Ranks /\ ExportRank \in Ranks /\ <<>> \in Seq(Params)
  BY NameAssumption DEF Ranks
<1>2. Slots(ImportRank, <<>>) = Slots(ExportRank, <<>>)
  BY <1>1, SameOrderSameTags
<1>3. CallerSlots = ExportSlots
  BY <1>2 DEF CallerSlots, ExportSlots
<1>4. DispatchInv => DecodedAsErased /\ KnownNeverRefused
  BY DEF DispatchInv
<1> QED
  BY <1>3, <1>4, Inductive, PTL
=============================================================================
