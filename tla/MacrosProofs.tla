---------------------------- MODULE MacrosProofs -----------------------------
(***************************************************************************)
(* Proofs about Macros, for items and declarations of any shape.           *)
(*                                                                         *)
(* derive(ReprC): the tag constants of an enum are the values of its       *)
(* discriminants in its tag type.  ffi!: the passes over a declaration,    *)
(* the tags they add, the parameters that are still to be seen while the   *)
(* selections are substituted, and what two foreign declarations share.    *)
(***************************************************************************)
EXTENDS Macros, FiniteSetTheorems, SequenceTheorems, WellFoundedInduction, TLAPS


(* Every set of naturals that is not empty has a least element. *)
LEMMA Least ==
  ASSUME NEW T, T \subseteq Nat, T # {}
  PROVE  \E x \in T : \A y \in T : x <= y
<1> DEFINE R == {p \in Nat \X Nat : p[1] < p[2]}
<1>1. IsWellFoundedOn(R, Nat)
  BY NatLessThanWellFounded DEF OpToRel
<1>2. \E x \in T : \A y \in T : ~ (<<y, x>> \in R)
  <2>. HIDE DEF R
  <2>. QED BY <1>1, WFMin
<1>3. PICK x \in T : \A y \in T : ~ (<<y, x>> \in R)   BY <1>2
<1>4. \A y \in T : x <= y
  <2>. SUFFICES ASSUME NEW y \in T PROVE x <= y  OBVIOUS
  <2>1. <<y, x>> \notin R  BY <1>3
  <2>2. y \in Nat /\ x \in Nat  OBVIOUS
  <2>3. ~(y < x)  BY <2>1, <2>2
  <2>. QED BY <2>2, <2>3
<1>. QED BY <1>3, <1>4

(* A set of positions up to i that is not empty has a last one. *)
LEMMA Greatest ==
  ASSUME NEW i \in Nat, NEW T, T \subseteq 1..i, T # {}
  PROVE  \E x \in T : \A y \in T : y <= x
<1> DEFINE S == {i - t : t \in T}
<1>0. \A t \in T : t \in Int /\ t <= i  OBVIOUS
<1>1. S \subseteq Nat /\ S # {}
  <2>1. \A t \in T : i - t \in Nat  BY <1>0
  <2>. QED BY <2>1
<1>2. PICK s \in S : \A y \in S : s <= y
  <2>. HIDE DEF S
  <2>. QED BY <1>1, Least
<1>3. PICK x \in T : s = i - x  OBVIOUS
<1>4. \A y \in T : y <= x
  <2>. SUFFICES ASSUME NEW y \in T PROVE y <= x  OBVIOUS
  <2>1. i - y \in S  OBVIOUS
  <2>2. i - x <= i - y  BY <2>1, <1>2, <1>3
  <2>. QED BY <2>2
<1>. QED BY <1>4

(* A remainder is the only number below the divisor at its distance. *)
LEMMA ModUnique ==
  ASSUME NEW n \in Nat, n > 0, NEW q \in Int, NEW r \in 0..(n - 1)
  PROVE  (n * q + r) % n = r
<1> DEFINE a == n * q + r
<1>0. n * q \in Int /\ a \in Int  OBVIOUS
<1>1. a = n * (a \div n) + (a % n) /\ a % n \in 0..(n-1) /\ a \div n \in Int
  <2>. HIDE DEF a
  <2>. QED BY <1>0
<1>2. n * (q - (a \div n)) = (a % n) - r
  <2>1. n * q + r = n * (a \div n) + (a % n)  BY <1>1
  <2>2. \A u, v \in Int : n * (u - v) = n * u - n * v  OBVIOUS
  <2> HIDE DEF a
  <2>. QED BY <2>1, <2>2, <1>1
<1> DEFINE k == q - (a \div n)
<1>3. k \in Int /\ n * k < n /\ n * k > -n
  <2> HIDE DEF a 
  <2>. QED BY <1>1, <1>2
<1>4. k = 0
  <2>1. \A m \in Int : m >= 1 => n * m >= n  OBVIOUS
  <2>2. \A m \in Int : m <= -1 => n * m <= -n  OBVIOUS
  <2> HIDE DEF k
  <2>. QED BY <1>3, <2>1, <2>2
<1>. QED
  <2>1. n * k = (a % n) - r  BY <1>2
  <2>2. n * k = 0  
    <3> HIDE DEF k
    <3> QED BY <1>4
  <2>3. 0 = (a % n) - r  BY <2>1, <2>2
  <2>4. \A x \in 0..(n - 1) : 0 = x - r => x = r  OBVIOUS
  <2>5. a % n = r
    <3> HIDE DEF a
    <3> QED BY <2>3, <2>4, <1>1
  <2>. QED BY <2>5

(* Reducing a summand first does not change the reduced sum. *)
LEMMA ModOfSum ==
  ASSUME NEW n \in Nat, n > 0, NEW a \in Int, NEW b \in Int
  PROVE  ((a % n) + b) % n = (a + b) % n
<1> DEFINE q == a \div n  c == (a % n) + b
<1>1. a = n * q + (a % n) /\ q \in Int /\ c \in Int  OBVIOUS
<1>2. c = n * (c \div n) + (c % n) /\ c \div n \in Int /\ c % n \in 0..(n - 1)
  <2> HIDE DEF c
  <2> QED BY <1>1
<1>3. a + b = n * (q + (c \div n)) + (c % n)
  <2>1. a + b = n * q + c  BY <1>1
  <2>2. \A u, v \in Int : n * (u + v) = n * u + n * v  OBVIOUS
  <2> HIDE DEF c, q
  <2>3. n * (q + (c \div n)) = n * q + n * (c \div n)  BY <1>1, <1>2, <2>2
  <2>4. n * q \in Int /\ n * (c \div n) \in Int BY <1>1, <1>2
  <2> QED BY <2>1, <2>3, <1>1, <1>2, <2>4
<1>4. (a + b) % n = c % n
  <2> HIDE DEF c, q
  <2>1. q + (c \div n) \in Int  BY <1>1, <1>2
  <2> QED BY <1>2, <1>3, <2>1, ModUnique
<1> QED BY <1>4

(* What a value is when it is reduced: below the divisor, itself if it was, *)
(* and the largest for -1.                                                  *)
LEMMA ModRange ==
  ASSUME NEW n \in Nat, n > 0, NEW a \in Int
  PROVE  /\ a % n \in 0..(n - 1)
         /\ a \in 0..(n - 1) => a % n = a
         /\ (-1) % n = n - 1
OBVIOUS

(* The explicit discriminants up to variant i, the latest of them, and the *)
(* discriminant counted from it.                                           *)
Explicit(i) == {j \in 1..i : Variants[j].disc # <<>>}
Latest(i) == CHOOSE j \in Explicit(i) : \A k \in Explicit(i) : k <= j
Counted(i) == IF Explicit(i) = {} THEN i - 1 ELSE Variants[Latest(i)].disc[1] + (i - Latest(i))

(* What the constants say of an item that is derived for. *)
ItemTyped ==
  /\ item.variants \in Seq(VariantType)
  /\ Len(item.variants) < WideValues
  /\ \A k \in DOMAIN item.variants : Len(item.variants[k].disc) <= 1

(* The latest explicit discriminant up to variant i. *)
LEMMA LatestIs ==
  ASSUME NEW i \in Nat, Explicit(i) # {}
  PROVE  Latest(i) \in Explicit(i) /\ \A k \in Explicit(i) : k <= Latest(i)
<1>1. Explicit(i) \subseteq 1..i  BY DEF Explicit
<1>2. \E j \in Explicit(i) : \A k \in Explicit(i) : k <= j  BY <1>1, Greatest
<1>. QED BY <1>2 DEF Latest

(* It is the only one that none comes after. *)
LEMMA LatestUnique ==
  ASSUME NEW i \in Nat, NEW j \in Explicit(i), \A k \in Explicit(i) : k <= j
  PROVE  Latest(i) = j
<1>1. Latest(i) \in Explicit(i) /\ \A k \in Explicit(i) : k <= Latest(i)  BY LatestIs
<1>2. Latest(i) \in Int /\ j \in Int  BY <1>1 DEF Explicit
<1>. QED BY <1>1, <1>2

(* The variants are numbered from 1, and an explicit discriminant is an *)
(* integer.                                                             *)
LEMMA VariantOf ==
  ASSUME ItemTyped, NEW i \in DOMAIN Variants
  PROVE  /\ DOMAIN Variants = 1..Len(Variants) /\ Len(Variants) \in Nat
         /\ Variants[i].disc \in Seq(Int)
         /\ Variants[i].disc # <<>> => Variants[i].disc[1] \in Int
<1>1. Variants \in Seq(VariantType)  BY DEF ItemTyped, Variants
<1>2. Variants[i] \in VariantType  BY <1>1
<1>3. Variants[i].disc \in Seq(Int)  BY <1>2 DEF VariantType
<1>. QED BY <1>1, <1>3

(* rustc counts an implicit discriminant from the latest explicit one. *)
LEMMA CountedStep ==
  ASSUME ItemTyped, NEW i \in DOMAIN Variants
  PROVE  /\ Counted(i) \in Int
         /\ Counted(i) = IF Variants[i].disc # <<>> THEN Variants[i].disc[1]
                         ELSE IF i = 1 THEN 0 ELSE Counted(i - 1) + 1
<1>1. i \in Nat /\ i >= 1 /\ i - 1 \in Nat /\ DOMAIN Variants = 1..Len(Variants) /\ Len(Variants) \in Nat
  BY VariantOf
<1>2. Counted(i) \in Int
  <2>1. CASE Explicit(i) = {}  BY <2>1, <1>1 DEF Counted
  <2>2. CASE Explicit(i) # {}
    <3>1. Latest(i) \in Explicit(i)  BY <2>2, <1>1, LatestIs
    <3>2. Latest(i) \in 1..i /\ Variants[Latest(i)].disc # <<>> /\ Latest(i) \in DOMAIN Variants
      BY <3>1, <1>1 DEF Explicit
    <3>3. Variants[Latest(i)].disc[1] \in Int  BY <3>2, VariantOf
    <3>. QED BY <3>2, <3>3, <2>2, <1>1 DEF Counted
  <2>. QED BY <2>1, <2>2
<1>3. CASE Variants[i].disc # <<>>
  <2>1. i \in Explicit(i) /\ \A k \in Explicit(i) : k <= i  BY <1>3, <1>1 DEF Explicit
  <2>2. Latest(i) = i  BY <2>1, <1>1, LatestUnique
  <2>3. Variants[i].disc[1] \in Int  BY <1>3, VariantOf
  <2>. QED BY <2>1, <2>2, <2>3, <1>1, <1>2, <1>3 DEF Counted
<1>4. CASE Variants[i].disc = <<>> /\ i = 1
  <2>1. Explicit(i) = {}  BY <1>4 DEF Explicit
  <2>. QED BY <2>1, <1>2, <1>4 DEF Counted
<1>5. CASE Variants[i].disc = <<>> /\ i # 1
  <2>1. Explicit(i) = Explicit(i - 1)  BY <1>5, <1>1 DEF Explicit
  <2>2. Latest(i) = Latest(i - 1)  BY <2>1 DEF Latest
  <2>3. CASE Explicit(i) = {}  BY <2>3, <2>1, <1>1, <1>2, <1>5 DEF Counted
  <2>4. CASE Explicit(i) # {}
    <3>1. Latest(i) \in 1..i /\ Latest(i) \in DOMAIN Variants /\ Variants[Latest(i)].disc # <<>>
      BY <2>4, <1>1, LatestIs DEF Explicit
    <3>2. Variants[Latest(i)].disc[1] \in Int  BY <3>1, VariantOf
    <3>. QED BY <2>1, <2>2, <2>4, <3>1, <3>2, <1>1, <1>2, <1>5 DEF Counted
  <2>. QED BY <2>3, <2>4
<1>. QED BY <1>3, <1>4, <1>5

(* rustc's own discriminants, one more than the previous one each, are the *)
(* counted ones.                                                           *)
LEMMA DiscriminantIsCounted ==
  ASSUME ItemTyped, NEW i \in DOMAIN Variants
  PROVE  Discriminant(i) = Counted(i)
<1> DEFINE Step(f) == [j \in 1..i |-> IF Variants[j].disc # <<>> THEN Variants[j].disc[1]
                                      ELSE IF j = 1 THEN 0 ELSE f[j - 1] + 1]
           d == CHOOSE f : f = Step(f)
           g == [j \in 1..i |-> Counted(j)]
<1>1. i \in Nat /\ i >= 1 /\ 1..i \subseteq DOMAIN Variants  BY VariantOf
<1>2. \A j \in 1..i : g[j] = Step(g)[j]
  <2>. SUFFICES ASSUME NEW j \in 1..i PROVE Counted(j) = Step(g)[j]  OBVIOUS
  <2>1. j # 1 => j - 1 \in 1..i /\ g[j - 1] = Counted(j - 1)  BY <1>1
  <2>. QED BY <2>1, <1>1, CountedStep
<1>3. g = Step(g)  BY <1>2
<1>4. d = Step(d)
  <2>. HIDE DEF g, Step
  <2>. QED BY <1>3
<1>5. \A j \in 1..i : d[j] = Counted(j)
  <2> DEFINE T == {j \in 1..i : d[j] # Counted(j)}
  <2>. SUFFICES ASSUME T # {} PROVE FALSE  OBVIOUS
  <2>1. PICK x \in T : \A y \in T : x <= y
    <3>1. T \subseteq Nat  OBVIOUS
    <3>. HIDE DEF T
    <3>. QED BY <3>1, Least
  <2>2. x \in 1..i /\ x \in Nat /\ x \in DOMAIN Variants  BY <1>1
  <2>3. d[x] = Step(d)[x]  BY <1>4
  <2>4. x # 1 => d[x - 1] = Counted(x - 1)
    <3>1. x # 1 => x - 1 \in 1..i /\ x - 1 \notin T  BY <2>1, <2>2, <1>1
    <3>. QED BY <3>1
  <2>5. d[x] = Counted(x)
    <3>. HIDE DEF d
    <3>. QED BY <2>2, <2>3, <2>4, CountedStep
  <2>. QED BY <2>5
<1>6. Discriminant(i) = d[i]  BY DEF Discriminant
<1>. HIDE DEF d
<1>. QED BY <1>1, <1>5, <1>6

(* The run of implicit discriminants that ends at i began after the latest *)
(* explicit one.                                                           *)
LEMMA RunLengthIs ==
  ASSUME ItemTyped, NEW i \in DOMAIN Variants
  PROVE  /\ RunLength(Variants, i) = IF Explicit(i) = {} THEN i ELSE i - Latest(i)
         /\ Explicit(i) # {} => Latest(i) \in 1..i /\ Variants[Latest(i)].disc # <<>>
<1> DEFINE Run == {j \in 1..i : \A k \in j..i : Variants[k].disc = <<>>}
<1>1. i \in Nat /\ i >= 1  BY VariantOf
<1>2. RunLength(Variants, i) = Cardinality(Run)  BY DEF RunLength
<1>3. CASE Explicit(i) = {}
  <2>1. \A k \in 1..i : Variants[k].disc = <<>>  BY <1>3 DEF Explicit
  <2>2. Run = 1..i  BY <2>1, <1>1
  <2>3. Cardinality(1..i) = i  BY <1>1, FS_Interval
  <2>. QED BY <2>2, <2>3, <1>2, <1>3
<1>4. CASE Explicit(i) # {}
  <2>1. Latest(i) \in Explicit(i) /\ \A k \in Explicit(i) : k <= Latest(i)  BY <1>1, <1>4, LatestIs
  <2>2. Latest(i) \in 1..i /\ Variants[Latest(i)].disc # <<>>  BY <2>1 DEF Explicit
  <2>3. \A k \in 1..i : k > Latest(i) => Variants[k].disc = <<>>
    <3>. SUFFICES ASSUME NEW k \in 1..i, Variants[k].disc # <<>>, k > Latest(i) PROVE FALSE  OBVIOUS
    <3>1. k \in Explicit(i)  BY DEF Explicit
    <3>. QED BY <3>1, <2>1, <2>2
  <2>4. Run = (Latest(i) + 1)..i
    <3>1. \A j \in 1..i : j > Latest(i) => \A k \in j..i : k \in 1..i /\ k > Latest(i)  BY <2>2, <1>1
    <3>2. \A j \in 1..i : j <= Latest(i) => Latest(i) \in j..i  BY <2>2, <1>1
    <3>3. \A j \in 1..i : j \in Run <=> j > Latest(i)  BY <3>1, <3>2, <2>2, <2>3
    <3>4. (Latest(i) + 1)..i \subseteq 1..i  BY <2>2, <1>1
    <3>5. \A j \in 1..i : j \in (Latest(i) + 1)..i <=> j > Latest(i)  BY <2>2, <1>1
    <3>6. Run \subseteq 1..i  OBVIOUS
    <3>. HIDE DEF Run
    <3>. QED BY <3>3, <3>4, <3>5, <3>6
  <2>5. Cardinality((Latest(i) + 1)..i) = i - Latest(i)  BY <2>2, <1>1, FS_Interval
  <2>. QED BY <2>2, <2>4, <2>5, <1>2, <1>4
<1>. QED BY <1>3, <1>4

(* A tag type has more than one value. *)
LEMMA ValuesPositive ==
  ASSUME NEW tag
  PROVE  Values(tag) \in Nat /\ Values(tag) > 1
BY WidthAssumption DEF Values

(* Both computations of a tag give the counted discriminant in the tag type. *)
LEMMA TagIsCounted ==
  ASSUME ItemTyped, NEW tag, NEW i \in DOMAIN Variants
  PROVE  /\ enum_variant_tag_exprs(Variants, tag)[i] = Wrap(tag, Counted(i))
         /\ tag_consts(Variants, tag)[i] = Wrap(tag, Counted(i))
<1>1. i \in Nat /\ i >= 1  BY VariantOf
<1>2. enum_variant_tag_exprs(Variants, tag)[i] = Wrap(tag, Counted(i))
  BY DEF enum_variant_tag_exprs, Explicit, Latest, Counted
<1> DEFINE offset == RunLength(Variants, i)
           explicit(j) == Wrap(tag, Variants[j].disc[1])
<1>3. tag_consts(Variants, tag)[i] = CASE offset = 0 -> explicit(i)
                                       [] offset = i -> Wrap(tag, i - 1)
                                       [] OTHER -> Wrap(tag, explicit(i - offset) + offset)
  BY DEF tag_consts
<1>4. CASE Explicit(i) = {}
  <2>1. offset = i  BY <1>4, RunLengthIs
  <2>. QED BY <1>1, <1>2, <1>3, <1>4, <2>1 DEF Counted
<1>5. CASE Explicit(i) # {}
  <2>1. offset = i - Latest(i) /\ Latest(i) \in 1..i /\ Variants[Latest(i)].disc # <<>>  BY <1>5, RunLengthIs
  <2>2. Latest(i) \in DOMAIN Variants  BY <2>1, VariantOf
  <2>3. Variants[Latest(i)].disc[1] \in Int  BY <2>1, <2>2, VariantOf
  <2>4. Counted(i) = Variants[Latest(i)].disc[1] + offset  BY <1>5, <2>1 DEF Counted
  <2>5. offset # i /\ offset \in Nat /\ Latest(i) = i - offset  BY <1>1, <2>1
  <2>. HIDE DEF offset
  <2>6. CASE offset = 0  BY <2>3, <2>4, <2>5, <2>6, <1>1, <1>2, <1>3
  <2>7. CASE offset # 0
    <3>1. tag_consts(Variants, tag)[i] = Wrap(tag, explicit(Latest(i)) + offset)  BY <2>5, <2>7, <1>3
    <3>2. explicit(Latest(i)) = Variants[Latest(i)].disc[1] % Values(tag)  BY DEF Wrap
    <3>. HIDE DEF explicit
    <3>3. ((Variants[Latest(i)].disc[1] % Values(tag)) + offset) % Values(tag)
          = (Variants[Latest(i)].disc[1] + offset) % Values(tag)
      <4> DEFINE V == Values(tag)  d == Variants[Latest(i)].disc[1]
      <4>1. V \in Nat /\ V > 0 /\ d \in Int /\ offset \in Int  BY <2>3, <2>5, ValuesPositive
      <4>2. ((d % V) + offset) % V = (d + offset) % V
        <5>. HIDE DEF V, d
        <5>. QED BY <4>1, ModOfSum
      <4>. QED BY <4>2
    <3>. QED BY <3>1, <3>2, <3>3, <2>4, <1>2 DEF Wrap
  <2>. QED BY <2>6, <2>7
<1>. QED BY <1>4, <1>5

(* So both give the enum's discriminants. *)
LEMMA TagsAreDiscriminants ==
  ASSUME ItemTyped
  PROVE  /\ enum_variant_tag_exprs(Variants, plan.tag) = Discriminants
         /\ tag_consts(Variants, plan.tag) = Discriminants
<1>1. /\ enum_variant_tag_exprs(Variants, plan.tag) = [i \in DOMAIN Variants |-> enum_variant_tag_exprs(Variants, plan.tag)[i]]
      /\ tag_consts(Variants, plan.tag) = [i \in DOMAIN Variants |-> tag_consts(Variants, plan.tag)[i]]
  BY DEF enum_variant_tag_exprs, tag_consts
<1>2. \A i \in DOMAIN Variants : /\ enum_variant_tag_exprs(Variants, plan.tag)[i] = Wrap(plan.tag, Discriminant(i))
                                 /\ tag_consts(Variants, plan.tag)[i] = Wrap(plan.tag, Discriminant(i))
  BY TagIsCounted, DiscriminantIsCounted
<1>. QED BY <1>1, <1>2 DEF Discriminants

(* A discriminant in the tag type is one of its values. *)
LEMMA DiscriminantRange ==
  ASSUME ItemTyped
  PROVE  Discriminants \in [DOMAIN Variants -> 0..(Values(plan.tag) - 1)]
<1>. SUFFICES ASSUME NEW i \in DOMAIN Variants PROVE Wrap(plan.tag, Discriminant(i)) \in 0..(Values(plan.tag) - 1)
  BY DEF Discriminants
<1>1. Discriminant(i) \in Int  BY DiscriminantIsCounted, CountedStep
<1>. QED BY <1>1, ValuesPositive, ModRange DEF Wrap

(* The intervals that are counted below. *)
LEMMA IntervalOf ==
  ASSUME NEW n \in Nat
  PROVE  /\ IsFiniteSet(1..n) /\ Cardinality(1..n) = n
         /\ IsFiniteSet(0..(n - 1)) /\ Cardinality(0..(n - 1)) = n
BY FS_Interval

(* No more variants than tags when the discriminants differ modulo the tag. *)
LEMMA VariantsFit ==
  ASSUME ItemTyped, Fit
  PROVE  Len(Variants) <= Values(plan.tag)
<1> DEFINE n == Len(Variants)  V == Values(plan.tag)
<1>1. n \in Nat /\ V \in Nat /\ V > 1 /\ (n > 0 => DOMAIN Variants = 1..n)
  BY ValuesPositive, VariantOf DEF ItemTyped, Variants
<1>2. Discriminants \in [1..n -> 0..(V - 1)]
  BY DiscriminantRange DEF ItemTyped, Variants
<1>3. IsFiniteSet(1..n) /\ Cardinality(1..n) = n  BY <1>1, IntervalOf
<1>4. IsFiniteSet(0..(V - 1)) /\ Cardinality(0..(V - 1)) = V  BY <1>1, IntervalOf
<1>5. SUFFICES ASSUME n > V PROVE FALSE  BY <1>1
<1>. HIDE DEF n, V
<1>6. \E x, y \in 1..n : x # y /\ Discriminants[x] = Discriminants[y]
  BY <1>1, <1>2, <1>3, <1>4, <1>5, FS_PigeonHole
<1>. QED BY <1>2, <1>6 DEF Fit, IsInjective

-----------------------------------------------------------------------------
(* The representations there are. *)
Kinds == {<<>>, Transparent, C} \cup Primitive \cup CPrimitive

(* The tags are one of the two computations, in the type the representation asks for. *)
TagsComputed ==
  /\ HasTagType(kind) /\ plan.tag = enum_tag_type(kind, Len(Variants))
  /\ plan.tags \in {enum_variant_tag_exprs(Variants, plan.tag), tag_consts(Variants, plan.tag)}

(* How the search ended. *)
NicheFound == IF Searched THEN Free(niche) ELSE niche = Wrap(plan.tag, -1)

DeriveInv ==
  stage # "idle" =>
    /\ ItemTyped /\ kind \in Kinds /\ errors \in BOOLEAN
    /\ stage \in {"zero", "report"} /\ IsEnum /\ kind = C => errors
    /\ stage = "generate" /\ IsEnum => kind # C
    /\ stage # "panicked"
    /\ (stage \in {"assert", "niche", "search"} \/ (stage = "compiled" /\ plan.tags # <<>>)) => TagsComputed
    /\ stage \notin {"search", "compiled"} => niche = 0
    /\ stage = "search" => HasNiche /\ (~Searched => niche = 0)
    /\ stage = "compiled" /\ plan.tags # <<>> /\ HasNiche => NicheFound

(* Whatever tokens come, the representation read stays one of the known ones. *)
LEMMA KindMerged ==
  ASSUME NEW token \in {"transparent", "C"} \cup Integer, kind \in Kinds
  PROVE  Merged(kind, token) \in Kinds
<1>0. C \notin Primitive
  <2>1. \A p \in Integer : <<p>> # <<"C">>
    <3>. SUFFICES ASSUME NEW p \in Integer, <<p>> = <<"C">> PROVE FALSE  OBVIOUS
    <3>1. <<p>>[1] = <<"C">>[1]  OBVIOUS
    <3>. QED BY <3>1 DEF Integer
  <2>. QED BY <2>1 DEF C, Primitive
<1>1. CASE kind = C /\ token \in Integer
  BY <1>0, <1>1 DEF Merged, Kinds, CPrimitive
<1>2. CASE kind \in Primitive /\ token = "C"
  <2>1. PICK p \in Integer : kind = <<p>>  BY <1>2 DEF Primitive
  <2>2. Merged(kind, token) = <<"C", p>>
    <3>1. kind # C  BY <1>0, <1>2
    <3>2. Merged(kind, token) = <<"C", kind[1]>>  BY <1>2, <3>1 DEF Merged
    <3>. QED BY <2>1, <3>2
  <2>. QED BY <2>1, <2>2 DEF Kinds, CPrimitive
<1>3. CASE ~(kind = C /\ token \in Integer) /\ ~(kind \in Primitive /\ token = "C")
  <2>1. Merged(kind, token) = <<token>>  BY <1>3 DEF Merged
  <2>. QED BY <2>1 DEF Kinds, Primitive, Transparent, C
<1>. QED BY <1>1, <1>2, <1>3

(* It holds before anything is read. *)
LEMMA DeriveInvInit == Init => DeriveInv
<1>1. DeriveInit => DeriveInv
  <2>. SUFFICES ASSUME DeriveInit PROVE DeriveInv  OBVIOUS
  <2>1. ItemTyped
    <3>1. PICK family \in Items : item \in family  BY DEF DeriveInit
    <3>. QED BY <3>1, ItemAssumption DEF ItemTyped, Variants
  <2>. QED BY <2>1 DEF DeriveInit, DeriveInv, Kinds
<1>. QED BY <1>1 DEF Init, DeriveIdle, DeriveInv

(* Every step of the derive keeps it: one step of the proof per action. *)
LEMMA DeriveInvNext == DeriveInv /\ [Next]_vars => DeriveInv'
<1>. SUFFICES ASSUME DeriveInv, DeriveNext PROVE DeriveInv'
  <2>1. CASE UNCHANGED deriveVars
    BY <2>1 DEF deriveVars, DeriveInv, ItemTyped, IsEnum, TagsComputed, NicheFound, Searched, Free, HasNiche,
       ExhaustiveEnum, AllUnit, Variants
  <2>2. CASE DeriveNext  BY <2>2
  <2>. QED BY <2>1, <2>2 DEF Next, vars
<1>0. stage # "idle"
  BY DEF DeriveNext, parse_repr, ReprRead, parse_repr_c_attrs, CheckTransparent, CheckIdentity, CheckStruct, CheckEnum,
     CheckZeroTags, RefuseUnion, Report, derive_field_repr_c, RefuseUninhabited, derive_item, gen_enum_codec_impls,
     derive_fieldless_enum, AssertZeroTags, gen_enum_niche_ir, gen_enum_niche_tag
<1>. USE <1>0
(* What most steps leave alone. *)
<1>f. ASSUME Fail, stage \notin {"search", "compiled"} PROVE DeriveInv'
  BY <1>f DEF Fail, DeriveInv, ItemTyped, Variants, IsEnum
<1>c. ASSUME NEW next \in {"options", "transparent", "identity", "data"}, NEW wrong \in BOOLEAN, Check(next, wrong),
             stage \in {"repr", "options", "transparent", "identity"}
      PROVE  DeriveInv'
  BY <1>c DEF Check, DeriveInv, ItemTyped, Variants, IsEnum
<1>e. ASSUME NEW conversion, Emit("compiled", conversion, "", <<>>), stage = "generate" PROVE DeriveInv'
  <2>1. plan'.tags = <<>> /\ stage' = "compiled"  BY <1>e DEF Emit
  <2>. QED BY <1>e, <2>1 DEF Emit, DeriveInv, ItemTyped, Variants, IsEnum
<1>1. CASE parse_repr
  <2> DEFINE token == Parsed(Head(tokens))
  <2>1. CASE token = "unrecognized"  BY <2>1, <1>1, <1>f DEF parse_repr
  <2>2. CASE token # "unrecognized"
    <3>1. token \in {"transparent", "C", "packed", "align"} \cup Integer  BY <2>2 DEF Parsed
    <3>2. kind' \in Kinds /\ errors' \in BOOLEAN /\ UNCHANGED <<stage, item, plan, niche>> /\ stage = "repr"
      <4>1. IsKind(token) => token \in {"transparent", "C"} \cup Integer  BY <3>1 DEF IsKind
      <4>2. kind \in Kinds /\ errors \in BOOLEAN  BY DEF DeriveInv
      <4>. HIDE DEF token
      <4>. QED BY <1>1, <2>2, <4>1, <4>2, KindMerged DEF parse_repr, token
    <3>. QED BY <3>2 DEF DeriveInv, ItemTyped, Variants
  <2>. QED BY <2>1, <2>2
<1>2. CASE ReprRead
  BY <1>2, <1>f, <1>c DEF ReprRead
<1>3. CASE parse_repr_c_attrs
  BY <1>3, <1>f, <1>c DEF parse_repr_c_attrs
<1>4. CASE CheckTransparent
  <2>1. (Opt("NICHE") \/ Opt("is_valid")) \in BOOLEAN  OBVIOUS
  <2>. QED BY <1>4, <1>f, <1>c, <2>1 DEF CheckTransparent
<1>5. CASE CheckIdentity
  <2>1. IdentityRefused \in BOOLEAN  BY DEF IdentityRefused
  <2>. QED BY <1>5, <1>c, <2>1 DEF CheckIdentity
<1>6. CASE CheckStruct
  BY <1>6 DEF CheckStruct, Check, DeriveInv, ItemTyped, Variants, IsEnum
<1>7. CASE CheckEnum
  <2>1. CASE Fail  BY <2>1, <1>7, <1>f DEF CheckEnum
  <2>2. CASE \E wrong \in BOOLEAN : Check("zero", wrong) /\ (kind = C => wrong)
    BY <2>2, <1>7 DEF Check, CheckEnum, DeriveInv, ItemTyped, Variants, IsEnum
  <2>. QED BY <1>7, <2>1, <2>2 DEF CheckEnum
<1>8. CASE CheckZeroTags
  BY <1>8 DEF CheckZeroTags, Check, DeriveInv, ItemTyped, Variants, IsEnum
<1>9. CASE RefuseUnion
  BY <1>9, <1>f DEF RefuseUnion
<1>10. CASE Report
  <2>1. CASE Fail  BY <2>1, <1>10, <1>f DEF Report
  <2>2. CASE ~errors /\ stage = "report" /\ Check("generate", FALSE)
    BY <2>2 DEF Check, DeriveInv, ItemTyped, Variants, IsEnum
  <2>. QED BY <1>10, <2>1, <2>2 DEF Report
<1>11. CASE derive_field_repr_c
  BY <1>11, <1>e DEF derive_field_repr_c
<1>12. CASE RefuseUninhabited
  BY <1>12, <1>f DEF RefuseUninhabited
<1>13. CASE derive_item
  BY <1>13, <1>e DEF derive_item
<1>14. CASE gen_enum_codec_impls
  <2>1. HasTagType(kind)
    <3>1. kind # C  BY <1>14 DEF gen_enum_codec_impls, DeriveInv
    <3>2. kind # Transparent  BY <1>14 DEF gen_enum_codec_impls, Untagged, is_transparent_enum_repr
    <3>. QED BY <3>1, <3>2 DEF DeriveInv, Kinds, HasTagType
  <2>. QED BY <1>14, <2>1 DEF gen_enum_codec_impls, Emit, DeriveInv, ItemTyped, Variants, IsEnum, TagsComputed
<1>15. CASE derive_fieldless_enum
  <2>1. kind # C  BY <1>15 DEF derive_fieldless_enum, DeriveInv
  <2>2. CASE is_transparent_enum_repr(kind, Variants)
    BY <1>15, <1>e, <2>1, <2>2 DEF derive_fieldless_enum
  <2>3. CASE ~is_transparent_enum_repr(kind, Variants)
    <3>1. HasTagType(kind)
      <4>1. kind # Transparent  BY <2>3 DEF is_transparent_enum_repr
      <4>. QED BY <2>1, <4>1 DEF DeriveInv, Kinds, HasTagType
    <3>. QED BY <1>15, <2>1, <2>3, <3>1
         DEF derive_fieldless_enum, Emit, DeriveInv, ItemTyped, Variants, IsEnum, TagsComputed
  <2>. QED BY <2>2, <2>3
<1>16. CASE AssertZeroTags
  <2>1. CASE Fail  BY <2>1, <1>16, <1>f DEF AssertZeroTags
  <2>2. CASE stage = "assert" /\ Check("niche", FALSE)
    BY <2>2 DEF Check, DeriveInv, ItemTyped, Variants, IsEnum, TagsComputed
  <2>. QED BY <1>16, <2>1, <2>2 DEF AssertZeroTags
<1>17. CASE gen_enum_niche_ir
  <2>1. CASE HasNiche
    BY <1>17, <2>1 DEF gen_enum_niche_ir, Check, DeriveInv, ItemTyped, Variants, IsEnum, TagsComputed, HasNiche, AllUnit,
       ExhaustiveEnum, Searched
  <2>2. CASE ~HasNiche
    BY <1>17, <2>2 DEF gen_enum_niche_ir, Check, DeriveInv, ItemTyped, Variants, IsEnum, TagsComputed, HasNiche, AllUnit,
       ExhaustiveEnum
  <2>. QED BY <2>1, <2>2
<1>18. CASE gen_enum_niche_tag
  <2>1. TagsComputed' /\ HasNiche' /\ ItemTyped'
    BY <1>18 DEF gen_enum_niche_tag, DeriveInv, ItemTyped, Variants, TagsComputed, HasNiche, AllUnit, ExhaustiveEnum
  <2>2. CASE Searched /\ Free(niche)
    <3>1. NicheFound'  BY <1>18, <2>2 DEF gen_enum_niche_tag, NicheFound, Searched, Free, Variants
    <3>. QED BY <1>18, <2>1, <2>2, <3>1 DEF gen_enum_niche_tag, DeriveInv, IsEnum
  <2>3. CASE Searched /\ ~Free(niche)
    <3>1. Searched'  BY <1>18, <2>3 DEF gen_enum_niche_tag, Searched, Variants
    <3>. QED BY <1>18, <2>1, <2>3, <3>1 DEF gen_enum_niche_tag, DeriveInv, IsEnum
  <2>4. CASE ~Searched
    <3>1. niche = 0  BY <1>18, <2>4 DEF gen_enum_niche_tag, DeriveInv
    <3>2. niche' = Wrap(plan.tag, -1)  BY <1>18, <2>4, <3>1 DEF gen_enum_niche_tag
    <3>3. NicheFound'  BY <1>18, <2>4, <3>2 DEF gen_enum_niche_tag, NicheFound, Searched, Variants, Wrap
    <3>. QED BY <1>18, <2>1, <2>4, <3>3 DEF gen_enum_niche_tag, DeriveInv, IsEnum
  <2>. QED BY <2>2, <2>3, <2>4
<1>. QED BY <1>1, <1>2, <1>3, <1>4, <1>5, <1>6, <1>7, <1>8, <1>9, <1>10, <1>11, <1>12, <1>13, <1>14, <1>15, <1>16,
            <1>17, <1>18 DEF DeriveNext

(* rustc sees to it that the discriminants fit a tag that is written down; *)
(* of an inferred one nothing is assumed.                                  *)
TagChecked == kind # <<>> => Fit

(* Fewer variants than tags where a niche is searched for. *)
LEMMA VariantsLeaveRoom ==
  ASSUME ItemTyped, TagChecked, TagsComputed, HasNiche
  PROVE  Len(Variants) < Values(plan.tag)
<1>1. Len(Variants) \in Nat /\ Len(Variants) < WideValues /\ Values(plan.tag) \in Nat
  BY ValuesPositive DEF ItemTyped, Variants
<1>2. Len(Variants) <= Values(plan.tag)
  <2>1. CASE kind # <<>>  BY <2>1, VariantsFit DEF TagChecked
  <2>2. CASE kind = <<>>
    BY <1>1, <2>2 DEF TagsComputed, enum_tag_type, infer_repr, Values
  <2>. QED BY <2>1, <2>2
<1>3. ~is_exhaustive_enum(Len(Variants), plan.tag)
  BY DEF HasNiche, ExhaustiveEnum, TagsComputed
<1>4. CASE plan.tag = "usize"
  BY <1>1, <1>4 DEF Values
<1>5. CASE plan.tag # "usize"
  BY <1>1, <1>2, <1>3, <1>5 DEF is_exhaustive_enum
<1>. QED BY <1>4, <1>5

(* It says that the tags distinguish: what is left is that the niche is none *)
(* of them.                                                                  *)
LEMMA DeriveInvImplies == DeriveInv => TagsDistinguish
<1>. SUFFICES ASSUME DeriveInv, stage = "compiled", plan.tags # <<>>, Fit
              PROVE  /\ plan.tags = Discriminants
                     /\ IsInjective(plan.tags)
                     /\ enum_variant_tag_exprs(Variants, plan.tag) = tag_consts(Variants, plan.tag)
                     /\ HasNiche => niche \notin Range(plan.tags)
  BY DEF TagsDistinguish
<1>1. ItemTyped /\ TagsComputed /\ (HasNiche => NicheFound)  BY DEF DeriveInv
<1>2. plan.tags = Discriminants  BY <1>1, TagsAreDiscriminants DEF TagsComputed
<1>3. DOMAIN plan.tags = DOMAIN Variants  BY <1>2 DEF Discriminants
<1>4. ASSUME HasNiche PROVE niche \notin Range(plan.tags)
  <2>1. CASE Searched
    BY <1>1, <1>3, <1>4, <2>1 DEF NicheFound, Free, Range
  <2>2. CASE ~Searched
    <3>. SUFFICES ASSUME NEW i \in DOMAIN Variants, plan.tags[i] = niche PROVE FALSE  BY <1>3 DEF Range
    <3> DEFINE V == Values(plan.tag)
    <3>1. i \in Nat /\ i >= 1 /\ i <= Len(Variants) /\ Len(Variants) \in Nat  BY <1>1, VariantOf
    <3>2. Len(Variants) < V /\ V \in Nat /\ V > 0  BY <1>1, <1>4, VariantsLeaveRoom, ValuesPositive DEF TagChecked
    <3>3. Explicit(i) = {}  BY <1>1, <2>2, <3>1, VariantOf DEF Explicit, Searched
    <3>4. Discriminant(i) = i - 1  BY <1>1, <3>3, DiscriminantIsCounted DEF Counted
    <3>5. plan.tags[i] = (i - 1) % V  BY <1>2, <3>4 DEF Discriminants, Wrap
    <3>6. niche = (-1) % V  BY <1>1, <1>4, <2>2 DEF NicheFound, Wrap
    <3>. HIDE DEF V
    <3>7. (i - 1) % V = i - 1
      <4>1. i - 1 \in 0..(V - 1) /\ i - 1 \in Int  BY <3>1, <3>2
      <4>. QED BY <4>1, <3>2, ModRange
    <3>8. (-1) % V = V - 1  BY <3>2, ModRange
    <3>9. i - 1 = V - 1  BY <3>5, <3>6, <3>7, <3>8
    <3>. QED BY <3>1, <3>2, <3>9
  <2>. QED BY <2>1, <2>2
<1>. QED BY <1>1, <1>2, <1>4, TagsAreDiscriminants DEF Fit

(* The inductive invariant of derive(ReprC) holds throughout every expansion. *)
THEOREM DeriveInvariance == Spec => []DeriveInv
BY DeriveInvInit, DeriveInvNext, PTL DEF Spec

(* The tags of every item are its discriminants, tell its variants apart and *)
(* leave the niche free, whatever the widths and however many the variants.  *)
THEOREM TagsAlwaysDistinguish == Spec => []TagsDistinguish
BY DeriveInvariance, DeriveInvImplies, PTL

(* No arm written off as unreachable!() is reached: a tag is only asked of a *)
(* representation that has one.                                              *)
NeverPanics == stage # "panicked"

(* For every item, whatever its attributes, no unreachable!() arm of the *)
(* generator runs: what would take it there was refused before.          *)
THEOREM UnreachableArms == Spec => []NeverPanics
<1>1. DeriveInv => NeverPanics  BY DEF DeriveInv, NeverPanics
<1>. QED BY <1>1, DeriveInvariance, PTL

(* The loop that searches for the niche has one to find. *)
NicheToFind == stage = "search" /\ TagChecked => \E candidate \in 0..(Values(plan.tag) - 1) : Free(candidate)

(* With fewer variants than tags, some tag is no variant's. *)
LEMMA NicheExists == DeriveInv => NicheToFind
<1>. SUFFICES ASSUME DeriveInv, stage = "search", TagChecked, \A c \in 0..(Values(plan.tag) - 1) : ~Free(c) PROVE FALSE
  BY DEF NicheToFind
<1> DEFINE n == Len(Variants)  V == Values(plan.tag)
           owner == [c \in 0..(V - 1) |-> CHOOSE i \in DOMAIN Variants : c = plan.tags[i]]
<1>1. ItemTyped /\ TagsComputed /\ HasNiche  BY DEF DeriveInv
<1>2. n \in Nat /\ V \in Nat /\ n < V /\ DOMAIN Variants = 1..n
  BY <1>1, VariantsLeaveRoom, ValuesPositive DEF ItemTyped, Variants
<1>3. \A c \in 0..(V - 1) : \E i \in DOMAIN Variants : c = plan.tags[i]  BY DEF Free
<1>4. \A c \in 0..(V - 1) : owner[c] \in DOMAIN Variants /\ c = plan.tags[owner[c]]  BY <1>3
<1>5. owner \in [0..(V - 1) -> 1..n]  BY <1>2, <1>4
<1>6. IsFiniteSet(1..n) /\ Cardinality(1..n) = n /\ IsFiniteSet(0..(V - 1)) /\ Cardinality(0..(V - 1)) = V
  <2>. HIDE DEF n, V
  <2>. QED BY <1>2, IntervalOf
<1>7. \E x, y \in 0..(V - 1) : x # y /\ owner[x] = owner[y]
  <2>. HIDE DEF n, V, owner
  <2>. QED BY <1>2, <1>5, <1>6, FS_PigeonHole
<1>. HIDE DEF owner
<1>. QED BY <1>4, <1>7

(* Whenever the search of gen_enum_niche_tag runs, a tag is free, so that the *)
(* loop, which nothing bounds, has somewhere to stop.                         *)
THEOREM NicheAlwaysExists == Spec => []NicheToFind
BY DeriveInvariance, NicheExists, PTL

(* The candidates the search has passed, all of them taken: zero, where it *)
(* begins, and from the largest tag down to the candidate.                 *)
Passed == {0} \cup {c \in 0..(Values(plan.tag) - 1) : c > niche}

SearchInv ==
  stage = "search" =>
    /\ niche \in 0..(Values(plan.tag) - 1)
    /\ niche # 0 => \A c \in Passed : ~Free(c)

(* How far the search can still come down. *)
Height == IF niche = 0 THEN Values(plan.tag) ELSE niche

(* One round takes the next lower tag, or the largest after zero. *)
LEMMA Round ==
  ASSUME DeriveInv, SearchInv, stage = "search", gen_enum_niche_tag, stage' = "search"
  PROVE  /\ plan' = plan /\ item' = item /\ Searched /\ ~Free(niche)
         /\ niche' = IF niche = 0 THEN Values(plan.tag) - 1 ELSE niche - 1
<1> DEFINE V == Values(plan.tag)
<1>1. V \in Nat /\ V > 1 /\ niche \in 0..(V - 1)  BY ValuesPositive DEF SearchInv
<1>2. Searched /\ ~Free(niche)  BY DEF gen_enum_niche_tag
<1>3. plan' = plan /\ item' = item /\ niche' = (niche - 1) % V  BY <1>2 DEF gen_enum_niche_tag, Wrap
<1>. HIDE DEF V
<1>4. CASE niche = 0
  <2>1. (-1) % V = V - 1  BY <1>1, ModRange
  <2>. QED BY <1>2, <1>3, <1>4, <2>1 DEF V
<1>5. CASE niche # 0
  <2>1. niche - 1 \in 0..(V - 1) /\ niche - 1 \in Int  BY <1>1, <1>5
  <2>2. (niche - 1) % V = niche - 1  BY <1>1, <2>1, ModRange
  <2>. QED BY <1>2, <1>3, <1>5, <2>2
<1>. QED BY <1>4, <1>5

(* What has been passed stays taken. *)
LEMMA SearchInvNext == DeriveInv /\ SearchInv /\ [Next]_vars => SearchInv'
<1>. SUFFICES ASSUME DeriveInv, SearchInv, [Next]_vars, stage' = "search" PROVE SearchInv'
  BY DEF SearchInv
<1>1. CASE UNCHANGED deriveVars
  BY <1>1 DEF deriveVars, SearchInv, Passed, Free, Variants
<1>2. CASE DeriveNext /\ stage # "search"
  <2>1. gen_enum_niche_ir
    BY <1>2 DEF DeriveNext, parse_repr, ReprRead, parse_repr_c_attrs, CheckTransparent, CheckIdentity, CheckStruct,
       CheckEnum, CheckZeroTags, RefuseUnion, Report, derive_field_repr_c, RefuseUninhabited, derive_item,
       gen_enum_codec_impls, derive_fieldless_enum, AssertZeroTags, gen_enum_niche_tag, Check, Fail, Emit
  <2>2. niche' = 0 /\ plan' = plan  BY <2>1 DEF gen_enum_niche_ir, Check, DeriveInv
  <2>. QED BY <2>2, ValuesPositive DEF SearchInv
<1>3. CASE DeriveNext /\ stage = "search"
  <2> DEFINE V == Values(plan.tag)
  <2>1. gen_enum_niche_tag
    BY <1>3 DEF DeriveNext, parse_repr, ReprRead, parse_repr_c_attrs, CheckTransparent, CheckIdentity, CheckStruct,
       CheckEnum, CheckZeroTags, RefuseUnion, Report, derive_field_repr_c, RefuseUninhabited, derive_item,
       gen_enum_codec_impls, derive_fieldless_enum, AssertZeroTags, gen_enum_niche_ir
  <2>2. /\ plan' = plan /\ item' = item /\ ~Free(niche)
        /\ niche' = IF niche = 0 THEN V - 1 ELSE niche - 1
    BY <1>3, <2>1, Round
  <2>3. V \in Nat /\ V > 1 /\ niche \in 0..(V - 1) /\ (niche # 0 => \A c \in Passed : ~Free(c))
    BY <1>3, ValuesPositive DEF SearchInv
  <2>4. Values(plan'.tag) = V /\ Variants' = Variants  BY <2>2 DEF Variants
  <2>5. \A c : Free(c)' = Free(c)  BY <2>2, <2>4 DEF Free
  <2>. HIDE DEF V
  <2>6. niche' \in 0..(V - 1)  BY <2>2, <2>3
  <2>7. ASSUME niche' # 0, NEW c \in Passed' PROVE ~Free(c)
    <3>1. c = 0 \/ (c \in 0..(V - 1) /\ c > niche')  BY <2>4, <2>7 DEF Passed
    <3>2. CASE niche = 0
      <4>1. c = 0  BY <2>2, <2>3, <3>1, <3>2
      <4>. QED BY <2>2, <3>2, <4>1
    <3>3. CASE niche # 0
      <4>1. c = 0 \/ c = niche \/ (c \in 0..(V - 1) /\ c > niche)  BY <2>2, <2>3, <3>1, <3>3
      <4>2. c = niche \/ c \in Passed  BY <4>1 DEF Passed, V
      <4>. QED BY <2>2, <2>3, <3>3, <4>2
    <3>. QED BY <3>2, <3>3
  <2>. QED BY <2>4, <2>5, <2>6, <2>7 DEF SearchInv
<1>. QED BY <1>1, <1>2, <1>3 DEF Next, vars

(* While a niche is to be found, each round of the search comes down: it does *)
(* not pass below one, for zero and all above one are taken by then.          *)
LEMMA RoundDescends ==
  ASSUME DeriveInv, SearchInv, stage = "search", TagChecked, gen_enum_niche_tag, stage' = "search"
  PROVE  Height \in Nat /\ Height' < Height
<1> DEFINE V == Values(plan.tag)
<1>1. V \in Nat /\ V > 1 /\ niche \in 0..(V - 1) /\ (niche # 0 => \A c \in Passed : ~Free(c))
  BY ValuesPositive DEF SearchInv
<1>2. /\ plan' = plan /\ ~Free(niche)
      /\ niche' = IF niche = 0 THEN V - 1 ELSE niche - 1
  BY Round
<1>3. PICK c \in 0..(V - 1) : Free(c)  BY NicheExists DEF NicheToFind
<1>4. niche # 1
  <2>. SUFFICES ASSUME niche = 1 PROVE FALSE  OBVIOUS
  <2>1. c # niche /\ c \notin Passed  BY <1>1, <1>2, <1>3
  <2>2. c # 0 /\ ~(c > 1)  BY <1>3, <2>1 DEF Passed
  <2>. QED BY <1>3, <2>1, <2>2
<1>5. Values(plan'.tag) = V  BY <1>2
<1>. HIDE DEF V
<1>6. Height = (IF niche = 0 THEN V ELSE niche) /\ Height' = (IF niche' = 0 THEN V ELSE niche')
  BY <1>5 DEF Height, V
<1>. QED BY <1>1, <1>2, <1>4, <1>6

(* The tokens that are not read yet. *)
TokensInv == stage = "repr" => tokens \in Seq(STRING)

(* The tokens of #[repr] stay a sequence to its end. *)
LEMMA TokensInvNext == TokensInv /\ [Next]_vars => TokensInv'
<1>. SUFFICES ASSUME TokensInv, [Next]_vars, stage' = "repr" PROVE tokens' \in Seq(STRING)
  BY DEF TokensInv
<1>1. CASE UNCHANGED deriveVars
  BY <1>1 DEF deriveVars, TokensInv
<1>2. CASE DeriveNext
  <2>1. parse_repr
    BY <1>2 DEF DeriveNext, ReprRead, parse_repr_c_attrs, CheckTransparent, CheckIdentity, CheckStruct,
       CheckEnum, CheckZeroTags, RefuseUnion, Report, derive_field_repr_c, RefuseUninhabited, derive_item,
       gen_enum_codec_impls, derive_fieldless_enum, AssertZeroTags, gen_enum_niche_ir, gen_enum_niche_tag, Check, Fail, Emit
  <2>2. tokens # <<>> /\ tokens \in Seq(STRING) /\ tokens' = Tail(tokens)
    BY <2>1 DEF parse_repr, Fail, TokensInv
  <2>. QED BY <2>2
<1>. QED BY <1>1, <1>2 DEF Next, vars

(* The order the stages come in, some of them skipped. *)
StageAt(s) == CASE s = "repr" -> 1
                [] s = "options" -> 2
                [] s \in {"transparent", "identity"} -> 3
                [] s = "data" -> 4
                [] s = "zero" -> 5
                [] s = "report" -> 6
                [] s = "generate" -> 7
                [] s = "assert" -> 8
                [] s = "niche" -> 9
                [] s = "search" -> 10
                [] s \in {"compiled", "rejected", "panicked"} -> 11
                [] OTHER -> 0

(* A step ends its stage, reads a token, or comes down in the niche search. *)
DeriveForward ==
  \/ StageAt(stage) < StageAt(stage')
  \/ stage = "repr" /\ stage' = stage /\ Len(tokens') < Len(tokens)
  \/ stage = "search" /\ stage' = stage /\ Height \in Nat /\ Height' < Height

(* One step of the proof per stage. *)
LEMMA DeriveStep ==
  ASSUME DeriveInv, SearchInv, TokensInv, DeriveNext, TagChecked
  PROVE  DeriveForward
<1>1. CASE parse_repr
  <2>1. CASE Fail  BY <1>1, <2>1 DEF parse_repr, Fail, DeriveForward, StageAt
  <2>2. CASE ~Fail
    <3>1. stage = "repr" /\ stage' = stage /\ tokens # <<>> /\ tokens \in Seq(STRING) /\ tokens' = Tail(tokens)
      BY <1>1, <2>2 DEF parse_repr, TokensInv
    <3>2. Len(tokens') < Len(tokens)  BY <3>1
    <3>. QED BY <3>1, <3>2 DEF DeriveForward
  <2>. QED BY <2>1, <2>2
<1>2. CASE ReprRead  BY <1>2 DEF ReprRead, Check, Fail, DeriveForward, StageAt
<1>3. CASE parse_repr_c_attrs  BY <1>3 DEF parse_repr_c_attrs, Check, Fail, DeriveForward, StageAt
<1>4. CASE CheckTransparent \/ CheckIdentity
  BY <1>4 DEF CheckTransparent, CheckIdentity, Check, Fail, DeriveForward, StageAt
<1>5. CASE CheckStruct \/ CheckEnum \/ RefuseUnion
  BY <1>5 DEF CheckStruct, CheckEnum, RefuseUnion, Check, Fail, DeriveForward, StageAt
<1>6. CASE CheckZeroTags \/ Report
  BY <1>6 DEF CheckZeroTags, Report, Check, Fail, DeriveForward, StageAt
<1>7. CASE derive_field_repr_c \/ RefuseUninhabited \/ derive_item
  <2>1. stage = "generate" /\ stage' \in {"compiled", "rejected"}
    BY <1>7 DEF derive_field_repr_c, RefuseUninhabited, derive_item, Emit, Fail
  <2>. QED BY <2>1 DEF DeriveForward, StageAt
<1>8. CASE gen_enum_codec_impls
  <2>1. stage = "generate" /\ stage' \in {"panicked", "assert"}  BY <1>8 DEF gen_enum_codec_impls, Emit
  <2>. QED BY <2>1 DEF DeriveForward, StageAt
<1>9. CASE derive_fieldless_enum
  <2>1. stage = "generate" /\ stage' \in {"panicked", "compiled", "assert"}
    BY <1>9 DEF derive_fieldless_enum, Emit
  <2>. QED BY <2>1 DEF DeriveForward, StageAt
<1>10. CASE AssertZeroTags \/ gen_enum_niche_ir
  BY <1>10 DEF AssertZeroTags, gen_enum_niche_ir, Check, Fail, DeriveForward, StageAt
<1>11. CASE gen_enum_niche_tag
  <2>1. stage = "search" /\ stage' \in {"search", "compiled"}  BY <1>11 DEF gen_enum_niche_tag
  <2>2. CASE stage' = "search"  BY <1>11, <2>1, <2>2, RoundDescends DEF DeriveForward
  <2>3. CASE stage' = "compiled"  BY <2>1, <2>3 DEF DeriveForward, StageAt
  <2>. QED BY <2>1, <2>2, <2>3
<1>. QED BY <1>1, <1>2, <1>3, <1>4, <1>5, <1>6, <1>7, <1>8, <1>9, <1>10, <1>11 DEF DeriveNext

(* No loop of a derive turns for ever: reading #[repr] runs out of tokens, the *)
(* search for the niche, which stops at nothing but a free tag, comes down to  *)
(* one, and no other step is made twice.                                       *)
THEOREM DeriveAdvances == Spec => [][TagChecked => DeriveForward]_deriveVars
<1>1. Init => SearchInv /\ TokensInv
  <2>1. ASSUME DeriveInit PROVE SearchInv /\ TokensInv
    <3>1. PICK family \in Items : item \in family  BY <2>1 DEF DeriveInit
    <3>. QED BY <2>1, <3>1, ItemAssumption DEF DeriveInit, SearchInv, TokensInv
  <2>. QED BY <2>1 DEF Init, DeriveIdle, SearchInv, TokensInv
<1>2. DeriveInv /\ SearchInv /\ TokensInv /\ [Next]_vars => [TagChecked => DeriveForward]_deriveVars
  <2>. SUFFICES ASSUME DeriveInv, SearchInv, TokensInv, DeriveNext, TagChecked PROVE DeriveForward
    BY DEF Next, vars
  <2>. QED BY DeriveStep
<1>. QED BY <1>1, <1>2, DeriveInvariance, SearchInvNext, TokensInvNext, PTL DEF Spec

-----------------------------------------------------------------------------
(* ffi!: a declaration as it is parsed. *)

(* What the constants say of a declaration. *)
Formed == decl \in DeclarationSet /\ Resolved(decl) /\ ArgumentsFormed(decl)

(* No method generic shadows one of its impl. *)
Unshadowed == NamesOf(decl, TRUE) \cap NamesOf(decl, FALSE) = {}

(* The groups are what `normalize` has parsed, scope by scope. *)
ParsedWell == /\ Parses(decl.outerUses, TRUE) /\ Parses(decl.innerUses, FALSE)
              /\ groups = OuterGroups \o InnerGroups

(* A parameter is listed under its name, in its scope. *)
LEMMA ParamsTyped ==
  ASSUME Formed
  PROVE  /\ decl.params \in Seq(ParameterSet)
         /\ \A p \in Range(decl.params) : /\ p \in ParameterSet /\ p.name \in Names
                                          /\ p.name \in NamesOf(decl, p.outer)
         /\ \A name \in Names : \E p \in Range(decl.params) : p.name = name
         /\ \A outer \in BOOLEAN : {p.name : p \in Scope(outer)} = NamesOf(decl, outer)
<1>1. decl.params \in Seq(ParameterSet)  BY DEF Formed, DeclarationSet
<1>2. \A p \in Range(decl.params) : p \in ParameterSet  BY <1>1 DEF Range
<1>3. \A p \in Range(decl.params) : p.name \in NamesOf(decl, p.outer)  BY DEF Range, NamesOf
<1>4. ASSUME NEW outer \in BOOLEAN PROVE {p.name : p \in Scope(outer)} = NamesOf(decl, outer)
  BY DEF Scope, NamesOf, Range
<1>. QED BY <1>1, <1>2, <1>3, <1>4 DEF Names

(* Once shadowing is refused, a name is that of one parameter. *)
LEMMA ParamIs ==
  ASSUME Formed, Unshadowed, NEW p \in Range(decl.params)
  PROVE  Param(p.name) = p
<1>1. \A q \in Range(decl.params) : q.name = p.name => q = p
  <2>. SUFFICES ASSUME NEW q \in Range(decl.params), q.name = p.name PROVE q = p  OBVIOUS
  <2>1. p.outer \in BOOLEAN /\ q.outer \in BOOLEAN  BY ParamsTyped DEF ParameterSet
  <2>2. p.outer = q.outer  BY <2>1, ParamsTyped DEF Unshadowed
  <2>3. PICK i \in DOMAIN decl.params, j \in DOMAIN decl.params : decl.params[i] = p /\ decl.params[j] = q  BY DEF Range
  <2>4. i = j  BY <2>2, <2>3 DEF Formed, Resolved
  <2>. QED BY <2>3, <2>4
<1>. QED BY <1>1 DEF Param

(* The parameter of a name has it. *)
LEMMA ParamOf ==
  ASSUME Formed, NEW name \in Names
  PROVE  Param(name) \in Range(decl.params) /\ Param(name).name = name /\ Param(name) \in ParameterSet
<1>1. \E p \in Range(decl.params) : p.name = name  BY ParamsTyped
<1>2. Param(name) \in Range(decl.params) /\ Param(name).name = name  BY <1>1 DEF Param
<1>. QED BY <1>2, ParamsTyped

-----------------------------------------------------------------------------
(* The groups of the two scopes, one after the other. *)
LEMMA Appended ==
  ASSUME NEW g \in Seq(GroupSet), NEW h \in Seq(GroupSet)
  PROVE  /\ g \o h \in Seq(GroupSet)
         /\ \A i \in DOMAIN g : i \in DOMAIN (g \o h) /\ (g \o h)[i] = g[i]
         /\ \A i \in DOMAIN h : Len(g) + i \in DOMAIN (g \o h) /\ (g \o h)[Len(g) + i] = h[i]
         /\ \A i \in DOMAIN (g \o h) : \/ i \in DOMAIN g /\ (g \o h)[i] = g[i]
                                       \/ i - Len(g) \in DOMAIN h /\ (g \o h)[i] = h[i - Len(g)] /\ i \in Int
         /\ Len(g) \in Nat
OBVIOUS

(* The groups of both scopes select what either selects, from what either *)
(* does.                                                                  *)
LEMMA MembersAppended ==
  ASSUME NEW g \in Seq(GroupSet), NEW h \in Seq(GroupSet)
  PROVE  /\ Members(g \o h) = Members(g) \cup Members(h)
         /\ \A name : Targets(g \o h, name) = Targets(g, name) \cup Targets(h, name)
<1>1. Members(g \o h) = Members(g) \cup Members(h)
  <2>1. Members(g \o h) \subseteq Members(g) \cup Members(h)  BY Appended DEF Members
  <2>2. Members(g) \subseteq Members(g \o h)  BY Appended DEF Members
  <2>3. Members(h) \subseteq Members(g \o h)
    <3>. SUFFICES ASSUME NEW i \in DOMAIN h, NEW x \in Range(h[i].params) PROVE x \in Members(g \o h)  BY DEF Members
    <3>1. Len(g) + i \in DOMAIN (g \o h) /\ (g \o h)[Len(g) + i] = h[i]  BY Appended
    <3>. QED BY <3>1 DEF Members
  <2>. QED BY <2>1, <2>2, <2>3
<1>2. ASSUME NEW name PROVE Targets(g \o h, name) = Targets(g, name) \cup Targets(h, name)
  <2> DEFINE at(gs, i) == {t[j] : t \in Range(gs[i].targets), j \in {k \in DOMAIN gs[i].params : gs[i].params[k] = name}}
  <2>0. \A gs : Targets(gs, name) = UNION {at(gs, i) : i \in DOMAIN gs}  BY DEF Targets
  <2>1. ASSUME NEW i \in DOMAIN g PROVE at(g \o h, i) = at(g, i)
    <3>1. (g \o h)[i] = g[i]  BY Appended
    <3>. QED BY <3>1
  <2>2. ASSUME NEW i \in DOMAIN h PROVE at(g \o h, Len(g) + i) = at(h, i)
    <3>1. (g \o h)[Len(g) + i] = h[i]  BY Appended
    <3>. QED BY <3>1
  <2>3. \A i \in DOMAIN (g \o h) : i \in DOMAIN g \/ (i - Len(g) \in DOMAIN h /\ i = Len(g) + (i - Len(g)))  BY Appended
  <2>4. \A i \in DOMAIN g : i \in DOMAIN (g \o h)  BY Appended
  <2>5. \A i \in DOMAIN h : Len(g) + i \in DOMAIN (g \o h)  BY Appended
  <2>. HIDE DEF at
  <2>6. ASSUME NEW i \in DOMAIN (g \o h), NEW x \in at(g \o h, i) PROVE x \in Targets(g, name) \cup Targets(h, name)
    <3>1. CASE i \in DOMAIN g  BY <3>1, <2>0, <2>1, <2>6
    <3>2. CASE i - Len(g) \in DOMAIN h /\ i = Len(g) + (i - Len(g))
      <4>1. at(g \o h, i) = at(h, i - Len(g))  BY <3>2, <2>2
      <4>. QED BY <4>1, <3>2, <2>0, <2>6
    <3>. QED BY <3>1, <3>2, <2>3
  <2>7. ASSUME NEW i \in DOMAIN g, NEW x \in at(g, i) PROVE x \in Targets(g \o h, name)
    BY <2>7, <2>0, <2>1, <2>4
  <2>8. ASSUME NEW i \in DOMAIN h, NEW x \in at(h, i) PROVE x \in Targets(g \o h, name)
    BY <2>8, <2>0, <2>2, <2>5
  <2>9. Targets(g \o h, name) \subseteq Targets(g, name) \cup Targets(h, name)
    <3>. SUFFICES ASSUME NEW x \in Targets(g \o h, name) PROVE x \in Targets(g, name) \cup Targets(h, name)  OBVIOUS
    <3>0. x \in UNION {at(g \o h, i) : i \in DOMAIN (g \o h)}  BY <2>0
    <3>1. PICK i \in DOMAIN (g \o h) : x \in at(g \o h, i)  BY <3>0
    <3>. QED BY <3>1, <2>6
  <2>10. Targets(g, name) \subseteq Targets(g \o h, name)  BY <2>0, <2>7
  <2>11. Targets(h, name) \subseteq Targets(g \o h, name)  BY <2>0, <2>8
  <2>. QED BY <2>9, <2>10, <2>11
<1>. QED BY <1>1, <1>2

(* A place is a group and a position in it. *)
LEMMA PlacesAre ==
  ASSUME NEW gs, NEW name, NEW p
  PROVE  p \in Places(gs, name) <=> \E i \in DOMAIN gs : \E k \in DOMAIN gs[i].params : gs[i].params[k] = name /\ p = <<i, k>>
BY DEF Places

(* A parameter is selected when it has a place. *)
LEMMA PlacedIffMember ==
  ASSUME NEW gs, NEW name
  PROVE  Places(gs, name) # {} <=> name \in Members(gs)
<1>1. name \in Members(gs) <=> \E i \in DOMAIN gs : \E k \in DOMAIN gs[i].params : gs[i].params[k] = name
  BY DEF Members, Range
<1>2. Places(gs, name) # {} <=> \E p : p \in Places(gs, name)  OBVIOUS
<1>3. ASSUME NEW i \in DOMAIN gs, NEW k \in DOMAIN gs[i].params, gs[i].params[k] = name PROVE <<i, k>> \in Places(gs, name)
  BY <1>3, PlacesAre
<1>4. ASSUME NEW p \in Places(gs, name) PROVE \E i \in DOMAIN gs : \E k \in DOMAIN gs[i].params : gs[i].params[k] = name
  BY PlacesAre
<1>. QED BY <1>1, <1>2, <1>3, <1>4

(* A parameter placed at most once in either and not in both has at most one *)
(* place.                                                                    *)
LEMMA PlacedOnceAppended ==
  ASSUME NEW g \in Seq(GroupSet), NEW h \in Seq(GroupSet), NEW name,
         \A p, q \in Places(g, name) : p = q, \A p, q \in Places(h, name) : p = q,
         ~(name \in Members(g) /\ name \in Members(h))
  PROVE  \A p, q \in Places(g \o h, name) : p = q
<1>. SUFFICES ASSUME NEW p \in Places(g \o h, name), NEW q \in Places(g \o h, name) PROVE p = q  OBVIOUS
<1> DEFINE gh == g \o h
<1>0. p \in Places(gh, name) /\ q \in Places(gh, name) /\ gh = g \o h  OBVIOUS
<1>. HIDE DEF gh
<1>1. PICK i \in DOMAIN gh : \E k \in DOMAIN gh[i].params : gh[i].params[k] = name /\ p = <<i, k>>  BY <1>0 DEF Places
<1>1k. PICK k \in DOMAIN gh[i].params : gh[i].params[k] = name /\ p = <<i, k>>  BY <1>1
<1>2. PICK j \in DOMAIN gh : \E l \in DOMAIN gh[j].params : gh[j].params[l] = name /\ q = <<j, l>>  BY <1>0 DEF Places
<1>2l. PICK l \in DOMAIN gh[j].params : gh[j].params[l] = name /\ q = <<j, l>>  BY <1>2
<1>3. \A a \in DOMAIN g : \A b \in DOMAIN g[a].params : g[a].params[b] = name => <<a, b>> \in Places(g, name) /\ name \in Members(g)
  <2>. SUFFICES ASSUME NEW a \in DOMAIN g, NEW b \in DOMAIN g[a].params, g[a].params[b] = name
                PROVE <<a, b>> \in Places(g, name) /\ name \in Members(g)  OBVIOUS
  <2>1. <<a, b>> \in Places(g, name)  BY PlacesAre
  <2>. QED BY <2>1, PlacedIffMember
<1>4. \A a \in DOMAIN h : \A b \in DOMAIN h[a].params : h[a].params[b] = name => <<a, b>> \in Places(h, name) /\ name \in Members(h)
  <2>. SUFFICES ASSUME NEW a \in DOMAIN h, NEW b \in DOMAIN h[a].params, h[a].params[b] = name
                PROVE <<a, b>> \in Places(h, name) /\ name \in Members(h)  OBVIOUS
  <2>1. <<a, b>> \in Places(h, name)  BY PlacesAre
  <2>. QED BY <2>1, PlacedIffMember
<1>5. \A a \in DOMAIN gh : \/ a \in DOMAIN g /\ gh[a] = g[a]
                           \/ a - Len(g) \in DOMAIN h /\ gh[a] = h[a - Len(g)] /\ a \in Int
  BY <1>0, Appended
<1>6. Len(g) \in Nat  OBVIOUS
<1>7. CASE i \in DOMAIN g /\ gh[i] = g[i]
  <2>1. <<i, k>> \in Places(g, name) /\ name \in Members(g)  BY <1>7, <1>1k, <1>3
  <2>2. j \in DOMAIN g /\ gh[j] = g[j]  BY <2>1, <1>2l, <1>4, <1>5
  <2>3. <<j, l>> \in Places(g, name)  BY <2>2, <1>2l, <1>3
  <2>. QED BY <2>1, <2>3, <1>1k, <1>2l
<1>8. CASE i - Len(g) \in DOMAIN h /\ gh[i] = h[i - Len(g)] /\ i \in Int
  <2>1. <<i - Len(g), k>> \in Places(h, name) /\ name \in Members(h)  BY <1>8, <1>1k, <1>4
  <2>2. j - Len(g) \in DOMAIN h /\ gh[j] = h[j - Len(g)] /\ j \in Int  BY <2>1, <1>2l, <1>3, <1>5
  <2>3. <<j - Len(g), l>> \in Places(h, name)  BY <2>2, <1>2l, <1>4
  <2>4. <<i - Len(g), k>> = <<j - Len(g), l>>  BY <2>1, <2>3
  <2>5. i = j /\ k = l  BY <2>4, <2>2, <1>8, <1>6
  <2>. QED BY <2>5, <1>1k, <1>2l
<1>. QED BY <1>5, <1>7, <1>8

(* Replacing Self changes the targets only. *)
LEMMA ConcretizedIs ==
  ASSUME Formed, NEW gs \in Seq(GroupSet)
  PROVE  /\ Concretized(gs) \in Seq(GroupSet) /\ DOMAIN Concretized(gs) = DOMAIN gs
         /\ \A i \in DOMAIN gs : Concretized(gs)[i].params = gs[i].params
         /\ \A i \in DOMAIN gs : DOMAIN Concretized(gs)[i].targets = DOMAIN gs[i].targets
         /\ \A i \in DOMAIN gs : \A t \in DOMAIN gs[i].targets :
              /\ DOMAIN Concretized(gs)[i].targets[t] = DOMAIN gs[i].targets[t]
              /\ \A j \in DOMAIN gs[i].targets[t] : Concretized(gs)[i].targets[t][j] = concretize_self(gs[i].targets[t][j])
<1>1. decl.self \in TypeSet  BY DEF Formed, DeclarationSet
<1>2. \A ty \in TypeSet : concretize_self(ty) \in TypeSet  BY <1>1 DEF concretize_self, InSelf, TypeSet
<1> DEFINE new(i) == [t \in DOMAIN gs[i].targets |-> [j \in DOMAIN gs[i].targets[t] |-> concretize_self(gs[i].targets[t][j])]]
<1>3. Concretized(gs) = [i \in DOMAIN gs |-> [gs[i] EXCEPT !.targets = new(i)]]  BY DEF Concretized
<1>4. \A i \in DOMAIN gs : gs[i] \in GroupSet  OBVIOUS
<1>5. ASSUME NEW i \in DOMAIN gs PROVE new(i) \in Seq(Seq(TypeSet))
  <2>1. gs[i].targets \in Seq(Seq(TypeSet))  BY <1>4 DEF GroupSet
  <2>2. ASSUME NEW t \in DOMAIN gs[i].targets
        PROVE [j \in DOMAIN gs[i].targets[t] |-> concretize_self(gs[i].targets[t][j])] \in Seq(TypeSet)
    <3>1. gs[i].targets[t] \in Seq(TypeSet)  BY <2>1
    <3>. QED BY <3>1, <1>2
  <2>3. DOMAIN gs[i].targets = 1..Len(gs[i].targets) /\ Len(gs[i].targets) \in Nat  BY <2>1
  <2>4. new(i) \in [1..Len(gs[i].targets) -> Seq(TypeSet)]  BY <2>2, <2>3
  <2>. HIDE DEF new
  <2>. QED BY <2>3, <2>4, SeqDef
<1>. HIDE DEF new
<1>6. \A i \in DOMAIN gs : Concretized(gs)[i] = [gs[i] EXCEPT !.targets = new(i)]  BY <1>3
<1>7. \A i \in DOMAIN gs : /\ Concretized(gs)[i] \in GroupSet
                           /\ Concretized(gs)[i].params = gs[i].params /\ Concretized(gs)[i].targets = new(i)
  BY <1>4, <1>5, <1>6 DEF GroupSet
<1>8. Concretized(gs) \in Seq(GroupSet) /\ DOMAIN Concretized(gs) = DOMAIN gs
  <2>1. DOMAIN gs = 1..Len(gs) /\ Len(gs) \in Nat  OBVIOUS
  <2>2. DOMAIN Concretized(gs) = DOMAIN gs  BY <1>3
  <2>3. Concretized(gs) \in [1..Len(gs) -> GroupSet]  BY <2>1, <2>2, <1>3, <1>7
  <2>. QED BY <2>1, <2>2, <2>3, SeqDef
<1>9. \A i \in DOMAIN gs : \A t \in DOMAIN gs[i].targets :
        /\ DOMAIN new(i)[t] = DOMAIN gs[i].targets[t]
        /\ \A j \in DOMAIN gs[i].targets[t] : new(i)[t][j] = concretize_self(gs[i].targets[t][j])
  BY DEF new
<1>10. \A i \in DOMAIN gs : DOMAIN new(i) = DOMAIN gs[i].targets  BY DEF new
<1>. QED BY <1>7, <1>8, <1>9, <1>10

(* Replacing Self moves no parameter. *)
LEMMA ConcretizedMembers ==
  ASSUME Formed, NEW gs \in Seq(GroupSet)
  PROVE  /\ Members(Concretized(gs)) = Members(gs)
         /\ \A name : Places(Concretized(gs), name) = Places(gs, name)
BY ConcretizedIs DEF Members, Places

(* The groups of the scopes, Self replaced or not. *)
LEMMA GroupsTyped ==
  ASSUME Formed
  PROVE  /\ Groups(decl.outerUses) \in Seq(GroupSet) /\ Groups(decl.innerUses) \in Seq(GroupSet)
         /\ OuterGroups \in Seq(GroupSet) /\ InnerGroups \in Seq(GroupSet)
<1>1. decl.outerUses \in Seq(Seq(GroupSet)) /\ decl.innerUses \in Seq(Seq(GroupSet))  BY DEF Formed, DeclarationSet
<1>2. Groups(decl.outerUses) \in Seq(GroupSet) /\ Groups(decl.innerUses) \in Seq(GroupSet)  BY <1>1 DEF Groups
<1>. QED BY <1>2, ConcretizedIs DEF OuterGroups, InnerGroups

(* Each scope selects its own parameters, and each of them in one place. *)
LEMMA ScopesSelect ==
  ASSUME Formed, ParsedWell
  PROVE  /\ Members(OuterGroups) \subseteq NamesOf(decl, TRUE) /\ Members(InnerGroups) \subseteq NamesOf(decl, FALSE)
         /\ \A name : \A p, q \in Places(OuterGroups, name) : p = q
         /\ \A name : \A p, q \in Places(InnerGroups, name) : p = q
<1>1. ASSUME NEW uses, NEW outer \in BOOLEAN, Parses(uses, outer), Groups(uses) \in Seq(GroupSet)
      PROVE  /\ Members(Concretized(Groups(uses))) \subseteq NamesOf(decl, outer)
             /\ \A name : \A p, q \in Places(Concretized(Groups(uses)), name) : p = q
  <2>1. parse_dispatch_group(Groups(uses), NamesOf(decl, outer))
    <3>1. {p.name : p \in Scope(outer)} = NamesOf(decl, outer)  BY ParamsTyped
    <3>. QED BY <1>1, <3>1 DEF Parses, parse_dispatch_attr
  <2>2. Members(Groups(uses)) \subseteq NamesOf(decl, outer)  BY <2>1 DEF parse_dispatch_group, Members
  <2>3. \A name : \A p, q \in Places(Groups(uses), name) : p = q
    <3>. SUFFICES ASSUME NEW name, NEW p \in Places(Groups(uses), name), NEW q \in Places(Groups(uses), name) PROVE p = q
      OBVIOUS
    <3>1. name \in Members(Groups(uses))  BY PlacedIffMember
    <3>. QED BY <3>1, <2>1 DEF parse_dispatch_group
  <2>. QED BY <1>1, <2>2, <2>3, ConcretizedMembers
<1>2. Parses(decl.outerUses, TRUE) /\ Parses(decl.innerUses, FALSE)  BY DEF ParsedWell
<1>. QED BY <1>1, <1>2, GroupsTyped DEF OuterGroups, InnerGroups

(* Over both scopes, every parameter that is selected is selected in one *)
(* place.                                                                *)
LEMMA GroupsSelect ==
  ASSUME Formed, ParsedWell, Unshadowed
  PROVE  /\ groups \in Seq(GroupSet)
         /\ Members(groups) = Members(OuterGroups) \cup Members(InnerGroups)
         /\ Members(groups) \subseteq Names
         /\ \A name : Targets(groups, name) = Targets(OuterGroups, name) \cup Targets(InnerGroups, name)
         /\ \A name : \A p, q \in Places(groups, name) : p = q
<1>1. groups = OuterGroups \o InnerGroups  BY DEF ParsedWell
<1>2. OuterGroups \in Seq(GroupSet) /\ InnerGroups \in Seq(GroupSet)  BY GroupsTyped
<1>3. NamesOf(decl, TRUE) \subseteq Names /\ NamesOf(decl, FALSE) \subseteq Names  BY DEF NamesOf, Names, Range
<1>4. ASSUME NEW name PROVE \A p, q \in Places(groups, name) : p = q
  <2>1. ~(name \in Members(OuterGroups) /\ name \in Members(InnerGroups))  BY ScopesSelect DEF Unshadowed
  <2>. QED BY <1>1, <1>2, <2>1, ScopesSelect, PlacedOnceAppended
<1>5. /\ Members(groups) = Members(OuterGroups) \cup Members(InnerGroups)
      /\ \A name : Targets(groups, name) = Targets(OuterGroups, name) \cup Targets(InnerGroups, name)
  BY <1>1, <1>2, MembersAppended
<1>6. groups \in Seq(GroupSet)  BY <1>1, <1>2, Appended
<1>. QED BY <1>3, <1>4, <1>5, <1>6, ScopesSelect

-----------------------------------------------------------------------------
(* What validate_parameter_bindings has accepted. *)
Bound == /\ validate_impl_generic_usage
         /\ validate_callable_parameter_usage(InnerGroups)
         /\ validate_parameter_bounds(FALSE)

(* validate_parameter_bounds, asked twice with opposite answers, lets no *)
(* parameter of an export by that is not selected.                       *)
LEMMA ExportSelects ==
  ASSUME Formed, ParsedWell, Unshadowed, Bound, ExportAccepted
  PROVE  Names \subseteq Members(groups)
<1>1. Members(groups) = Members(OuterGroups) \cup Members(InnerGroups)  BY GroupsSelect
<1>2. ASSUME NEW p \in Scope(TRUE), p.name \notin Members(OuterGroups) PROVE FALSE
  <2> DEFINE used == impl_param_use(p.name).used
             shows == p.dyn \/ impl_param_use(p.name).exposed
  <2>1. ~Open(p, OuterGroups) /\ (~used \/ shows = TRUE) /\ (~used \/ shows = FALSE)
    BY <1>2 DEF Bound, ExportAccepted, validate_parameter_bounds, validate_impl_generic_bounds, contains_param
  <2>2. Open(p, OuterGroups) \/ used  BY DEF Bound, validate_impl_generic_usage
  <2>. HIDE DEF shows, used
  <2>. QED BY <2>1, <2>2
<1>3. ASSUME NEW p \in Scope(FALSE), p.name \notin Members(InnerGroups) PROVE FALSE
  <2> DEFINE dependency == Dependency(InnerGroups, Scope(FALSE), p.name)
             used == SeenIn(Positions, p.name) \/ dependency.valid
             shows == p.dyn \/ dependency.invalid \/ ExposedIn(Positions, p.name)
             stable == runtime_param_has_stable_abi(p.name)
  <2>1. /\ ~Open(p, InnerGroups)
        /\ (p.dyn /\ stable) \/ ~used \/ shows = FALSE
        /\ ~used \/ shows = TRUE
    BY <1>3 DEF Bound, ExportAccepted, validate_parameter_bounds, validate_callable_parameter_bounds, contains_param
  <2>2. Open(p, InnerGroups) \/ used
    BY <1>3 DEF Bound, validate_callable_parameter_usage, contains_param
  <2>3. ~stable
    <3>. SUFFICES ASSUME stable PROVE FALSE  OBVIOUS
    <3>1. PICK a \in Range(decl.args) : a.form = "unpack" \/ a.form = "tag"  BY DEF runtime_param_has_stable_abi
    <3>2. PICK i \in DOMAIN decl.args : decl.args[i] = a  BY DEF Range
    <3>. QED BY <3>1, <3>2 DEF ExportAccepted, Tags
  <2>. HIDE DEF used, shows, stable
  <2>. QED BY <2>1, <2>2, <2>3
<1>4. ASSUME NEW name \in Names PROVE name \in Members(groups)
  <2>1. PICK p \in Range(decl.params) : p.name = name  BY ParamsTyped
  <2>2. p.outer \in BOOLEAN  BY ParamsTyped DEF ParameterSet
  <2>3. p \in Scope(TRUE) \/ p \in Scope(FALSE)  BY <2>2 DEF Scope
  <2>. QED BY <2>1, <2>3, <1>1, <1>2, <1>3
<1>. QED BY <1>4

(* The rule of SelectedOnce, from the passes that see to it. *)
LEMMA SelectedOnceHolds ==
  ASSUME Formed, ParsedWell, Unshadowed, Bound, decl.dir = "export" => ExportAccepted
  PROVE  SelectedOnce
BY GroupsSelect, ExportSelects, PlacedIffMember DEF SelectedOnce

-----------------------------------------------------------------------------
(* A finite set in some order, each element once. *)
LEMMA SetToSeqIs ==
  ASSUME NEW S, IsFiniteSet(S)
  PROVE  /\ Cardinality(S) \in Nat
         /\ SetToSeq(S) \in [1..Cardinality(S) -> S] /\ IsInjective(SetToSeq(S))
         /\ \A x \in S : \E i \in 1..Cardinality(S) : SetToSeq(S)[i] = x
<1> DEFINE n == Cardinality(S)  f == SetToSeq(S)
<1>1. n \in Nat /\ ExistsBijection(1..n, S)  BY FS_CardinalityType
<1>2. PICK g : g \in Bijection(1..n, S)  BY <1>1 DEF ExistsBijection
<1>3. \E h \in [1..n -> S] : IsInjective(h)  BY <1>2 DEF Bijection, Injection
<1>4. f \in [1..n -> S] /\ IsInjective(f)  BY <1>3 DEF SetToSeq
<1>5. f \in Injection(1..n, S)  BY <1>4 DEF Injection
<1>6. Cardinality(1..n) = Cardinality(S)  BY <1>1, FS_Interval
<1>7. f \in Surjection(1..n, S)
  <2>. HIDE DEF f, n
  <2>. QED BY <1>5, <1>6, FS_Injection
<1>. QED BY <1>1, <1>4, <1>7 DEF Surjection

(* There are finitely many names, and Self is none. *)
LEMMA RuntimeNames ==
  ASSUME Formed, NEW outer \in BOOLEAN
  PROVE  /\ Runtime(Scope(outer)) \subseteq Names /\ IsFiniteSet(Runtime(Scope(outer))) /\ IsFiniteSet(Names)
         /\ "Self" \notin Names /\ Names \subseteq STRING
<1> DEFINE named == [i \in DOMAIN decl.params |-> decl.params[i].name]
<1>1. decl.params \in Seq(ParameterSet)  BY ParamsTyped
<1>2. DOMAIN decl.params = 1..Len(decl.params) /\ Len(decl.params) \in Nat  BY <1>1
<1>3. named \in Surjection(DOMAIN decl.params, Names)
  <2>1. \A name \in Names : \E i \in DOMAIN decl.params : named[i] = name  BY DEF Names, Range
  <2>2. named \in [DOMAIN decl.params -> Names]  BY DEF Names, Range
  <2>. QED BY <2>1, <2>2 DEF Surjection
<1>4. IsFiniteSet(DOMAIN decl.params)  BY <1>2, FS_Interval
<1>5. IsFiniteSet(Names)
  <2>. HIDE DEF named
  <2>. QED BY <1>3, <1>4, FS_Surjection
<1>6. Runtime(Scope(outer)) \subseteq Names  BY DEF Runtime, Scope, Names
<1>7. "Self" \notin Names
  <2>. SUFFICES ASSUME NEW p \in Range(decl.params), p.name = "Self" PROVE FALSE  BY DEF Names
  <2>1. p.name \in NamesOf(decl, p.outer) /\ p.outer \in BOOLEAN  BY ParamsTyped DEF ParameterSet
  <2>2. "Self" \notin NamesOf(decl, TRUE) /\ "Self" \notin NamesOf(decl, FALSE)  BY DEF Formed, Resolved
  <2>. QED BY <2>1, <2>2
<1>8. Names \subseteq STRING  BY ParamsTyped, ParamOf DEF ParameterSet
<1>. QED BY <1>5, <1>6, <1>7, <1>8, FS_Subset

(* The arguments with the tags in front; that "Self" is a string is not among *)
(* what the provers know.                                                     *)
InputSet ==
  [form : {"value", "tag", "unpack", "receiver"},
   ty : [layers : Seq({"ref", "wrap", "decl"}), leaf : STRING \cup {"Self"}, path : {"plain", "assoc"}]]

(* What is tagged, and that nothing is tagged twice. *)
TagLeafs(args) == {args[i].ty.leaf : i \in Tags(args)}
TagsApart(args) == \A i, j \in Tags(args) : args[i].ty.leaf = args[j].ty.leaf => i = j

(* The tags of two lists one after the other. *)
LEMMA TagsAppended ==
  ASSUME NEW s \in Seq(InputSet), NEW t \in Seq(InputSet)
  PROVE  /\ s \o t \in Seq(InputSet)
         /\ TagLeafs(s \o t) = TagLeafs(s) \cup TagLeafs(t)
         /\ TagsApart(s) /\ TagsApart(t) /\ TagLeafs(s) \cap TagLeafs(t) = {} => TagsApart(s \o t)
         /\ \A a \in Range(s \o t) : a \in Range(s) \/ a \in Range(t)
<1> DEFINE st == s \o t
<1>1. /\ st \in Seq(InputSet) /\ Len(s) \in Nat
      /\ \A i \in DOMAIN s : i \in DOMAIN st /\ st[i] = s[i]
      /\ \A i \in DOMAIN t : Len(s) + i \in DOMAIN st /\ st[Len(s) + i] = t[i]
      /\ \A i \in DOMAIN st : \/ i \in DOMAIN s /\ st[i] = s[i]
                              \/ i - Len(s) \in DOMAIN t /\ st[i] = t[i - Len(s)] /\ i \in Int
  OBVIOUS
<1>. HIDE DEF st
<1>2. \A i \in Tags(s) : i \in Tags(st) /\ st[i] = s[i]  BY <1>1 DEF Tags
<1>3. \A i \in Tags(t) : Len(s) + i \in Tags(st) /\ st[Len(s) + i] = t[i]  BY <1>1 DEF Tags
<1>4. \A i \in Tags(st) : \/ i \in Tags(s) /\ st[i] = s[i]
                          \/ i - Len(s) \in Tags(t) /\ st[i] = t[i - Len(s)] /\ i \in Int
  BY <1>1 DEF Tags
<1>5. TagLeafs(st) = TagLeafs(s) \cup TagLeafs(t)
  <2>1. TagLeafs(st) \subseteq TagLeafs(s) \cup TagLeafs(t)  BY <1>4 DEF TagLeafs
  <2>2. TagLeafs(s) \subseteq TagLeafs(st)  BY <1>2 DEF TagLeafs
  <2>3. TagLeafs(t) \subseteq TagLeafs(st)
    <3>. SUFFICES ASSUME NEW i \in Tags(t) PROVE t[i].ty.leaf \in TagLeafs(st)  BY DEF TagLeafs
    <3>. QED BY <1>3 DEF TagLeafs
  <2>. QED BY <2>1, <2>2, <2>3
<1>6. ASSUME TagsApart(s), TagsApart(t), TagLeafs(s) \cap TagLeafs(t) = {} PROVE TagsApart(st)
  <2>. SUFFICES ASSUME NEW i \in Tags(st), NEW j \in Tags(st), st[i].ty.leaf = st[j].ty.leaf PROVE i = j  BY DEF TagsApart
  <2>1. \A k \in Tags(s) : s[k].ty.leaf \in TagLeafs(s)  BY DEF TagLeafs
  <2>2. \A k \in Tags(t) : t[k].ty.leaf \in TagLeafs(t)  BY DEF TagLeafs
  <2>3. CASE i \in Tags(s) /\ st[i] = s[i]
    <3>1. j \in Tags(s) /\ st[j] = s[j]  BY <2>1, <2>2, <2>3, <1>4, <1>6
    <3>. QED BY <3>1, <2>3, <1>6 DEF TagsApart
  <2>4. CASE i - Len(s) \in Tags(t) /\ st[i] = t[i - Len(s)] /\ i \in Int
    <3>1. j - Len(s) \in Tags(t) /\ st[j] = t[j - Len(s)] /\ j \in Int  BY <2>1, <2>2, <2>4, <1>4, <1>6
    <3>2. i - Len(s) = j - Len(s)  BY <3>1, <2>4, <1>6 DEF TagsApart
    <3>. QED BY <3>1, <3>2, <2>4, <1>1
  <2>. QED BY <2>3, <2>4, <1>4
<1>7. \A a \in Range(st) : a \in Range(s) \/ a \in Range(t)
  <2>. SUFFICES ASSUME NEW i \in DOMAIN st PROVE st[i] \in Range(s) \/ st[i] \in Range(t)  BY DEF Range
  <2>. QED BY <1>1 DEF Range
<1>. QED BY <1>1, <1>5, <1>6, <1>7 DEF st

(* One pass adds a tag for each runtime parameter that has none, or for Self. *)
LEMMA Synthesized ==
  ASSUME NEW self \in BOOLEAN, NEW names, IsFiniteSet(names), names \subseteq STRING, "Self" \notin names,
         NEW args \in Seq(InputSet)
  PROVE  LET new == synthesize_dispatch_tag_ids(self, names, args)
         IN /\ new \in Seq(InputSet)
            /\ TagLeafs(args) \cup names \subseteq TagLeafs(new)
            /\ TagLeafs(new) \subseteq TagLeafs(args) \cup names \cup {"Self"}
            /\ TagsApart(args) => TagsApart(new)
            /\ \A a \in Range(new) : a.form # "tag" => a \in Range(args)
<1> DEFINE tag(name) == [form |-> "tag", ty |-> [layers |-> <<>>, leaf |-> name, path |-> "plain"]]
           missing == names \ TagLeafs(args)
           order == SetToSeq(missing)
           self_ == IF names = {} /\ self /\ "Self" \notin TagLeafs(args) THEN <<tag("Self")>> ELSE <<>>
           added == [i \in DOMAIN order |-> tag(order[i])]
           n == Cardinality(missing)
<1>1. synthesize_dispatch_tag_ids(self, names, args) = (self_ \o added) \o args
  <2>1. synthesize_dispatch_tag_ids(self, names, args) = self_ \o added \o args
    BY DEF synthesize_dispatch_tag_ids, TagLeafs
  <2>. QED BY <2>1
<1>2. IsFiniteSet(missing) /\ missing \subseteq STRING  BY FS_Subset
<1>3. /\ n \in Nat /\ order \in [1..n -> missing] /\ IsInjective(order)
      /\ \A x \in missing : \E i \in 1..n : order[i] = x
  <2>. HIDE DEF missing
  <2>. QED BY <1>2, SetToSeqIs
<1>4. \A name \in STRING \cup {"Self"} : /\ tag(name) \in InputSet /\ tag(name).form = "tag" /\ tag(name).ty.leaf = name
  BY DEF InputSet
<1>5. /\ self_ \in Seq(InputSet) /\ TagsApart(self_) /\ \A a \in Range(self_) : a.form = "tag"
      /\ TagLeafs(self_) = IF names = {} /\ self /\ "Self" \notin TagLeafs(args) THEN {"Self"} ELSE {}
  <2>1. CASE names = {} /\ self /\ "Self" \notin TagLeafs(args)
    <3>0. tag("Self") \in InputSet /\ tag("Self").form = "tag" /\ tag("Self").ty.leaf = "Self"
      <4>1. "Self" \in STRING \cup {"Self"}  OBVIOUS
      <4>. HIDE DEF tag
      <4>. QED BY <1>4, <4>1
    <3>1. self_ = <<tag("Self")>> /\ tag("Self") \in InputSet /\ tag("Self").form = "tag" /\ tag("Self").ty.leaf = "Self"
      <4>1. self_ = <<tag("Self")>>  BY <2>1
      <4>. QED BY <3>0, <4>1
    <3>. HIDE DEF self_, tag
    <3>2. self_ \in Seq(InputSet) /\ DOMAIN self_ = {1} /\ self_[1] = tag("Self")  BY <3>1
    <3>3. Tags(self_) = {1}  BY <3>1, <3>2 DEF Tags
    <3>. QED BY <2>1, <3>1, <3>2, <3>3 DEF TagsApart, TagLeafs, Range
  <2>2. CASE ~(names = {} /\ self /\ "Self" \notin TagLeafs(args))
    <3>1. self_ = <<>>  BY <2>2
    <3>. HIDE DEF self_
    <3>2. Tags(self_) = {} /\ DOMAIN self_ = {}  BY <3>1 DEF Tags
    <3>. QED BY <2>2, <3>1, <3>2 DEF TagsApart, TagLeafs, Range
  <2>. QED BY <2>1, <2>2
<1>6. /\ added \in Seq(InputSet) /\ TagLeafs(added) = missing /\ TagsApart(added)
      /\ \A a \in Range(added) : a.form = "tag"
  <2>1. DOMAIN added = 1..n /\ \A i \in 1..n : added[i] = tag(order[i]) /\ order[i] \in missing /\ order[i] \in STRING
    BY <1>2, <1>3
  <2>2. \A i \in 1..n : added[i] \in InputSet /\ added[i].form = "tag" /\ added[i].ty.leaf = order[i]
    BY <2>1, <1>4
  <2>. HIDE DEF added, order, missing, n
  <2>3. added \in Seq(InputSet)
    <3>1. \E f : f = added /\ DOMAIN f = 1..n  BY <2>1
    <3>2. added = [i \in 1..n |-> added[i]]  BY <2>1 DEF added
    <3>3. added \in [1..n -> InputSet]  BY <2>2, <3>2
    <3>. QED BY <1>3, <3>3, SeqDef
  <2>4. Tags(added) = 1..n  BY <2>1, <2>2 DEF Tags
  <2>5. TagLeafs(added) = missing
    <3>1. \A i \in 1..n : added[i].ty.leaf \in missing  BY <2>1, <2>2
    <3>2. \A x \in missing : \E i \in 1..n : added[i].ty.leaf = x  BY <1>3, <2>2
    <3>. QED BY <2>4, <3>1, <3>2 DEF TagLeafs
  <2>6. TagsApart(added)
    <3>1. DOMAIN order = 1..n  BY <1>3
    <3>. QED BY <3>1, <1>3, <2>2, <2>4 DEF TagsApart, IsInjective
  <2>7. \A a \in Range(added) : a.form = "tag"  BY <2>1, <2>2 DEF Range
  <2>. QED BY <2>3, <2>5, <2>6, <2>7
<1>. HIDE DEF self_, added
<1>7. TagLeafs(self_) \cap TagLeafs(added) = {}  BY <1>5, <1>6
<1>8. /\ self_ \o added \in Seq(InputSet) /\ TagLeafs(self_ \o added) = TagLeafs(self_) \cup missing
      /\ TagsApart(self_ \o added) /\ \A a \in Range(self_ \o added) : a.form = "tag"
  BY <1>5, <1>6, <1>7, TagsAppended
<1> DEFINE front == self_ \o added
           new == front \o args
<1>9. front \in Seq(InputSet) /\ TagLeafs(front) \cap TagLeafs(args) = {}  BY <1>5, <1>8
<1>10. /\ new \in Seq(InputSet) /\ TagLeafs(new) = TagLeafs(front) \cup TagLeafs(args)
       /\ TagsApart(args) => TagsApart(new)
       /\ \A a \in Range(new) : a \in Range(front) \/ a \in Range(args)
  <2>1. TagsApart(front)  BY <1>8
  <2>. HIDE DEF front
  <2>. QED BY <1>9, <2>1, TagsAppended
<1>11. \A a \in Range(new) : a.form # "tag" => a \in Range(args)  BY <1>8, <1>10
<1>12. /\ TagLeafs(args) \cup names \subseteq TagLeafs(new)
       /\ TagLeafs(new) \subseteq TagLeafs(args) \cup names \cup {"Self"}
  <2>1. TagLeafs(new) = TagLeafs(self_) \cup missing \cup TagLeafs(args)  BY <1>8, <1>10
  <2>2. TagLeafs(self_) \subseteq {"Self"}  BY <1>5
  <2>. QED BY <2>1, <2>2
<1>. QED BY <1>1, <1>10, <1>11, <1>12

(* The runtime parameters of both scopes have a tag each, and nothing else has *)
(* but Self; what is not a tag is as it was declared.                          *)
Tagged ==
  /\ inputs \in Seq(InputSet)
  /\ \A a \in Range(inputs) : a.form # "tag" => a \in Range(decl.args)
  /\ Dispatched(groups, Range(decl.params)) =>
       /\ TagsApart(inputs) /\ Runtime(Range(decl.params)) \subseteq TagLeafs(inputs)
       /\ TagLeafs(inputs) \subseteq Runtime(Range(decl.params)) \cup {"Self"}

(* The runtime parameters are those of the two scopes. *)
LEMMA RuntimeOfBoth ==
  ASSUME Formed
  PROVE  Runtime(Range(decl.params)) = Runtime(Scope(TRUE)) \cup Runtime(Scope(FALSE))
<1>1. \A p \in Range(decl.params) : p.outer \in BOOLEAN  BY ParamsTyped DEF ParameterSet
<1>. QED BY <1>1 DEF Runtime, Scope

(* A declared argument is an input, and a tag is told by its name. *)
LEMMA ArgumentsAreInputs ==
  ASSUME Formed
  PROVE  /\ decl.args \in Seq(InputSet)
         /\ \A i \in Tags(decl.args) : decl.args[i].ty = [layers |-> <<>>, leaf |-> decl.args[i].ty.leaf, path |-> "plain"]
<1>1. decl.args \in Seq(ArgumentSet)  BY DEF Formed, DeclarationSet
<1>2. ArgumentSet \subseteq InputSet
  <2>. SUFFICES ASSUME NEW a \in ArgumentSet PROVE a \in InputSet  OBVIOUS
  <2>1. a = [form |-> a.form, ty |-> [layers |-> a.ty.layers, leaf |-> a.ty.leaf, path |-> a.ty.path]]
    BY DEF ArgumentSet, TypeSet
  <2>2. /\ a.form \in {"value", "tag", "unpack", "receiver"} /\ a.ty.layers \in Seq({"ref", "wrap", "decl"})
        /\ a.ty.leaf \in STRING /\ a.ty.path \in {"plain", "assoc"}
    BY DEF ArgumentSet, TypeSet
  <2>. QED BY <2>1, <2>2 DEF InputSet
<1>3. decl.args \in Seq(InputSet)
  <2>1. DOMAIN decl.args = 1..Len(decl.args) /\ Len(decl.args) \in Nat  BY <1>1
  <2>2. decl.args \in [1..Len(decl.args) -> InputSet]  BY <1>1, <1>2, <2>1
  <2>. QED BY <2>1, <2>2, SeqDef
<1>4. ASSUME NEW i \in Tags(decl.args)
      PROVE decl.args[i].ty = [layers |-> <<>>, leaf |-> decl.args[i].ty.leaf, path |-> "plain"]
  <2>1. decl.args[i] \in Range(decl.args) /\ decl.args[i].form = "tag" /\ decl.args[i] \in ArgumentSet
    BY <1>1 DEF Tags, Range
  <2>2. decl.args[i].ty.layers = <<>> /\ decl.args[i].ty.path = "plain"  BY <2>1 DEF Formed, ArgumentsFormed
  <2>3. decl.args[i].ty \in TypeSet  BY <2>1 DEF ArgumentSet
  <2>. QED BY <2>2, <2>3 DEF TypeSet
<1>. QED BY <1>3, <1>4

(* The pass over a method, whichever of its three calls are made. *)
LEMMA TagsSynthesized ==
  ASSUME Formed, inputs = decl.args,
         IF decl.dir = "export" THEN ExportAccepted ELSE validate_extern_dispatch_sig,
         synthesize_dispatch_tag_ids_in_decls
  PROVE  Tagged'
<1> DEFINE outer == Runtime(Scope(TRUE))
           inner == Runtime(Scope(FALSE))
           forSelf == IF decl.dynSelf THEN synthesize_dispatch_tag_ids(TRUE, outer, inputs) ELSE inputs
           forImpl == IF Dispatched(OuterGroups, Scope(TRUE)) THEN synthesize_dispatch_tag_ids(FALSE, outer, forSelf) ELSE forSelf
           final == IF OwnDispatch THEN synthesize_dispatch_tag_ids(decl.dynSelf, outer \cup inner, forImpl) ELSE forImpl
           Keeps(args, new, names) ==
             /\ new \in Seq(InputSet)
             /\ TagLeafs(args) \subseteq TagLeafs(new)
             /\ TagLeafs(new) \subseteq TagLeafs(args) \cup names \cup {"Self"}
             /\ TagsApart(args) => TagsApart(new)
             /\ \A a \in Range(new) : a.form # "tag" => a \in Range(args)
<1>1. inputs' = final /\ decl' = decl /\ groups' = groups  BY DEF synthesize_dispatch_tag_ids_in_decls
<1>2. decl.dynSelf \in BOOLEAN  BY DEF Formed, DeclarationSet
<1>3. /\ IsFiniteSet(outer) /\ outer \subseteq STRING /\ "Self" \notin outer
      /\ IsFiniteSet(outer \cup inner) /\ outer \cup inner \subseteq STRING /\ "Self" \notin outer \cup inner
  <2>1. \A o \in BOOLEAN : Runtime(Scope(o)) \subseteq Names /\ IsFiniteSet(Runtime(Scope(o)))  BY RuntimeNames
  <2>2. "Self" \notin Names /\ Names \subseteq STRING  BY RuntimeNames
  <2>3. IsFiniteSet(outer \cup inner)  BY <2>1, FS_Union
  <2>. QED BY <2>1, <2>2, <2>3
<1>4. decl.args \in Seq(InputSet)  BY ArgumentsAreInputs
<1>. HIDE DEF outer, inner
<1>5. ASSUME NEW args \in Seq(InputSet), NEW self \in BOOLEAN, NEW names \in {outer, outer \cup inner}
      PROVE  LET new == synthesize_dispatch_tag_ids(self, names, args)
             IN Keeps(args, new, names) /\ names \subseteq TagLeafs(new)
  BY <1>3, Synthesized
<1>6. Keeps(inputs, forSelf, outer)
  <2>1. CASE decl.dynSelf  BY <2>1, <1>4, <1>5
  <2>2. CASE ~decl.dynSelf  BY <2>2, <1>4
  <2>. QED BY <2>1, <2>2
<1>7. Keeps(forSelf, forImpl, outer) /\ (Dispatched(OuterGroups, Scope(TRUE)) => outer \subseteq TagLeafs(forImpl))
  <2>0. forSelf \in Seq(InputSet)  BY <1>6
  <2>. HIDE DEF forSelf
  <2>1. CASE Dispatched(OuterGroups, Scope(TRUE))  BY <2>0, <2>1, <1>5
  <2>2. CASE ~Dispatched(OuterGroups, Scope(TRUE))  BY <2>0, <2>2
  <2>. QED BY <2>1, <2>2
<1>8. Keeps(forImpl, final, outer \cup inner) /\ (OwnDispatch => outer \cup inner \subseteq TagLeafs(final))
  <2>0. forImpl \in Seq(InputSet)  BY <1>7
  <2>. HIDE DEF forImpl
  <2>1. CASE OwnDispatch  BY <2>0, <2>1, <1>2, <1>5
  <2>2. CASE ~OwnDispatch  BY <2>0, <2>2
  <2>. QED BY <2>1, <2>2
<1>. HIDE DEF forSelf, forImpl
<1>9. outer \cup inner \subseteq TagLeafs(final)
  <2>1. CASE OwnDispatch  BY <2>1, <1>8
  <2>2. CASE ~OwnDispatch
    <3>1. inner = {}  BY <2>2 DEF OwnDispatch, inner
    <3>2. outer # {} => Dispatched(OuterGroups, Scope(TRUE))  BY DEF Dispatched, outer
    <3>. QED BY <3>1, <3>2, <1>7, <1>8
  <2>. QED BY <2>1, <2>2
<1>10. Runtime(Range(decl.params)) = outer \cup inner  BY RuntimeOfBoth DEF outer, inner
<1>11. ASSUME Dispatched(groups, Range(decl.params))
       PROVE TagsApart(inputs) /\ TagLeafs(inputs) \subseteq outer \cup inner \cup {"Self"}
  <2>1. CASE decl.dir = "export"
    <3>1. Tags(inputs) = {}  BY <2>1 DEF ExportAccepted
    <3>. QED BY <3>1 DEF TagsApart, TagLeafs
  <2>2. CASE decl.dir # "export"
    <3>1. /\ \A i \in Tags(inputs) : inputs[i].ty.leaf \in outer \cup inner \cup {"Self"}
          /\ \A i, j \in Tags(inputs) : inputs[i].ty = inputs[j].ty => i = j
      BY <1>10, <1>11, <2>2 DEF validate_extern_dispatch_sig
    <3>2. ASSUME NEW i \in Tags(inputs), NEW j \in Tags(inputs), inputs[i].ty.leaf = inputs[j].ty.leaf
          PROVE  inputs[i].ty = inputs[j].ty
      <4>1. /\ inputs[i].ty = [layers |-> <<>>, leaf |-> inputs[i].ty.leaf, path |-> "plain"]
            /\ inputs[j].ty = [layers |-> <<>>, leaf |-> inputs[j].ty.leaf, path |-> "plain"]
        BY ArgumentsAreInputs
      <4>. QED BY <3>2, <4>1
    <3>. QED BY <3>1, <3>2 DEF TagsApart, TagLeafs
  <2>. QED BY <2>1, <2>2
<1>12. /\ final \in Seq(InputSet) /\ TagLeafs(final) \subseteq TagLeafs(inputs) \cup outer \cup inner \cup {"Self"}
       /\ TagsApart(inputs) => TagsApart(final)
       /\ \A a \in Range(final) : a.form # "tag" => a \in Range(inputs)
  BY <1>6, <1>7, <1>8
<1>. HIDE DEF final
<1>13. /\ Runtime(Range(decl'.params)) = outer \cup inner
       /\ Dispatched(groups', Range(decl'.params)) <=> Dispatched(groups, Range(decl.params))
       /\ TagLeafs(inputs') = TagLeafs(final) /\ TagsApart(inputs') <=> TagsApart(final)
  BY <1>1, <1>10
<1>. QED BY <1>1, <1>9, <1>11, <1>12, <1>13 DEF Tagged

(* The rule of OneTagEach, from what the passes added. *)
LEMMA OneTagEachHolds ==
  ASSUME Formed, Unshadowed, Tagged
  PROVE  OneTagEach
<1>. SUFFICES ASSUME Dispatched(groups, Range(decl.params)), NEW name \in Names
              PROVE  TagCount(name) = IF IsRuntime(name) THEN 1 ELSE 0
  BY DEF OneTagEach
<1>1. IsRuntime(name) <=> name \in Runtime(Range(decl.params))
  <2>1. Param(name) \in Range(decl.params) /\ Param(name).name = name  BY ParamOf
  <2>2. \A p \in Range(decl.params) : p.name = name => p = Param(name)  BY ParamIs
  <2>. QED BY <2>1, <2>2 DEF IsRuntime, Runtime
<1>2. name # "Self"  BY RuntimeNames
<1> DEFINE at == {i \in Tags(inputs) : inputs[i].ty.leaf = name}
<1>3. CASE IsRuntime(name)
  <2>1. PICK i \in Tags(inputs) : inputs[i].ty.leaf = name  BY <1>1, <1>3 DEF Tagged, TagLeafs
  <2>2. at = {i}  BY <2>1 DEF Tagged, TagsApart
  <2>. QED BY <1>3, <2>2, FS_Singleton DEF TagCount
<1>4. CASE ~IsRuntime(name)
  <2>1. at = {}  BY <1>1, <1>2, <1>4 DEF Tagged, TagLeafs
  <2>. QED BY <1>4, <2>1, FS_EmptySet DEF TagCount
<1>. QED BY <1>3, <1>4

-----------------------------------------------------------------------------
(* The inductive invariant: what the expansion knows at each of its steps. *)
Ended == {"bind", "substitute", "expanded"}
FromName == {"name"} \cup Ended
FromTags == {"tags"} \cup FromName
FromReport == {"report"} \cup FromTags
FromShape == {"shape", "export", "extern"} \cup FromReport
FromParameters == {"parameters"} \cup FromShape
FromSelf == {"self", "symbols"} \cup FromParameters
FromGenerics == {"generics"} \cup FromSelf

(* What the pass over the symbol has accepted. *)
SymbolChecked == decl.symbol # <<>> =>
  IsInjective(decl.symbol[1]) /\ Range(decl.symbol[1]) = impl_method_symbol_binding_params

(* What the passes over the direction have accepted. *)
Accepted == IF decl.dir = "export" THEN ExportAccepted ELSE validate_extern_dispatch_sig

CheckInv ==
  /\ phase \in {"idle", "parse", "rejected"} \cup FromGenerics
  /\ phase # "idle" => Formed
  /\ phase = "export" => decl.dir = "export"
  /\ phase = "extern" => decl.dir = "extern"
  /\ phase \in FromGenerics => ParsedWell
  /\ phase \in FromSelf => Unshadowed
  /\ phase \in FromParameters => refused \/ SymbolChecked
  /\ phase \in FromShape => refused \/ Bound
  /\ phase \in FromReport => refused \/ Accepted
  /\ phase \in FromTags => ~refused
  /\ phase \notin FromName \cup {"idle"} => inputs = decl.args
  /\ phase \in FromName => Tagged
  /\ phase \in Ended => symbol = impl_method_symbol_binding_params

(* What the predicates say only depends on the declaration and its groups. *)
LEMMA Framed ==
  ASSUME decl' = decl
  PROVE  /\ Formed' <=> Formed
         /\ Unshadowed' <=> Unshadowed
         /\ Bound' <=> Bound
         /\ groups' = groups => /\ ParsedWell' <=> ParsedWell
                                /\ SymbolChecked' <=> SymbolChecked
                                /\ Accepted' <=> Accepted
                                /\ impl_method_symbol_binding_params' = impl_method_symbol_binding_params
                                /\ inputs' = inputs => (Tagged' <=> Tagged)
<1>1. Formed' <=> Formed  BY DEF Formed
<1>2. Unshadowed' <=> Unshadowed  BY DEF Unshadowed
<1>3. Bound' <=> Bound
  BY DEF Bound, validate_impl_generic_usage, validate_callable_parameter_usage, validate_parameter_bounds,
     validate_impl_generic_bounds, validate_callable_parameter_bounds, Scope, Open, impl_param_use, ImplTypes, OuterGroups,
     InnerGroups, Concretized, concretize_self, InSelf, Dependency, Positions, runtime_param_has_stable_abi
<1>4. ASSUME groups' = groups
      PROVE  /\ ParsedWell' <=> ParsedWell
             /\ SymbolChecked' <=> SymbolChecked
             /\ Accepted' <=> Accepted
             /\ impl_method_symbol_binding_params' = impl_method_symbol_binding_params
             /\ inputs' = inputs => (Tagged' <=> Tagged)
  <2>1. ParsedWell' <=> ParsedWell
    BY <1>4 DEF ParsedWell, Parses, parse_dispatch_attr, validate_dispatch_targets, validate_dispatch_cycles, Scope, KindOf,
       Names, Param, dispatch_target_mentions_param, OuterGroups, InnerGroups, Concretized, concretize_self, InSelf
  <2>2. impl_method_symbol_binding_params' = impl_method_symbol_binding_params
    BY <1>4 DEF impl_method_symbol_binding_params, symbol_binding_params, Positions, Payloadless, IsRuntime, Names, Param,
       SymbolExposed, DirectlyErased, Scope
  <2>3. SymbolChecked' <=> SymbolChecked  BY <2>2 DEF SymbolChecked
  <2>4. Accepted' <=> Accepted
    <3>1. ExportAccepted' <=> ExportAccepted
      BY DEF ExportAccepted, validate_parameter_bounds, validate_receiver_position,
         validate_impl_generic_bounds, validate_callable_parameter_bounds, Scope, Open, impl_param_use, ImplTypes, OuterGroups,
         InnerGroups, Concretized, concretize_self, InSelf, Dependency, Positions, runtime_param_has_stable_abi
    <3>2. validate_extern_dispatch_sig' <=> validate_extern_dispatch_sig  BY <1>4 DEF validate_extern_dispatch_sig
    <3>. QED BY <3>1, <3>2 DEF Accepted
  <2>5. inputs' = inputs => (Tagged' <=> Tagged)  BY <1>4 DEF Tagged
  <2>. QED BY <2>1, <2>2, <2>3, <2>4, <2>5
<1>. QED BY <1>1, <1>2, <1>3, <1>4

(* It holds of a declaration that is not parsed yet. *)
LEMMA CheckInvInit == Init => CheckInv
<1>1. CASE DeclIdle  BY <1>1 DEF DeclIdle, CheckInv, FromGenerics, FromSelf, FromParameters, FromShape, FromReport, FromTags, FromName, Ended
<1>2. CASE DeclInit
  <2>1. decl \in DeclarationSet /\ Resolved(decl) /\ ArgumentsFormed(decl)
    BY <1>2, DeclarationAssumption DEF DeclInit
  <2>. QED BY <1>2, <2>1 DEF DeclInit, Formed, CheckInv, FromGenerics, FromSelf, FromParameters, FromShape, FromReport, FromTags, FromName, Ended
<1>. QED BY <1>1, <1>2 DEF Init

(* Every step keeps it: one step of the proof per action. *)
LEMMA CheckInvNext == CheckInv /\ [Next]_vars => CheckInv'
<1>. SUFFICES ASSUME CheckInv, [Next]_vars PROVE CheckInv'  OBVIOUS
<1>. USE DEF FromGenerics, FromSelf, FromParameters, FromShape, FromReport, FromTags, FromName, Ended
<1>1. CASE UNCHANGED declVars
  <2>1. decl' = decl /\ groups' = groups /\ inputs' = inputs /\ phase' = phase /\ refused' = refused /\ symbol' = symbol
    BY <1>1 DEF declVars
  <2>. QED BY <2>1, Framed DEF CheckInv
<1>2. CASE normalize
  <2>1. decl' = decl /\ inputs' = inputs /\ refused' = refused /\ phase = "parse"  BY <1>2 DEF normalize, Refuse
  <2>2. CASE Parses(decl.outerUses, TRUE) /\ Parses(decl.innerUses, FALSE)
    <3>1. phase' = "generics" /\ groups' = OuterGroups \o InnerGroups  BY <1>2, <2>2 DEF normalize
    <3>2. ParsedWell'
      <4>1. (Parses(decl.outerUses, TRUE) /\ Parses(decl.innerUses, FALSE))'
        <5>1. decl' = decl  BY <2>1
        <5>2. (Parses(decl.outerUses, TRUE) /\ Parses(decl.innerUses, FALSE))' <=>
                (Parses(decl.outerUses, TRUE) /\ Parses(decl.innerUses, FALSE))
          BY <5>1 DEF Parses, parse_dispatch_attr, validate_dispatch_targets, validate_dispatch_cycles, Scope, KindOf,
             Names, Param, dispatch_target_mentions_param, concretize_self, InSelf
        <5>. QED BY <5>2, <2>2
      <4>2. OuterGroups' = OuterGroups /\ InnerGroups' = InnerGroups
        BY <2>1 DEF OuterGroups, InnerGroups, Concretized, concretize_self, InSelf
      <4>. QED BY <3>1, <4>1, <4>2 DEF ParsedWell
    <3>. QED BY <2>1, <3>1, <3>2, Framed DEF CheckInv
  <2>3. CASE ~(Parses(decl.outerUses, TRUE) /\ Parses(decl.innerUses, FALSE))
    <3>1. phase' = "rejected"  BY <1>2, <2>3 DEF normalize, Refuse
    <3>. QED BY <2>1, <3>1, Framed DEF CheckInv
  <2>. QED BY <2>2, <2>3
<1>3. CASE validate_method_generic_declarations
  <2>1. decl' = decl /\ groups' = groups /\ inputs' = inputs /\ phase = "generics"
    BY <1>3 DEF validate_method_generic_declarations, Refuse, Continue
  <2>2. phase' = "rejected" \/ (phase' = "self" /\ Unshadowed)
    <3>1. Formed  BY <2>1 DEF CheckInv
    <3>2. \A outer \in BOOLEAN : {p.name : p \in Scope(outer)} = NamesOf(decl, outer)  BY <3>1, ParamsTyped
    <3>3. ~decl.impl => NamesOf(decl, TRUE) = {}  BY <3>1 DEF Formed, Resolved
    <3>. QED BY <1>3, <3>2, <3>3 DEF validate_method_generic_declarations, Refuse, Continue, Unshadowed
  <2>. QED BY <2>1, <2>2, Framed DEF CheckInv
<1>4. CASE validate_packed_dyn_self_decls
  <2>1. decl' = decl /\ groups' = groups /\ inputs' = inputs /\ phase = "self" /\ phase' = "symbols"
    BY <1>4 DEF validate_packed_dyn_self_decls, Continue
  <2>. QED BY <2>1, Framed DEF CheckInv
<1>5. CASE validate_static_symbol_interpolations
  <2>1. decl' = decl /\ groups' = groups /\ inputs' = inputs /\ phase = "symbols" /\ phase' = "parameters"
        /\ (refused' \/ SymbolChecked)
    BY <1>5 DEF validate_static_symbol_interpolations, Continue, SymbolChecked
  <2>. QED BY <2>1, Framed DEF CheckInv
<1>6. CASE validate_parameter_bindings
  <2>1. decl' = decl /\ groups' = groups /\ inputs' = inputs /\ phase = "parameters" /\ phase' = "shape"
        /\ (refused' \/ (~refused /\ Bound))
    BY <1>6 DEF validate_parameter_bindings, Continue, Bound
  <2>. QED BY <2>1, Framed DEF CheckInv
<1>7. CASE validate_shared
  <2>1. decl' = decl /\ groups' = groups /\ inputs' = inputs /\ phase = "shape" /\ phase' = decl.dir /\ (refused => refused')
    BY <1>7 DEF validate_shared, Continue
  <2>2. decl.dir \in {"export", "extern"}  BY <2>1 DEF CheckInv, Formed, DeclarationSet
  <2>. QED BY <2>1, <2>2, Framed DEF CheckInv
<1>8. CASE validate_export_decls
  <2>1. decl' = decl /\ groups' = groups /\ inputs' = inputs /\ phase = "export" /\ phase' = "report"
        /\ (refused' \/ (~refused /\ ExportAccepted))
    BY <1>8 DEF validate_export_decls, Continue
  <2>. QED BY <2>1, Framed DEF CheckInv, Accepted
<1>9. CASE validate_extern_decls
  <2>1. decl' = decl /\ groups' = groups /\ inputs' = inputs /\ phase = "extern" /\ phase' = "report"
        /\ (refused' \/ (~refused /\ validate_extern_dispatch_sig))
    BY <1>9 DEF validate_extern_decls, Continue
  <2>. QED BY <2>1, Framed DEF CheckInv, Accepted
<1>10. CASE validate_items
  <2>1. decl' = decl /\ groups' = groups /\ inputs' = inputs /\ phase = "report"
        /\ (phase' = "rejected" \/ (phase' = "tags" /\ ~refused /\ ~refused'))
    BY <1>10 DEF validate_items, Refuse, Continue
  <2>. QED BY <2>1, Framed DEF CheckInv
<1>11. CASE synthesize_dispatch_tag_ids_in_decls
  <2>1. decl' = decl /\ groups' = groups /\ refused' = refused /\ phase = "tags" /\ phase' = "name"
    BY <1>11 DEF synthesize_dispatch_tag_ids_in_decls
  <2>2. Formed /\ inputs = decl.args /\ Accepted  BY <2>1 DEF CheckInv
  <2>3. Tagged'  BY <1>11, <2>2, TagsSynthesized DEF Accepted
  <2>. QED BY <2>1, <2>3, Framed DEF CheckInv
<1>12. CASE ensure_symbol_names
  <2>1. decl' = decl /\ groups' = groups /\ inputs' = inputs /\ refused' = refused /\ phase = "name" /\ phase' = "bind"
        /\ symbol' = IF decl.symbol # <<>> THEN Range(decl.symbol[1]) ELSE impl_method_symbol_binding_params
    BY <1>12 DEF ensure_symbol_names
  <2>2. SymbolChecked  BY <2>1 DEF CheckInv
  <2>3. symbol' = impl_method_symbol_binding_params  BY <2>1, <2>2 DEF SymbolChecked
  <2>. QED BY <2>1, <2>3, Framed DEF CheckInv
<1>13. CASE static_bindings \/ prepare_dispatch_import \/ visit_type_mut
  <2>1. decl' = decl /\ groups' = groups /\ inputs' = inputs /\ refused' = refused /\ symbol' = symbol
        /\ phase \in {"bind", "substitute"} /\ phase' \in {"substitute", "expanded"}
    BY <1>13 DEF static_bindings, prepare_dispatch_import, visit_type_mut
  <2>. QED BY <2>1, Framed DEF CheckInv
<1>. QED BY <1>1, <1>2, <1>3, <1>4, <1>5, <1>6, <1>7, <1>8, <1>9, <1>10, <1>11, <1>12, <1>13 DEF Next, DeclNext, vars

-----------------------------------------------------------------------------

(* What is settled when the bindings are made. *)
Ready == /\ Formed /\ Unshadowed /\ ParsedWell /\ Bound /\ Accepted /\ Tagged
         /\ symbol = impl_method_symbol_binding_params

(* A parameter is not named like what its types are replaced by. *)
LEMMA ReservedNames ==
  ASSUME Formed
  PROVE  Names \cap ({"Self", "void", "payload"} \cup DeclaredTypes) = {}
<1>1. (NamesOf(decl, TRUE) \cup NamesOf(decl, FALSE)) \cap ({"Self", "void", "payload"} \cup DeclaredTypes) = {}
  BY DEF Formed, Resolved
<1>2. \A name \in Names : name \in NamesOf(decl, TRUE) \cup NamesOf(decl, FALSE)
  <2>1. \A p \in Range(decl.params) : p.outer \in BOOLEAN /\ p.name \in NamesOf(decl, p.outer)  BY ParamsTyped DEF ParameterSet
  <2>2. \A o \in BOOLEAN : o = TRUE \/ o = FALSE  OBVIOUS
  <2>. QED BY <2>1, <2>2, ParamsTyped
<1>. QED BY <1>1, <1>2

(* What is asked of a name is what its parameter says. *)
LEMMA RuntimeOrStatic ==
  ASSUME Formed, Unshadowed, NEW p \in Range(decl.params)
  PROVE  /\ p.name \in Names /\ Param(p.name) = p
         /\ IsRuntime(p.name) <=> p.dyn
         /\ Payloadless(p.name) <=> p.dyn /\ ~p.payload
         /\ p \in Scope(TRUE) \/ p \in Scope(FALSE)
<1>1. p.name \in Names /\ Param(p.name) = p  BY ParamIs, ParamsTyped
<1>2. p.outer \in BOOLEAN  BY ParamsTyped DEF ParameterSet
<1>. QED BY <1>1, <1>2 DEF IsRuntime, Payloadless, Scope

-----------------------------------------------------------------------------
(* The selections: no target is made of the parameter it is selected for. *)
LEMMA CombinationThrough ==
  ASSUME NEW gs \in Seq(GroupSet), \A i \in DOMAIN gs : gs[i].targets # <<>>,
         NEW i \in DOMAIN gs, NEW t \in DOMAIN gs[i].targets
  PROVE  \E c \in Combinations(gs) : c[i] = t
<1> DEFINE c == [k \in DOMAIN gs |-> IF k = i THEN t ELSE 1]
<1>1. ASSUME NEW k \in DOMAIN gs PROVE 1 \in DOMAIN gs[k].targets
  <2>1. gs[k] \in GroupSet  OBVIOUS
  <2>2. gs[k].targets \in Seq(Seq(TypeSet))  BY <2>1 DEF GroupSet
  <2>. QED BY <2>2
<1>2. \A k \in DOMAIN gs : c[k] \in DOMAIN gs[k].targets  BY <1>1
<1>3. c \in [DOMAIN gs -> UNION {DOMAIN gs[k].targets : k \in DOMAIN gs}]  BY <1>2
<1>. HIDE DEF c
<1>4. c \in Combinations(gs)  BY <1>2, <1>3 DEF Combinations
<1>5. c[i] = t  BY DEF c
<1>. QED BY <1>4, <1>5

(* A combination selects for a parameter a target of its group. *)
LEMMA SelectionIs ==
  ASSUME NEW gs \in Seq(GroupSet), NEW c \in Combinations(gs)
  PROVE  /\ DOMAIN Selection(gs, c) = Members(gs)
         /\ \A name \in Members(gs) : \E i \in DOMAIN gs : \E j \in DOMAIN gs[i].params :
              gs[i].params[j] = name /\ c[i] \in DOMAIN gs[i].targets /\ Selection(gs, c)[name] = gs[i].targets[c[i]][j]
<1>1. DOMAIN Selection(gs, c) = Members(gs)  BY DEF Selection
<1>2. ASSUME NEW name \in Members(gs)
      PROVE \E i \in DOMAIN gs : \E j \in DOMAIN gs[i].params :
              gs[i].params[j] = name /\ c[i] \in DOMAIN gs[i].targets /\ Selection(gs, c)[name] = gs[i].targets[c[i]][j]
  <2> DEFINE i == CHOOSE i \in DOMAIN gs : name \in Range(gs[i].params)
             j == CHOOSE j \in DOMAIN gs[i].params : gs[i].params[j] = name
  <2>1. \E k \in DOMAIN gs : name \in Range(gs[k].params)  BY DEF Members
  <2>2. i \in DOMAIN gs /\ name \in Range(gs[i].params)  BY <2>1
  <2>3. Selection(gs, c)[name] = gs[i].targets[c[i]][j]  BY DEF Selection
  <2>. HIDE DEF i
  <2>4. \E k \in DOMAIN gs[i].params : gs[i].params[k] = name  BY <2>2 DEF Range
  <2>5. j \in DOMAIN gs[i].params /\ gs[i].params[j] = name  BY <2>4
  <2>. HIDE DEF j
  <2>6. c[i] \in DOMAIN gs[i].targets  BY <2>2 DEF Combinations
  <2>. QED BY <2>2, <2>3, <2>5, <2>6
<1>. QED BY <1>1, <1>2

(* A target of a parameter, by group, alternative and position. *)
LEMMA TargetIs ==
  ASSUME NEW gs, NEW name, NEW ty
  PROVE  ty \in Targets(gs, name) <=> \E i \in DOMAIN gs : \E t \in DOMAIN gs[i].targets : \E j \in DOMAIN gs[i].params :
           gs[i].params[j] = name /\ ty = gs[i].targets[t][j]
<1> DEFINE at(i) == {t[j] : t \in Range(gs[i].targets), j \in {k \in DOMAIN gs[i].params : gs[i].params[k] = name}}
<1>1. Targets(gs, name) = UNION {at(i) : i \in DOMAIN gs}  BY DEF Targets
<1>2. \A i : ty \in at(i) <=> \E t \in DOMAIN gs[i].targets : \E j \in DOMAIN gs[i].params :
                gs[i].params[j] = name /\ ty = gs[i].targets[t][j]
  BY DEF Range
<1>. HIDE DEF at
<1>3. ty \in UNION {at(i) : i \in DOMAIN gs} <=> \E i \in DOMAIN gs : ty \in at(i)  OBVIOUS
<1>. QED BY <1>1, <1>2, <1>3

(* In one scope: validate_dispatch_cycles, taken at the one parameter, *)
(* excludes it from what it is made of.                                *)
LEMMA TargetsOfScope ==
  ASSUME Formed, NEW uses, NEW outer \in BOOLEAN, Parses(uses, outer), Groups(uses) \in Seq(GroupSet),
         NEW name, NEW ty \in Targets(Concretized(Groups(uses)), name)
  PROVE  ty \in TypeSet /\ ty.leaf # name
<1> DEFINE gs == Groups(uses)
           cs == Concretized(gs)
<1>0. gs \in Seq(GroupSet)  OBVIOUS
<1>1i. PICK i \in DOMAIN cs : \E t \in DOMAIN cs[i].targets : \E j \in DOMAIN cs[i].params :
         cs[i].params[j] = name /\ ty = cs[i].targets[t][j]
  BY TargetIs
<1>1. PICK t \in DOMAIN cs[i].targets, j \in DOMAIN cs[i].params : cs[i].params[j] = name /\ ty = cs[i].targets[t][j]
  BY <1>1i
<1>2. /\ validate_dispatch_targets(gs) /\ validate_dispatch_cycles(gs)
      /\ \A n \in Members(gs) : \A p, q \in Places(gs, n) : p = q
  BY DEF Parses, parse_dispatch_attr, parse_dispatch_group
<1>. HIDE DEF gs
<1>3. /\ i \in DOMAIN gs /\ cs[i].params = gs[i].params /\ t \in DOMAIN gs[i].targets
      /\ DOMAIN cs[i].targets[t] = DOMAIN gs[i].targets[t]
      /\ \A k \in DOMAIN gs[i].targets[t] : cs[i].targets[t][k] = concretize_self(gs[i].targets[t][k])
      /\ cs \in Seq(GroupSet)
  BY <1>0, <1>1, ConcretizedIs
<1>. HIDE DEF cs
<1>4. gs[i] \in GroupSet /\ cs[i] \in GroupSet  BY <1>0, <1>1, <1>3
<1>5. gs[i].params \in Seq(STRING) /\ gs[i].targets \in Seq(Seq(TypeSet)) /\ cs[i].targets \in Seq(Seq(TypeSet))
  BY <1>4 DEF GroupSet
<1>6. gs[i].targets[t] \in Seq(TypeSet) /\ cs[i].targets[t] \in Seq(TypeSet)  BY <1>5, <1>3, <1>1
<1>7. Len(gs[i].targets[t]) = Len(gs[i].params)
  BY <1>2, <1>3 DEF validate_dispatch_targets, Range
<1>8. j \in DOMAIN gs[i].targets[t]  BY <1>1, <1>3, <1>5, <1>6, <1>7
<1>9. ty = concretize_self(gs[i].targets[t][j]) /\ ty \in TypeSet  BY <1>1, <1>3, <1>6, <1>8
<1>10. \A k \in DOMAIN gs : gs[k].targets # <<>>  BY <1>2 DEF validate_dispatch_targets
<1>11. PICK c \in Combinations(gs) : c[i] = t  BY <1>0, <1>3, <1>10, CombinationThrough
<1> DEFINE sel == Selection(gs, c)
<1>12. name \in Members(gs) /\ <<i, j>> \in Places(gs, name)
  <2>1. j \in DOMAIN gs[i].params /\ gs[i].params[j] = name  BY <1>1, <1>3
  <2>2. <<i, j>> \in Places(gs, name)  BY <2>1, <1>3, PlacesAre
  <2>. QED BY <2>2, PlacedIffMember
<1>13. sel[name] = gs[i].targets[t][j]
  <2>0. PICK k \in DOMAIN gs : \E l \in DOMAIN gs[k].params : gs[k].params[l] = name /\ sel[name] = gs[k].targets[c[k]][l]
    BY <1>0, <1>12, SelectionIs
  <2>1. PICK l \in DOMAIN gs[k].params : gs[k].params[l] = name /\ sel[name] = gs[k].targets[c[k]][l]
    BY <2>0
  <2>2. <<k, l>> \in Places(gs, name)  BY <2>1, PlacesAre
  <2>3. <<k, l>> = <<i, j>>  BY <2>2, <1>2, <1>12
  <2>4. k = i /\ l = j  BY <2>3
  <2>. QED BY <2>1, <2>4, <1>11
<1>14. ~dispatch_target_mentions_param(sel[name], name)
  <2>1. DOMAIN sel = Members(gs)  BY <1>0, SelectionIs
  <2>. HIDE DEF sel
  <2>2. {name} \in (SUBSET DOMAIN sel) \ {{}}
    <3>1. name \in DOMAIN sel  BY <2>1, <1>12
    <3>2. {name} \subseteq DOMAIN sel /\ {name} # {}  BY <3>1
    <3>. QED BY <3>2
  <2>3. \A S \in SUBSET DOMAIN sel \ {{}} : \E n \in S : \A other \in S : ~dispatch_target_mentions_param(sel[n], other)
    BY <1>2 DEF validate_dispatch_cycles, sel
  <2>. QED BY <2>2, <2>3
<1>. QED BY <1>9, <1>13, <1>14 DEF dispatch_target_mentions_param, Mentions

(* And so over both, with Self replaced. *)
LEMMA TargetsAre ==
  ASSUME Formed, Unshadowed, ParsedWell, NEW name, NEW ty \in Targets(groups, name)
  PROVE  ty \in TypeSet /\ ty.leaf # name
<1>1. Parses(decl.outerUses, TRUE) /\ Parses(decl.innerUses, FALSE)  BY DEF ParsedWell
<1>2. ty \in Targets(OuterGroups, name) \/ ty \in Targets(InnerGroups, name)  BY GroupsSelect
<1>3. CASE ty \in Targets(OuterGroups, name)
  BY <1>1, <1>3, GroupsTyped, TargetsOfScope DEF OuterGroups
<1>4. CASE ty \in Targets(InnerGroups, name)
  BY <1>1, <1>4, GroupsTyped, TargetsOfScope DEF InnerGroups
<1>. QED BY <1>2, <1>3, <1>4

(* A selection gives every selected parameter one of its targets. *)
LEMMA SelectionsAre ==
  ASSUME Formed, Unshadowed, ParsedWell, NEW s \in Selections
  PROVE  DOMAIN s = Members(groups) /\ \A name \in Members(groups) : s[name] \in Targets(groups, name)
<1>1. groups \in Seq(GroupSet)  BY GroupsSelect
<1>2. PICK c \in Combinations(groups) : s = Selection(groups, c)  BY DEF Selections
<1>. QED BY <1>1, <1>2, SelectionIs, TargetIs

-----------------------------------------------------------------------------
(* The types of a binding on the way. *)
AnyType == [layers : Seq({"ref", "wrap", "decl"}), leaf : STRING \cup {"Self", "void", "payload"},
            path : {"plain", "assoc", "selected"}]

(* A type as written is one a binding may have. *)
LEMMA TypesAreTypes == TypeSet \subseteq AnyType
<1>. SUFFICES ASSUME NEW ty \in TypeSet PROVE ty \in AnyType  OBVIOUS
<1>1. ty = [layers |-> ty.layers, leaf |-> ty.leaf, path |-> ty.path]  BY DEF TypeSet
<1>2. ty.layers \in Seq({"ref", "wrap", "decl"}) /\ ty.leaf \in STRING /\ ty.path \in {"plain", "assoc"}  BY DEF TypeSet
<1>. QED BY <1>1, <1>2 DEF AnyType

(* Layers around layers. *)
LEMMA Layered ==
  ASSUME NEW S, NEW s \in Seq(S), NEW t \in Seq(S)
  PROVE  s \o t \in Seq(S) /\ Range(s \o t) = Range(s) \cup Range(t)
<1> DEFINE st == s \o t
<1>1. /\ st \in Seq(S) /\ Len(s) \in Nat
      /\ \A i \in DOMAIN s : i \in DOMAIN st /\ st[i] = s[i]
      /\ \A i \in DOMAIN t : Len(s) + i \in DOMAIN st /\ st[Len(s) + i] = t[i]
      /\ \A i \in DOMAIN st : \/ i \in DOMAIN s /\ st[i] = s[i]
                              \/ i - Len(s) \in DOMAIN t /\ st[i] = t[i - Len(s)] /\ i \in Int
  OBVIOUS
<1>. HIDE DEF st
<1>2. Range(st) \subseteq Range(s) \cup Range(t)
  <2>. SUFFICES ASSUME NEW i \in DOMAIN st PROVE st[i] \in Range(s) \cup Range(t)  BY DEF Range
  <2>. QED BY <1>1 DEF Range
<1>3. Range(s) \subseteq Range(st)
  <2>. SUFFICES ASSUME NEW i \in DOMAIN s PROVE s[i] \in Range(st)  BY DEF Range
  <2>. QED BY <1>1 DEF Range
<1>4. Range(t) \subseteq Range(st)
  <2>. SUFFICES ASSUME NEW i \in DOMAIN t PROVE t[i] \in Range(st)  BY DEF Range
  <2>. QED BY <1>1 DEF Range
<1>. QED BY <1>1, <1>2, <1>3, <1>4 DEF st

(* The value of a signature is written at a position the validators look at, *)
(* is Self of the impl behind references, or is no parameter.                *)
Written(v) == \/ v \in Positions \/ v.leaf \notin Names
              \/ /\ decl.impl /\ v.leaf = decl.self.leaf /\ v.path = decl.self.path
                 /\ Hidden(v) <=> Hidden(decl.self)
                 /\ Wrapped(v) <=> Wrapped(decl.self)

(* Every value of the signature is one that is written. *)
LEMMA ValuesWritten ==
  ASSUME Formed, Tagged, NEW i \in DOMAIN SignatureValues
  PROVE  /\ SignatureValues[i] \in AnyType /\ SignatureValues[i].path \in {"plain", "assoc"}
         /\ Written(SignatureValues[i])
<1> DEFINE value(a) == IF a.form # "receiver" THEN a.ty
                       ELSE IF decl.dynSelf THEN Void(Len(a.ty.layers), a.ty) ELSE concretize_self(a.ty)
           v == SignatureValues[i]
<1>1. /\ v = IF i = 0 THEN decl.out[1] ELSE value(inputs[i])
      /\ (i \in DOMAIN inputs /\ inputs[i].form \in {"value", "receiver"}) \/ (i = 0 /\ decl.out # <<>>)
  <2> DEFINE at == {k \in DOMAIN inputs : inputs[k].form \in {"value", "receiver"}}
             back == IF decl.out = <<>> THEN {} ELSE {0}
  <2>1. SignatureValues = [k \in at \cup back |-> IF k = 0 THEN decl.out[1] ELSE value(inputs[k])]
    BY DEF SignatureValues
  <2>. HIDE DEF value, at, back
  <2>2. i \in at \cup back /\ v = IF i = 0 THEN decl.out[1] ELSE value(inputs[i])  BY <2>1
  <2>3. i \in back => i = 0 /\ decl.out # <<>>  BY DEF back
  <2>. QED BY <2>2, <2>3 DEF at
<1>. HIDE DEF v
<1>2. decl.out \in Seq(TypeSet) /\ decl.args \in Seq(ArgumentSet) /\ decl.self \in TypeSet  BY DEF Formed, DeclarationSet
<1>3. CASE i = 0
  <2>0. inputs \in Seq(InputSet)  BY DEF Tagged
  <2>1. 0 \notin DOMAIN inputs  BY <2>0
  <2>2. decl.out # <<>>  BY <1>1, <1>3, <2>1
  <2>3. decl.out[1] \in TypeSet /\ decl.out[1] \in Range(decl.out)  BY <1>2, <2>2 DEF Range
  <2>4. v \in TypeSet /\ v \in Positions  BY <1>1, <1>3, <2>3 DEF Positions
  <2>. QED BY <2>4, TypesAreTypes DEF TypeSet, Written, v
<1>4. CASE i # 0
  <2>1. i \in DOMAIN inputs /\ inputs[i].form \in {"value", "receiver"}  BY <1>1, <1>4
  <2> DEFINE a == inputs[i]
  <2>2. a \in Range(decl.args)  BY <2>1 DEF Tagged, Range
  <2>3. v = value(a) /\ a.form \in {"value", "receiver"}  BY <1>1, <1>4, <2>1
  <2>. HIDE DEF a
  <2>4. a \in ArgumentSet  BY <1>2, <2>2 DEF Range
  <2>5. a.ty \in TypeSet  BY <2>4 DEF ArgumentSet
  <2>6. CASE a.form = "value"
    <3>1. v = a.ty  BY <2>3, <2>6
    <3>2. a.ty \in Positions  BY <2>2, <2>6 DEF Positions
    <3>. QED BY <3>1, <3>2, <2>5, TypesAreTypes DEF TypeSet, Written, v
  <2>7. CASE a.form = "receiver"
    <3>1. a.ty.leaf = "Self" /\ a.ty.path = "plain" /\ Range(a.ty.layers) \subseteq {"ref"}
      BY <2>2, <2>7 DEF Formed, ArgumentsFormed
    <3>2. a.ty.layers \in Seq({"ref", "wrap", "decl"})  BY <2>5 DEF TypeSet
    <3>3. CASE decl.dynSelf
      <4>1. v = [layers |-> SubSeq(a.ty.layers, 1, Len(a.ty.layers)), leaf |-> "void", path |-> "plain"]
        BY <2>3, <2>7, <3>3 DEF Void
      <4>2. SubSeq(a.ty.layers, 1, Len(a.ty.layers)) \in Seq({"ref", "wrap", "decl"})  BY <3>2
      <4>3. v \in AnyType /\ v.path = "plain" /\ v.leaf = "void"  BY <4>1, <4>2 DEF AnyType
      <4>. QED BY <4>3, ReservedNames DEF Written, v
    <3>4. CASE ~decl.dynSelf /\ decl.impl
      <4>1. v = InSelf(a.ty)  BY <2>3, <2>7, <3>1, <3>4 DEF concretize_self
      <4>2. decl.self.layers \in Seq({"ref", "wrap", "decl"})  BY <1>2 DEF TypeSet
      <4>3. /\ v = [layers |-> a.ty.layers \o decl.self.layers, leaf |-> decl.self.leaf, path |-> decl.self.path]
            /\ a.ty.layers \o decl.self.layers \in Seq({"ref", "wrap", "decl"})
            /\ Range(a.ty.layers \o decl.self.layers) = Range(a.ty.layers) \cup Range(decl.self.layers)
        BY <4>1, <4>2, <3>2, Layered DEF InSelf
      <4>4. v \in TypeSet  BY <4>3, <1>2 DEF TypeSet
      <4>5. /\ v.layers = a.ty.layers \o decl.self.layers /\ v.leaf = decl.self.leaf /\ v.path = decl.self.path
        BY <4>3
      <4>6. Hidden(v) <=> Hidden(decl.self)  BY <4>5, <4>3, <3>1 DEF Hidden
      <4>7. Wrapped(v) <=> Wrapped(decl.self)  BY <4>5, <4>3, <3>1 DEF Wrapped
      <4>. QED BY <4>4, <4>5, <4>6, <4>7, <3>4, TypesAreTypes DEF TypeSet, Written, v
    <3>5. CASE ~decl.dynSelf /\ ~decl.impl
      <4>1. v = a.ty  BY <2>3, <2>7, <3>5 DEF concretize_self
      <4>. QED BY <4>1, <3>1, <2>5, ReservedNames, TypesAreTypes DEF TypeSet, Written, v
    <3>. QED BY <3>3, <3>4, <3>5
  <2>. QED BY <2>3, <2>6, <2>7
<1>. QED BY <1>3, <1>4

(* Erasing leaves what is no runtime parameter, and a runtime parameter only *)
(* where rustc would refuse it.                                              *)
LEMMA EraseIs ==
  ASSUME Formed, NEW ty \in AnyType
  PROVE  /\ erase(ty) \in AnyType
         /\ ~IsRuntime(ty.leaf) => erase(ty) = ty
         /\ \/ erase(ty) = ty /\ (IsRuntime(ty.leaf) => ty.path # "plain" \/ (Payloadless(ty.leaf) /\ ErasedAt(ty) = {}))
            \/ erase(ty).leaf \in {"void", "payload"} /\ erase(ty).path = "plain"
<1>0. /\ ty = [layers |-> ty.layers, leaf |-> ty.leaf, path |-> ty.path] /\ ty.layers \in Seq({"ref", "wrap", "decl"})
      /\ ty.path \in {"plain", "assoc", "selected"} /\ ty.leaf \in STRING \cup {"Self", "void", "payload"}
  BY DEF AnyType
<1>1. ASSUME NEW n \in {0} \cup DOMAIN ty.layers
      PROVE Void(n, ty) \in AnyType /\ Void(n, ty).leaf = "void" /\ Void(n, ty).path = "plain"
  <2>1. SubSeq(ty.layers, 1, n) \in Seq({"ref", "wrap", "decl"})  BY <1>0
  <2>. QED BY <2>1 DEF Void, AnyType
<1>2. CASE ~IsRuntime(ty.leaf)  BY <1>2 DEF erase
<1>3. CASE IsRuntime(ty.leaf) /\ ~Payloadless(ty.leaf)
  <2>1. CASE ty.path = "plain"
    <3>1. erase(ty) = [layers |-> ty.layers, leaf |-> "payload", path |-> ty.path]  BY <1>0, <1>3, <2>1 DEF erase
    <3>. QED BY <1>0, <1>3, <2>1, <3>1 DEF AnyType
  <2>2. CASE ty.path # "plain"  BY <1>3, <2>2 DEF erase
  <2>. QED BY <2>1, <2>2
<1>4. CASE IsRuntime(ty.leaf) /\ Payloadless(ty.leaf) /\ ErasedAt(ty) # {}
  <2> DEFINE n == CHOOSE i \in ErasedAt(ty) : \A j \in ErasedAt(ty) : i <= j
  <2>1. erase(ty) = Void(n, ty)  BY <1>4 DEF erase
  <2>2. n \in DOMAIN ty.layers
    <3>1. ErasedAt(ty) \subseteq DOMAIN ty.layers  BY DEF ErasedAt
    <3>2. ErasedAt(ty) \subseteq Nat  BY <1>0, <3>1
    <3>3. \E i \in ErasedAt(ty) : \A j \in ErasedAt(ty) : i <= j
      <4>. QED BY <1>4, <3>2, Least
    <3>. QED BY <3>1, <3>3
  <2>. HIDE DEF n
  <2>. QED BY <1>1, <1>4, <2>1, <2>2
<1>5. CASE IsRuntime(ty.leaf) /\ Payloadless(ty.leaf) /\ ErasedAt(ty) = {}
  <2>1. CASE ty.layers = <<>> /\ ty.path = "plain"
    <3>1. erase(ty) = Void(0, ty)  BY <1>5, <2>1 DEF erase
    <3>. QED BY <1>1, <1>5, <3>1
  <2>2. CASE ~(ty.layers = <<>> /\ ty.path = "plain")  BY <1>5, <2>2 DEF erase
  <2>. QED BY <2>1, <2>2
<1>. QED BY <1>2, <1>3, <1>4, <1>5

-----------------------------------------------------------------------------
(* What the bindings of a declaration start from, and the parameters that are *)
(* replaced in them.                                                          *)
Start == IF decl.dir = "export" THEN SignatureValues ELSE Erased(SignatureValues)

(* The static parameters an export is defined for every selection of. *)
Static == symbol_binding_params(TRUE, Lifted)

(* The parameters that are replaced in a binding, and by what. *)
Replaced == IF decl.dir = "export" THEN Static ELSE IF ForEverySelection THEN Members(groups) ELSE {}

IsSub(sub) == DOMAIN sub = Replaced /\ \A name \in Replaced : sub[name] \in Targets(groups, name)

(* The parameters that name bindings apart are selected and static. *)
LEMMA StaticAre ==
  ASSUME Formed, Unshadowed, ParsedWell, NEW direct \in BOOLEAN, NEW outer
  PROVE  \A name \in symbol_binding_params(direct, outer) :
           name \in Members(groups) /\ name \in Names /\ ~IsRuntime(name)
<1>. SUFFICES ASSUME NEW name \in symbol_binding_params(direct, outer)
              PROVE  name \in Members(groups) /\ name \in Names /\ ~IsRuntime(name)
  OBVIOUS
<1>1. PICK q \in Range(decl.params) : name = q.name /\ ~q.dyn /\ contains_param(groups, q.name)
  BY DEF symbol_binding_params
<1>. QED BY <1>1, RuntimeOrStatic DEF contains_param

(* What is replaced was selected; in an export it is static. *)
LEMMA ReplacedAre ==
  ASSUME Formed, Unshadowed, ParsedWell
  PROVE  /\ Replaced \subseteq Members(groups) /\ Replaced \subseteq Names
         /\ decl.dir = "export" => \A name \in Replaced : ~IsRuntime(name)
<1>1. Static \subseteq Members(groups) /\ Static \subseteq Names /\ \A name \in Static : ~IsRuntime(name)
  BY StaticAre DEF Static
<1>2. Members(groups) \subseteq Names  BY GroupsSelect
<1>. QED BY <1>1, <1>2 DEF Replaced

(* Where a selected static parameter may be, that no binding tells apart. *)
LEMMA NotStatic ==
  ASSUME Formed, Unshadowed, NEW direct \in BOOLEAN, NEW outer, NEW name \in Names \cap Members(groups),
         ~IsRuntime(name), name \notin symbol_binding_params(direct, outer)
  PROVE  /\ Param(name).kind # "const"
         /\ \A ty \in Positions : ~SymbolExposed(ty, name)
         /\ decl.impl => ~SymbolExposed(decl.self, name)
         /\ \A o \in Members(groups) : ~Payloadless(o) => \A ty \in Targets(groups, o) : ~SymbolExposed(ty, name)
         /\ direct => ~DirectlyErased(name)
<1> DEFINE types == Positions \cup (IF decl.impl THEN {decl.self} ELSE {})
           owned(open) == UNION {Targets(groups, o) : o \in {n \in Members(groups) : Payloadless(n) = open}}
           exposed(n) == \E ty \in types \cup owned(FALSE) : SymbolExposed(ty, n)
           seen(n) == \E ty \in types \cup owned(FALSE) \cup owned(TRUE) : Mentions(ty, n)
<1>1. symbol_binding_params(direct, outer) = {p.name : p \in {q \in Range(decl.params) :
        /\ ~q.dyn /\ contains_param(groups, q.name)
        /\ \/ q.kind = "const" \/ exposed(q.name)
           \/ direct /\ DirectlyErased(q.name)
           \/ q \notin outer /\ ~seen(q.name)}}
  BY DEF symbol_binding_params
<1>. HIDE DEF exposed, seen
<1>2. PICK q \in Range(decl.params) : q.name = name  BY ParamsTyped
<1>3. Param(name) = q /\ ~q.dyn  BY <1>2, RuntimeOrStatic
<1>4. ~(q.kind = "const" \/ exposed(name) \/ (direct /\ DirectlyErased(name)))
  <2>1. contains_param(groups, q.name)  BY <1>2 DEF contains_param
  <2>. QED BY <1>1, <1>2, <1>3, <2>1
<1>5. \A ty \in types \cup owned(FALSE) : ~SymbolExposed(ty, name)  BY <1>4 DEF exposed
<1>6. \A ty \in Positions : ~SymbolExposed(ty, name)  BY <1>5
<1>7. decl.impl => ~SymbolExposed(decl.self, name)  BY <1>5
<1>8. ASSUME NEW o \in Members(groups), ~Payloadless(o), NEW ty \in Targets(groups, o) PROVE ~SymbolExposed(ty, name)
  <2>1. Payloadless(o) = FALSE  BY <1>8 DEF Payloadless, IsRuntime
  <2>2. ty \in owned(FALSE)  BY <1>8, <2>1
  <2>. QED BY <2>2, <1>5
<1>. QED BY <1>3, <1>4, <1>6, <1>7, <1>8

(* As it is with the values of the signature. *)
LEMMA ValueNotStatic ==
  ASSUME Formed, Unshadowed, NEW direct \in BOOLEAN, NEW outer, NEW v, Written(v), NEW name \in Names \cap Members(groups),
         v.leaf = name, ~IsRuntime(name), name \notin symbol_binding_params(direct, outer)
  PROVE  ~SymbolExposed(v, name)
<1>1. CASE v \in Positions  BY <1>1, NotStatic
<1>2. CASE decl.impl /\ v.leaf = decl.self.leaf /\ v.path = decl.self.path
           /\ (Hidden(v) <=> Hidden(decl.self)) /\ (Wrapped(v) <=> Wrapped(decl.self))
  <2>1. ~SymbolExposed(decl.self, name)  BY <1>2, NotStatic
  <2>. QED BY <1>2, <2>1 DEF SymbolExposed, Mentions
<1>. QED BY <1>1, <1>2 DEF Written

(* One substitution: the target takes the place of the leaf, within the *)
(* layers there are.                                                    *)
LEMMA SubstitutedIs ==
  ASSUME Formed, Unshadowed, ParsedWell, NEW ty \in AnyType, NEW sub, IsSub(sub)
  PROVE  /\ substituted(ty, sub) \in AnyType
         /\ ty.path = "selected" \/ ty.leaf \notin Replaced => substituted(ty, sub) = ty
         /\ ty.path # "selected" /\ ty.leaf \in Replaced =>
              LET t == sub[ty.leaf]
                  new == substituted(ty, sub)
              IN /\ t \in Targets(groups, ty.leaf) /\ t \in TypeSet /\ t.leaf # ty.leaf
                 /\ new.leaf = t.leaf /\ new.layers = ty.layers \o t.layers
                 /\ new.path = IF ty.path = "assoc" \/ Param(ty.leaf).kind = "const" THEN "selected" ELSE t.path
                 /\ Hidden(new) <=> Hidden(ty) \/ Hidden(t)
                 /\ Wrapped(new) <=> Wrapped(ty) \/ Wrapped(t)
<1>1. CASE ty.path = "selected" \/ ty.leaf \notin Replaced  BY <1>1 DEF substituted, IsSub
<1>2. CASE ty.path # "selected" /\ ty.leaf \in Replaced
  <2> DEFINE t == sub[ty.leaf]
             new == substituted(ty, sub)
             path == IF ty.path = "assoc" \/ Param(ty.leaf).kind = "const" THEN "selected" ELSE t.path
  <2>1. t \in Targets(groups, ty.leaf)  BY <1>2 DEF IsSub
  <2>2. t \in TypeSet /\ t.leaf # ty.leaf  BY <2>1, TargetsAre
  <2>3. new = [layers |-> ty.layers \o t.layers, leaf |-> t.leaf, path |-> path]  BY <1>2 DEF substituted, IsSub
  <2>4. t.layers \in Seq({"ref", "wrap", "decl"}) /\ t.leaf \in STRING /\ t.path \in {"plain", "assoc"}  BY <2>2 DEF TypeSet
  <2>5. ty.layers \in Seq({"ref", "wrap", "decl"})  BY DEF AnyType
  <2>6. ty.layers \o t.layers \in Seq({"ref", "wrap", "decl"}) /\ Range(ty.layers \o t.layers) = Range(ty.layers) \cup Range(t.layers)
    BY <2>4, <2>5, Layered
  <2>7. path \in {"plain", "assoc", "selected"}  BY <2>4
  <2>. HIDE DEF path, t, new
  <2>8. new \in AnyType  BY <2>3, <2>4, <2>6, <2>7 DEF AnyType
  <2>9. new.leaf = t.leaf /\ new.layers = ty.layers \o t.layers /\ new.path = path  BY <2>3
  <2>10. Hidden(new) <=> Hidden(ty) \/ Hidden(t)  BY <2>6, <2>9 DEF Hidden
  <2>11. Wrapped(new) <=> Wrapped(ty) \/ Wrapped(t)  BY <2>6, <2>9 DEF Wrapped
  <2>. QED BY <1>2, <2>1, <2>2, <2>8, <2>9, <2>10, <2>11 DEF path, t, new
<1>. QED BY <1>1, <1>2

-----------------------------------------------------------------------------
(* The parameters that may show on the way: in an export the static ones, that *)
(* are all replaced; in an import what the signature began with, and what a    *)
(* selection is made of.                                                       *)
Followed(ty) ==
  IF decl.dir = "export"
  THEN Hidden(ty) \/ ty.path = "selected" \/ ty.leaf \notin Names \/ IsRuntime(ty.leaf) \/ ty.leaf \in Static
  ELSE ty \in Range(Start) \/ ty.leaf \notin Names \/ (SelectedFrom(ty.leaf) /\ ForEverySelection)

(* What the substitution starts from. *)
LEMMA StartTyped ==
  ASSUME Formed, Tagged, NEW i \in DOMAIN Start
  PROVE  /\ i \in DOMAIN SignatureValues /\ Start[i] \in AnyType /\ Start[i].path \in {"plain", "assoc"}
         /\ Start[i] = IF decl.dir = "export" THEN SignatureValues[i] ELSE erase(SignatureValues[i])
<1>1. CASE decl.dir = "export"  BY <1>1, ValuesWritten DEF Start
<1>2. CASE decl.dir # "export"
  <2>1. i \in DOMAIN SignatureValues /\ Start[i] = erase(SignatureValues[i])  BY <1>2 DEF Start, Erased
  <2>2. SignatureValues[i] \in AnyType /\ SignatureValues[i].path \in {"plain", "assoc"}  BY <2>1, ValuesWritten
  <2>. QED BY <1>2, <2>1, <2>2, EraseIs
<1>. QED BY <1>1, <1>2

(* A static parameter in the open is one that an export is defined for every *)
(* selection of.                                                             *)
LEMMA ExportShowsStatic ==
  ASSUME Ready, decl.dir = "export", NEW ty, ty.leaf \in Names, ~IsRuntime(ty.leaf), ~Hidden(ty),
         ~SymbolExposed(ty, ty.leaf) \/ ty.leaf \in Static
  PROVE  ty.leaf \in Static
<1>. SUFFICES ASSUME ty.leaf \notin Static PROVE FALSE  OBVIOUS
<1>1. ty.leaf \in Members(groups)  BY ExportSelects DEF Ready, Accepted
<1>2. ~DirectlyErased(ty.leaf)  BY <1>1, NotStatic DEF Static, Ready
<1>. QED BY <1>2 DEF SymbolExposed, Mentions

(* It holds of the signature. *)
LEMMA FollowedStart ==
  ASSUME Ready, NEW i \in DOMAIN Start
  PROVE  Followed(Start[i])
<1>1. CASE decl.dir = "export"
  <2> DEFINE v == SignatureValues[i]
  <2>1. Start[i] = v /\ Written(v)  BY <1>1, StartTyped, ValuesWritten DEF Ready
  <2>. HIDE DEF v
  <2>2. ASSUME v.leaf \in Names, ~IsRuntime(v.leaf), ~Hidden(v) PROVE v.leaf \in Static
    <3>1. v.leaf \in Members(groups)  BY <1>1, <2>2, ExportSelects DEF Ready, Accepted
    <3>2. v.leaf \notin Static => ~SymbolExposed(v, v.leaf)
      BY <2>1, <2>2, <3>1, ValueNotStatic DEF Static, Ready
    <3>. QED BY <1>1, <2>2, <3>2, ExportShowsStatic
  <2>. QED BY <1>1, <2>1, <2>2 DEF Followed
<1>2. CASE decl.dir # "export"  BY <1>2 DEF Followed, Range
<1>. QED BY <1>1, <1>2

(* Substituting a selection keeps it. *)
LEMMA FollowedStep ==
  ASSUME Ready, NEW sub, IsSub(sub), NEW ty \in AnyType, Followed(ty)
  PROVE  Followed(substituted(ty, sub))
<1> DEFINE new == substituted(ty, sub)
           t == sub[ty.leaf]
<1>1. CASE ty.path = "selected" \/ ty.leaf \notin Replaced
  <2>1. new = ty  BY <1>1, SubstitutedIs DEF Ready
  <2>. QED BY <2>1
<1>2. CASE ty.path # "selected" /\ ty.leaf \in Replaced
  <2>1. /\ t \in Targets(groups, ty.leaf) /\ new.leaf = t.leaf
        /\ Hidden(new) <=> Hidden(ty) \/ Hidden(t)
    BY <1>2, SubstitutedIs DEF Ready
  <2>2. ty.leaf \in Members(groups) /\ ty.leaf \in Names /\ (decl.dir = "export" => ~IsRuntime(ty.leaf))
    BY <1>2, ReplacedAre DEF Ready
  <2>. HIDE DEF new, t
  <2>3. ASSUME decl.dir = "export" PROVE Followed(new)
    <3>1. ASSUME new.leaf \in Names, ~IsRuntime(new.leaf), ~Hidden(new) PROVE new.leaf \in Static
      <4>1. t.leaf \in Members(groups)  BY <2>1, <2>3, <3>1, ExportSelects DEF Ready, Accepted
      <4>2. ~Payloadless(ty.leaf)  BY <2>2, <2>3 DEF Payloadless
      <4>3. t.leaf \notin Static => ~SymbolExposed(t, t.leaf)
        BY <2>1, <2>2, <3>1, <4>1, <4>2, NotStatic DEF Static, Ready
      <4>4. ~Hidden(t)  BY <2>1, <3>1
      <4>. QED BY <2>1, <2>3, <3>1, <4>3, <4>4, ExportShowsStatic
    <3>. QED BY <2>3, <3>1 DEF Followed
  <2>4. ASSUME decl.dir # "export" PROVE Followed(new)
    <3>1. ForEverySelection  BY <1>2, <2>4 DEF Replaced
    <3>2. SelectedFrom(new.leaf)  BY <2>1, <2>2 DEF SelectedFrom, Mentions
    <3>. QED BY <2>4, <3>1, <3>2 DEF Followed
  <2>. QED BY <2>3, <2>4 DEF new
<1>. QED BY <1>1, <1>2

(* A type that substitution does not change any more. *)
LEMMA FixpointIs ==
  ASSUME Ready, NEW sub, IsSub(sub), NEW ty \in AnyType, substituted(ty, sub) = ty
  PROVE  ty.path = "selected" \/ ty.leaf \notin Replaced
<1>. SUFFICES ASSUME ty.path # "selected", ty.leaf \in Replaced PROVE FALSE  OBVIOUS
<1>1. substituted(ty, sub).leaf = sub[ty.leaf].leaf /\ sub[ty.leaf].leaf # ty.leaf  BY SubstitutedIs DEF Ready
<1>. QED BY <1>1

(* What erasing leaves of a runtime parameter is left to rustc. *)
LEMMA ErasedOrLeft ==
  ASSUME Formed, NEW ty \in AnyType, erase(ty).leaf \in Names, IsRuntime(ty.leaf)
  PROVE  erase(ty) = ty /\ LeftToRustc(ty)
<1>1. ~(erase(ty).leaf \in {"void", "payload"})  BY ReservedNames
<1>2. erase(ty) = ty /\ (ty.path # "plain" \/ (Payloadless(ty.leaf) /\ ErasedAt(ty) = {}))  BY <1>1, EraseIs
<1>3. ty.path \in {"plain", "assoc", "selected"}  BY DEF AnyType
<1>. QED BY <1>2, <1>3 DEF LeftToRustc

(* An export, once it does not change, shows no parameter but what is left to *)
(* rustc.                                                                     *)
LEMMA ExportEnds ==
  ASSUME Ready, decl.dir = "export", NEW sub, IsSub(sub), NEW ty \in AnyType, Followed(ty), substituted(ty, sub) = ty,
         erase(ty).leaf \in Names
  PROVE  Hidden(erase(ty)) \/ LeftToRustc(erase(ty))
<1>1. CASE IsRuntime(ty.leaf)  BY <1>1, ErasedOrLeft DEF Ready
<1>2. CASE ~IsRuntime(ty.leaf)
  <2>1. erase(ty) = ty  BY <1>2, EraseIs DEF Ready
  <2>2. ty.path = "selected" \/ ty.leaf \notin Static  BY FixpointIs DEF Replaced
  <2>. QED BY <1>2, <2>1, <2>2 DEF Followed, LeftToRustc
<1>. QED BY <1>1, <1>2

(* A parameter of a function that an import does not select is not exposed. *)
LEMMA UnselectedIsNotExposed ==
  ASSUME Ready, NEW name \in Names \ Members(groups), ~IsRuntime(name), ~Param(name).outer
  PROVE  ~ExposedIn(Positions, name)
<1>1. PICK p \in Range(decl.params) : p.name = name  BY ParamsTyped DEF Ready
<1>2. Param(name) = p /\ ~p.dyn  BY <1>1, RuntimeOrStatic DEF Ready
<1>3. p \in Scope(FALSE)
  <2>1. p.outer \in BOOLEAN  BY ParamsTyped DEF Ready, ParameterSet
  <2>. QED BY <1>2, <2>1 DEF Scope
<1>4. ~contains_param(InnerGroups, p.name)  BY <1>1, GroupsSelect DEF contains_param, Ready
<1> DEFINE dependency == Dependency(InnerGroups, Scope(FALSE), p.name)
           used == SeenIn(Positions, p.name) \/ dependency.valid
           shows == p.dyn \/ dependency.invalid \/ ExposedIn(Positions, p.name)
<1>5. ~used \/ shows = FALSE
  BY <1>2, <1>3, <1>4 DEF Ready, Bound, validate_parameter_bounds, validate_callable_parameter_bounds
<1>6. ExposedIn(Positions, p.name) => SeenIn(Positions, p.name)  BY DEF ExposedIn, SeenIn, ErasedExposed, ErasedSeen
<1>. QED BY <1>1, <1>5, <1>6

(* An import that is declared once has no static parameter that is selected. *)
LEMMA DeclaredOnce ==
  ASSUME Ready, ~ForEverySelection, NEW name \in Members(groups)
  PROVE  impl_method_static_binding_params = {}
<1>1. CASE decl.impl /\ ~OwnDispatch
  <2>1. decl.innerUses = <<>> /\ OuterGroups = <<>>
    BY <1>1 DEF ForEverySelection, OwnDispatch, Dispatched
  <2>2. InnerGroups = <<>>  BY <2>1 DEF InnerGroups, Groups, Concretized
  <2>3. groups = <<>>  BY <2>1, <2>2 DEF Ready, ParsedWell
  <2>. QED BY <2>3 DEF Members
<1>2. CASE ~(decl.impl /\ ~OwnDispatch)  BY <1>2 DEF ForEverySelection
<1>. QED BY <1>1, <1>2

(* An import neither. *)
LEMMA ImportEnds ==
  ASSUME Ready, decl.dir # "export", NEW sub, IsSub(sub), NEW ty \in AnyType, Followed(ty), substituted(ty, sub) = ty,
         ty.leaf \in Names
  PROVE  Hidden(ty) \/ LeftToRustc(ty)
<1>. SUFFICES ASSUME ~Hidden(ty), ~LeftToRustc(ty) PROVE FALSE  OBVIOUS
<1>1. ty.path # "selected" /\ ty.leaf \notin Replaced  BY FixpointIs DEF LeftToRustc
<1>2. ForEverySelection => ty.leaf \notin Members(groups)  BY <1>1 DEF Replaced
<1>3. ty \in Range(Start)  BY <1>2 DEF Followed, LeftToRustc, contains_param
<1>4. PICK i \in DOMAIN Start : ty = Start[i]  BY <1>3 DEF Range
<1> DEFINE v == SignatureValues[i]
<1>5. v \in AnyType /\ Written(v) /\ v.path \in {"plain", "assoc"} /\ ty = erase(v)
  BY <1>4, StartTyped, ValuesWritten DEF Ready
<1>. HIDE DEF v
<1>6. ~IsRuntime(v.leaf)  BY <1>5, ErasedOrLeft DEF Ready
<1>7. ty = v  BY <1>5, <1>6, EraseIs DEF Ready
<1>8. CASE ty.leaf \notin Members(groups)
  <2>1. ty.path = "plain" /\ ~Param(ty.leaf).outer  BY <1>5, <1>7, <1>8 DEF LeftToRustc, contains_param
  <2>2. ~ExposedIn(Positions, ty.leaf)  BY <1>6, <1>7, <1>8, <2>1, UnselectedIsNotExposed
  <2>3. ty \notin Positions  BY <2>1, <2>2 DEF ExposedIn, ErasedExposed, Mentions
  <2>4. ty.leaf = decl.self.leaf  BY <1>5, <1>7, <2>3 DEF Written
  <2>5. ty.leaf \notin NamesOf(decl, FALSE) \ NamesOf(decl, TRUE)  BY <2>4 DEF Ready, Formed, Resolved
  <2>6. ty.leaf \in NamesOf(decl, FALSE) /\ ty.leaf \notin NamesOf(decl, TRUE)
    <3>1. Param(ty.leaf) \in Range(decl.params) /\ Param(ty.leaf).name = ty.leaf /\ Param(ty.leaf) \in ParameterSet
      BY ParamOf DEF Ready
    <3>2. Param(ty.leaf).outer = FALSE  BY <2>1, <3>1 DEF ParameterSet
    <3>3. ty.leaf \in NamesOf(decl, FALSE)  BY <3>1, <3>2, ParamsTyped DEF Ready
    <3>. QED BY <3>3 DEF Ready, Unshadowed
  <2>. QED BY <2>5, <2>6
<1>9. CASE ty.leaf \in Members(groups)
  <2>1. impl_method_static_binding_params = {}  BY <1>2, <1>9, DeclaredOnce
  <2>2. ty.leaf \notin symbol_binding_params(TRUE, Scope(TRUE))  BY <2>1 DEF impl_method_static_binding_params
  <2>3. ~SymbolExposed(ty, ty.leaf)  BY <1>5, <1>6, <1>7, <1>9, <2>2, ValueNotStatic DEF Ready
  <2>4. ~DirectlyErased(ty.leaf)  BY <1>6, <1>7, <1>9, <2>2, NotStatic DEF Ready
  <2>. QED BY <2>3, <2>4 DEF SymbolExposed, Mentions
<1>. QED BY <1>8, <1>9

-----------------------------------------------------------------------------
(* What crosses the boundary for a type does not change with what its declared *)
(* part is made of.                                                            *)
LEMMA Prefix ==
  ASSUME NEW S, NEW s \in Seq(S), NEW t \in Seq(S), NEW n \in 0..Len(s)
  PROVE  SubSeq(s \o t, 1, n) = SubSeq(s, 1, n) /\ SubSeq(s, 1, Len(s)) = s
<1>1. /\ SubSeq(s \o t, 1, n) = [i \in 1..n |-> (s \o t)[i]] /\ SubSeq(s, 1, n) = [i \in 1..n |-> s[i]]
      /\ SubSeq(s, 1, Len(s)) = [i \in 1..Len(s) |-> s[i]]
  OBVIOUS
<1>2. \A i \in 1..n : (s \o t)[i] = s[i]  OBVIOUS
<1>3. s = [i \in 1..Len(s) |-> s[i]]  OBVIOUS
<1>. QED BY <1>1, <1>2, <1>3

(* Where a type is declared, and first. *)
DeclaredAt(layers) == {i \in DOMAIN layers : layers[i] = "decl"}
First(layers) == CHOOSE i \in DeclaredAt(layers) : \A j \in DeclaredAt(layers) : i <= j

(* What crosses the boundary, by whether the type is opaque there. *)
LEMMA LoweredIs ==
  ASSUME NEW ty
  PROVE  Lowered(ty) = IF Hidden(ty) THEN <<SubSeq(ty.layers, 1, First(ty.layers) - 1), "opaque">>
                       ELSE <<ty.layers, IF ty.leaf \in DeclaredTypes /\ ~Wrapped(ty) THEN "opaque" ELSE ty.leaf>>
<1>1. Hidden(ty) <=> DeclaredAt(ty.layers) # {}  BY DEF Hidden, DeclaredAt, Range
<1>2. DeclaredAt(ty.layers) = {i \in DOMAIN ty.layers : ty.layers[i] = "decl"}  BY DEF DeclaredAt
<1>. QED BY <1>1, <1>2 DEF Lowered, First

(* The outermost declared type. *)
LEMMA FirstIs ==
  ASSUME NEW S, NEW layers \in Seq(S), DeclaredAt(layers) # {}
  PROVE  First(layers) \in DeclaredAt(layers) /\ \A j \in DeclaredAt(layers) : First(layers) <= j
<1>1. DeclaredAt(layers) \subseteq Nat  BY DEF DeclaredAt
<1>2. \E i \in DeclaredAt(layers) : \A j \in DeclaredAt(layers) : i <= j  BY <1>1, Least
<1>. QED BY <1>2 DEF First

(* What is inside a declared type is not seen. *)
LEMMA LoweredHidden ==
  ASSUME NEW ty \in AnyType, NEW new \in AnyType, NEW layers \in Seq({"ref", "wrap", "decl"}),
         new.layers = ty.layers \o layers, Hidden(ty)
  PROVE  Lowered(new) = Lowered(ty)
<1> DEFINE s == ty.layers  st == s \o layers
<1>1. s \in Seq({"ref", "wrap", "decl"})  BY DEF AnyType
<1>. HIDE DEF s
<1>2. /\ st \in Seq({"ref", "wrap", "decl"}) /\ Len(s) \in Nat
      /\ \A i \in DOMAIN s : i \in DOMAIN st /\ st[i] = s[i] /\ i \in 1..Len(s)
      /\ \A i \in DOMAIN st : i \in Nat /\ i >= 1 /\ (i <= Len(s) => i \in DOMAIN s)
  BY <1>1
<1>3. DeclaredAt(s) # {}  BY DEF Hidden, Range, DeclaredAt, s
<1>4. First(s) \in DeclaredAt(s) /\ \A j \in DeclaredAt(s) : First(s) <= j  BY <1>1, <1>3, FirstIs
<1>. HIDE DEF st
<1>5. DeclaredAt(s) \subseteq DeclaredAt(st)  BY <1>2 DEF DeclaredAt
<1>6. First(st) \in DeclaredAt(st) /\ \A j \in DeclaredAt(st) : First(st) <= j
  <2>1. DeclaredAt(st) # {}  BY <1>3, <1>5
  <2>. QED BY <1>2, <2>1, FirstIs
<1>7. First(st) = First(s)
  <2>1. First(s) \in 1..Len(s) /\ First(st) <= First(s)  BY <1>2, <1>4, <1>5, <1>6 DEF DeclaredAt
  <2>2. First(st) \in DOMAIN s  BY <1>2, <1>6, <2>1 DEF DeclaredAt
  <2>3. First(st) \in DeclaredAt(s)  BY <1>2, <1>6, <2>2 DEF DeclaredAt
  <2>4. First(s) <= First(st) /\ First(st) \in 1..Len(s)  BY <1>2, <1>4, <2>2, <2>3
  <2>. QED BY <2>1, <2>4
<1>8. SubSeq(st, 1, First(s) - 1) = SubSeq(s, 1, First(s) - 1)
  <2>1. First(s) - 1 \in 0..Len(s)  BY <1>2, <1>4 DEF DeclaredAt
  <2>. QED BY <1>1, <2>1, Prefix DEF st
<1>9. Hidden(new)
  <2>1. First(s) \in DOMAIN st /\ st[First(s)] = "decl"  BY <1>4, <1>5 DEF DeclaredAt
  <2>2. new.layers = st  BY DEF st, s
  <2>. QED BY <2>1, <2>2 DEF Hidden, Range
<1>. QED BY <1>7, <1>8, <1>9, LoweredIs DEF st, s

(* Where a declared type takes the place of a parameter, an opaque pointer *)
(* crosses.                                                                *)
LEMMA LoweredDirect ==
  ASSUME NEW ty \in AnyType, NEW new \in AnyType, NEW t \in TypeSet, is_direct_declared_type(t),
         new.layers = ty.layers \o t.layers, new.leaf = t.leaf, ~Hidden(ty), ~Wrapped(ty)
  PROVE  Lowered(new) = <<ty.layers, "opaque">> /\ (Hidden(new) \/ new.leaf \in DeclaredTypes)
<1> DEFINE s == ty.layers  layers == t.layers  st == s \o layers
<1>1. s \in Seq({"ref", "wrap", "decl"}) /\ layers \in Seq({"ref", "wrap", "decl"})  BY DEF AnyType, TypeSet
<1>2. CASE layers = <<>>
  <2>1. t.leaf \in DeclaredTypes  BY <1>2 DEF is_direct_declared_type
  <2>2. new.layers = s  BY <1>1, <1>2
  <2>3. ~Hidden(new) /\ ~Wrapped(new)  BY <2>2 DEF Hidden, Wrapped
  <2>. QED BY <2>1, <2>2, <2>3, LoweredIs
<1>3. CASE layers # <<>>
  <2>1. layers[1] = "decl" /\ 1 \in DOMAIN layers  BY <1>1, <1>3 DEF is_direct_declared_type
  <2>. HIDE DEF s, layers
  <2>2. /\ st \in Seq({"ref", "wrap", "decl"}) /\ Len(s) \in Nat
        /\ Len(s) + 1 \in DOMAIN st /\ st[Len(s) + 1] = "decl"
        /\ \A i \in DOMAIN st : i \in Nat /\ (i <= Len(s) => i \in DOMAIN s /\ st[i] = s[i])
    BY <1>1, <2>1
  <2>. HIDE DEF st
  <2>3. Len(s) + 1 \in DeclaredAt(st)  BY <2>2 DEF DeclaredAt
  <2>4. First(st) \in DeclaredAt(st) /\ \A j \in DeclaredAt(st) : First(st) <= j
    <3>1. DeclaredAt(st) # {}  BY <2>3
    <3>. QED BY <2>2, <3>1, FirstIs
  <2>5. \A i \in DOMAIN s : s[i] # "decl"  BY DEF Hidden, Range, s
  <2>6. First(st) = Len(s) + 1
    <3>1. First(st) \in Nat /\ First(st) <= Len(s) + 1  BY <2>2, <2>3, <2>4 DEF DeclaredAt
    <3>2. ~(First(st) <= Len(s))  BY <2>2, <2>4, <2>5 DEF DeclaredAt
    <3>. QED BY <2>2, <3>1, <3>2
  <2>7. SubSeq(st, 1, First(st) - 1) = s
    <3>1. First(st) - 1 = Len(s) /\ Len(s) \in 0..Len(s)  BY <2>2, <2>6
    <3>2. SubSeq(st, 1, Len(s)) = SubSeq(s, 1, Len(s)) /\ SubSeq(s, 1, Len(s)) = s  BY <1>1, <3>1, Prefix DEF st
    <3>. QED BY <3>1, <3>2
  <2>8. new.layers = st  BY DEF st, s, layers
  <2>9. Hidden(new)  BY <2>2, <2>8 DEF Hidden, Range
  <2>. QED BY <2>7, <2>8, <2>9, LoweredIs DEF s
<1>. QED BY <1>2, <1>3

-----------------------------------------------------------------------------
(* Two bindings that interpolate the same keep the same types, but for what *)
(* is behind an opaque pointer in both.                                     *)
Opaque(ty) == ty.leaf \in Replaced \ symbol =>
  Hidden(ty) \/ ty.path = "selected" \/ (ty.path = "plain" /\ ~Wrapped(ty) /\ DirectlyErased(ty.leaf))

(* What crosses for the type is decided. *)
Settled(ty) == (Hidden(ty) \/ ty.leaf \notin Names) /\ (decl.dir = "export" => ~IsRuntime(ty.leaf))

(* Two types of one position, of bindings that interpolate the same. *)
Alike(ty, other) == ty = other \/ (Lowered(ty) = Lowered(other) /\ Settled(ty) /\ Settled(other))

(* The selections interpolated are the same. *)
SameInterpolated(sub, other) == \A name \in symbol \cap Replaced : sub[name] = other[name]

(* It holds of the signature: what is not interpolated was not exposed. *)
LEMMA OpaqueStart ==
  ASSUME Ready, Direct, NEW i \in DOMAIN Start
  PROVE  Opaque(Start[i])
<1> DEFINE ty == Start[i]
           v == SignatureValues[i]
<1>0. /\ ty = IF decl.dir = "export" THEN v ELSE erase(v)
      /\ v \in AnyType /\ Written(v) /\ v \in Range(SignatureValues)
  <2>1. i \in DOMAIN SignatureValues  BY StartTyped DEF Ready
  <2>2. v \in Range(SignatureValues)  BY <2>1 DEF Range
  <2>. QED BY <2>1, <2>2, StartTyped, ValuesWritten DEF Ready
<1>. HIDE DEF v, ty
<1>. SUFFICES ASSUME ty.leaf \in Replaced, ty.leaf \notin symbol, ~Hidden(ty)
              PROVE  ty.path = "plain" /\ ~Wrapped(ty) /\ DirectlyErased(ty.leaf)
  BY DEF Opaque, ty
<1>1. ty.leaf \in Names \cap Members(groups)  BY ReplacedAre DEF Ready
<1>2. ty = v /\ ~IsRuntime(ty.leaf)
  <2>1. CASE decl.dir = "export"  BY <1>0, <2>1, ReplacedAre DEF Ready
  <2>2. CASE decl.dir # "export" /\ IsRuntime(v.leaf)
    <3>1. ty = erase(v)  BY <1>0, <2>2
    <3>2. erase(v) = v  BY <1>0, <1>1, <2>2, <3>1, ErasedOrLeft DEF Ready
    <3>3. Hidden(v) \/ ~IsRuntime(erase(v).leaf)  BY <1>0, <2>2 DEF Direct
    <3>. QED BY <2>2, <3>1, <3>2, <3>3
  <2>3. CASE decl.dir # "export" /\ ~IsRuntime(v.leaf)
    <3>1. ty = erase(v) /\ erase(v) = v  BY <1>0, <2>3, EraseIs DEF Ready
    <3>. QED BY <2>3, <3>1
  <2>. QED BY <2>1, <2>2, <2>3
<1>3. ~SymbolExposed(ty, ty.leaf)
  <2>1. ty.leaf \notin symbol_binding_params(FALSE, Scope(TRUE))  BY DEF Ready, impl_method_symbol_binding_params
  <2>. QED BY <1>0, <1>1, <1>2, <2>1, ValueNotStatic DEF Ready
<1>. QED BY <1>3 DEF SymbolExposed, Mentions

(* What a static parameter is selected to be made of is interpolated. *)
LEMMA TargetInterpolated ==
  ASSUME Ready, Direct, NEW name \in Members(groups), ~IsRuntime(name), NEW t \in Targets(groups, name), t.leaf \in Names
  PROVE  t.leaf \in symbol /\ ~IsRuntime(t.leaf)
<1>1. Members(groups) \subseteq Names  BY GroupsSelect DEF Ready
<1>2. t.leaf \in symbol  BY <1>1 DEF Direct
<1>3. t.leaf \in symbol_binding_params(FALSE, Scope(TRUE))  BY <1>2 DEF Ready, impl_method_symbol_binding_params
<1>. QED BY <1>2, <1>3, StaticAre DEF Ready

(* Substituting a selection keeps it. *)
LEMMA OpaqueStep ==
  ASSUME Ready, Direct, NEW sub, IsSub(sub), NEW ty \in AnyType, Opaque(ty)
  PROVE  Opaque(substituted(ty, sub))
<1> DEFINE new == substituted(ty, sub)
           t == sub[ty.leaf]
<1>1. CASE ty.path = "selected" \/ ty.leaf \notin Replaced
  <2>1. new = ty  BY <1>1, SubstitutedIs DEF Ready
  <2>. QED BY <2>1
<1>2. CASE ty.path # "selected" /\ ty.leaf \in Replaced
  <2>1. /\ t \in Targets(groups, ty.leaf) /\ t \in TypeSet /\ new.leaf = t.leaf
        /\ Hidden(new) <=> Hidden(ty) \/ Hidden(t)
    BY <1>2, SubstitutedIs DEF Ready
  <2>2. ty.leaf \in Members(groups)  BY <1>2, ReplacedAre DEF Ready
  <2>. HIDE DEF new, t
  <2>. SUFFICES ASSUME new.leaf \in Replaced, new.leaf \notin symbol, ~Hidden(new) PROVE FALSE  BY DEF Opaque, new
  <2>3. t.leaf \in Names  BY <2>1, ReplacedAre DEF Ready
  <2>4. CASE ty.leaf \in symbol
    <3>1. ~IsRuntime(ty.leaf)
      <4>1. ty.leaf \in symbol_binding_params(FALSE, Scope(TRUE))  BY <2>4 DEF Ready, impl_method_symbol_binding_params
      <4>. QED BY <4>1, StaticAre DEF Ready
    <3>. QED BY <2>1, <2>2, <2>3, <3>1, TargetInterpolated
  <2>5. CASE ty.leaf \notin symbol
    <3>1. DirectlyErased(ty.leaf)  BY <1>2, <2>1, <2>5 DEF Opaque
    <3>2. is_direct_declared_type(t)  BY <2>1, <3>1 DEF DirectlyErased
    <3>3. t.layers # <<>>  BY <2>3, <3>2, ReservedNames DEF is_direct_declared_type, Ready
    <3>4. t.layers \in Seq({"ref", "wrap", "decl"})  BY <2>1 DEF TypeSet
    <3>5. t.layers[1] = "decl" /\ 1 \in DOMAIN t.layers  BY <3>2, <3>3, <3>4 DEF is_direct_declared_type
    <3>6. Hidden(t)  BY <3>5 DEF Hidden, Range
    <3>. QED BY <2>1, <3>6
  <2>. QED BY <2>4, <2>5
<1>. QED BY <1>1, <1>2

(* Below an opaque pointer substitution changes nothing of what crosses. *)
LEMMA SettledStep ==
  ASSUME Ready, Direct, NEW sub, IsSub(sub), NEW ty \in AnyType, Settled(ty)
  PROVE  Settled(substituted(ty, sub)) /\ Lowered(substituted(ty, sub)) = Lowered(ty)
<1> DEFINE new == substituted(ty, sub)
           t == sub[ty.leaf]
<1>1. CASE ty.path = "selected" \/ ty.leaf \notin Replaced
  <2>1. new = ty  BY <1>1, SubstitutedIs DEF Ready
  <2>. QED BY <2>1
<1>2. CASE ty.path # "selected" /\ ty.leaf \in Replaced
  <2>1. /\ t \in Targets(groups, ty.leaf) /\ t \in TypeSet /\ new.leaf = t.leaf /\ new.layers = ty.layers \o t.layers
        /\ Hidden(new) <=> Hidden(ty) \/ Hidden(t)
        /\ new \in AnyType
    BY <1>2, SubstitutedIs DEF Ready
  <2>2. ty.leaf \in Members(groups) /\ ty.leaf \in Names  BY <1>2, ReplacedAre DEF Ready
  <2>3. t.layers \in Seq({"ref", "wrap", "decl"})  BY <2>1 DEF TypeSet
  <2>4. Hidden(ty)  BY <2>2 DEF Settled
  <2>. HIDE DEF new, t
  <2>5. Lowered(new) = Lowered(ty)  BY <2>1, <2>3, <2>4, LoweredHidden
  <2>6. decl.dir = "export" => ~IsRuntime(new.leaf)
    <3>1. decl.dir = "export" => ~IsRuntime(ty.leaf)  BY DEF Settled
    <3>2. t.leaf \notin Names => ~IsRuntime(t.leaf)  BY DEF IsRuntime
    <3>. QED BY <2>1, <2>2, <3>1, <3>2, TargetInterpolated
  <2>. QED BY <2>1, <2>4, <2>5, <2>6 DEF Settled, new
<1>. QED BY <1>1, <1>2

(* A shared type: either its selections agree, or all of them are opaque. *)
LEMMA SharedStep ==
  ASSUME Ready, Direct, NEW sub, IsSub(sub), NEW other, IsSub(other), SameInterpolated(sub, other),
         NEW ty \in AnyType, Opaque(ty)
  PROVE  Alike(substituted(ty, sub), substituted(ty, other))
<1>1. CASE ty.path = "selected" \/ ty.leaf \notin Replaced  BY <1>1, SubstitutedIs DEF Ready, Alike
<1>2. CASE ty.path # "selected" /\ ty.leaf \in Replaced /\ ty.leaf \in symbol
  <2>1. sub[ty.leaf] = other[ty.leaf]  BY <1>2 DEF SameInterpolated
  <2>2. substituted(ty, sub) = substituted(ty, other)  BY <1>2, <2>1 DEF substituted, IsSub
  <2>. QED BY <2>2 DEF Alike
<1>3. CASE ty.path # "selected" /\ ty.leaf \in Replaced /\ ty.leaf \notin symbol
  <2>1. ty.leaf \in Members(groups) /\ ty.leaf \in Names /\ (decl.dir = "export" => ~IsRuntime(ty.leaf))
    BY <1>3, ReplacedAre DEF Ready
  <2>2. CASE Hidden(ty)
    <3>1. Settled(ty)  BY <2>1, <2>2 DEF Settled
    <3>. QED BY <3>1, SettledStep DEF Alike
  <2>3. CASE ~Hidden(ty)
    <3>1. ~Wrapped(ty) /\ DirectlyErased(ty.leaf)  BY <1>3, <2>3 DEF Opaque
    <3>2. ASSUME NEW s, IsSub(s)
          PROVE  Lowered(substituted(ty, s)) = <<ty.layers, "opaque">> /\ Settled(substituted(ty, s))
      <4> DEFINE new == substituted(ty, s)
                 t == s[ty.leaf]
      <4>1. /\ t \in Targets(groups, ty.leaf) /\ t \in TypeSet /\ new.leaf = t.leaf /\ new.layers = ty.layers \o t.layers
            /\ new \in AnyType
        BY <1>3, <3>2, SubstitutedIs DEF Ready
      <4>2. is_direct_declared_type(t)  BY <3>1, <4>1 DEF DirectlyErased
      <4>. HIDE DEF new, t
      <4>3. Lowered(new) = <<ty.layers, "opaque">> /\ (Hidden(new) \/ new.leaf \in DeclaredTypes)
        BY <2>3, <3>1, <4>1, <4>2, LoweredDirect
      <4>4. decl.dir = "export" => ~IsRuntime(new.leaf)
        <5>1. t.leaf \notin Names => ~IsRuntime(t.leaf)  BY DEF IsRuntime
        <5>. QED BY <2>1, <4>1, <5>1, TargetInterpolated
      <4>. QED BY <4>3, <4>4, ReservedNames DEF Settled, Ready, new
    <3>. QED BY <3>2 DEF Alike
  <2>. QED BY <2>2, <2>3
<1>. QED BY <1>1, <1>2, <1>3

(* Two types that are alike stay alike under selections that agree on the *)
(* symbol.                                                                *)
LEMMA AlikeStep ==
  ASSUME Ready, Direct, NEW sub, IsSub(sub), NEW other, IsSub(other), SameInterpolated(sub, other),
         NEW ty \in AnyType, NEW twin \in AnyType, Opaque(ty), Alike(ty, twin)
  PROVE  Alike(substituted(ty, sub), substituted(twin, other))
<1>1. CASE ty = twin  BY <1>1, SharedStep
<1>2. CASE Lowered(ty) = Lowered(twin) /\ Settled(ty) /\ Settled(twin)  BY <1>2, SettledStep DEF Alike
<1>. QED BY <1>1, <1>2 DEF Alike

(* Alike types cross alike, before and after erasing. *)
LEMMA AlikeEnds ==
  ASSUME Ready, NEW ty \in AnyType, NEW twin \in AnyType, Alike(ty, twin)
  PROVE  /\ Lowered(ty) = Lowered(twin)
         /\ decl.dir = "export" => Lowered(erase(ty)) = Lowered(erase(twin))
BY EraseIs DEF Alike, Settled, Ready

-----------------------------------------------------------------------------
(* The bindings while their types are substituted. *)
BindOf(B) ==
  /\ \A b \in B : /\ b = [symbol |-> b.symbol, sub |-> b.sub, types |-> b.types]
                  /\ IsSub(b.sub) /\ DOMAIN b.types = DOMAIN Start
                  /\ \A i \in DOMAIN Start : /\ b.types[i] \in AnyType /\ Followed(b.types[i])
                                             /\ Direct => Opaque(b.types[i])
  /\ \A b, c \in B : b.sub = c.sub => b = c
  /\ Direct => \A b, c \in B : Interpolated(b.sub) = Interpolated(c.sub) =>
                               \A i \in DOMAIN Start : Alike(b.types[i], c.types[i])

NoneShowsIn(B) == \A b \in B : \A ty \in Range(b.types) : ty.leaf \in Names => Hidden(ty) \/ LeftToRustc(ty)
OneAbiIn(B) ==
  Direct => \A b, other \in B : Interpolated(b.sub) = Interpolated(other.sub) => Abi(b) = Abi(other)

(* The bindings as they are made. *)
LEMMA BindStart ==
  ASSUME Ready, NEW subs, \A sub \in subs : IsSub(sub)
  PROVE  BindOf({Binding(sub, Start) : sub \in subs})
<1> DEFINE B == {Binding(sub, Start) : sub \in subs}
<1>1. \A b \in B : \E sub \in subs : /\ b = Binding(sub, Start) /\ b.sub = sub /\ b.types = Start
                                     /\ b = [symbol |-> b.symbol, sub |-> b.sub, types |-> b.types]
  BY DEF Binding
<1>2. \A i \in DOMAIN Start : Start[i] \in AnyType /\ Followed(Start[i]) /\ (Direct => Opaque(Start[i]))
  BY StartTyped, FollowedStart, OpaqueStart DEF Ready
<1>3. \A b, c \in B : b.sub = c.sub => b = c  BY <1>1
<1>. HIDE DEF B
<1>. QED BY <1>1, <1>2, <1>3 DEF BindOf, Alike, B

(* Substituting and erasing keep the symbol and the selections, and go type by type. *)
LEMMA BindingsSubstituted ==
  ASSUME NEW B, BindOf(B), NEW b \in B
  PROVE  /\ Substituted(b).sub = b.sub /\ Substituted(b).symbol = b.symbol
         /\ Substituted(b).types = [i \in DOMAIN Start |-> substituted(b.types[i], b.sub)]
         /\ Substituted(b) = [symbol |-> b.symbol, sub |-> b.sub,
                             types |-> [i \in DOMAIN Start |-> substituted(b.types[i], b.sub)]]
         /\ [b EXCEPT !.types = Erased(@)].sub = b.sub
         /\ [b EXCEPT !.types = Erased(@)].types = [i \in DOMAIN Start |-> erase(b.types[i])]
<1>1. b = [symbol |-> b.symbol, sub |-> b.sub, types |-> b.types] /\ DOMAIN b.types = DOMAIN Start  BY DEF BindOf
<1> DEFINE types == [i \in DOMAIN Start |-> substituted(b.types[i], b.sub)]
<1>2. \A ts : LET d == [b EXCEPT !.types = ts]
             IN /\ d = [symbol |-> b.symbol, sub |-> b.sub, types |-> ts]
                /\ d.symbol = b.symbol /\ d.sub = b.sub /\ d.types = ts
  BY <1>1
<1>3. Substituted(b) = [b EXCEPT !.types = types]  BY <1>1 DEF Substituted
<1>4. [b EXCEPT !.types = Erased(@)] = [b EXCEPT !.types = Erased(b.types)]  OBVIOUS
<1>5. Erased(b.types) = [i \in DOMAIN Start |-> erase(b.types[i])]  BY <1>1 DEF Erased
<1>. HIDE DEF types
<1>6. /\ Substituted(b) = [symbol |-> b.symbol, sub |-> b.sub, types |-> types]
      /\ Substituted(b).symbol = b.symbol /\ Substituted(b).sub = b.sub /\ Substituted(b).types = types
  BY <1>2, <1>3
<1>7. /\ [b EXCEPT !.types = Erased(@)].sub = b.sub
      /\ [b EXCEPT !.types = Erased(@)].types = Erased(b.types)
  BY <1>2, <1>4
<1>. QED BY <1>5, <1>6, <1>7 DEF types

(* Bindings that interpolate the same select the same for what is interpolated. *)
LEMMA InterpolatedAgree ==
  ASSUME NEW sub, IsSub(sub), NEW other, IsSub(other), Interpolated(sub) = Interpolated(other)
  PROVE  SameInterpolated(sub, other)
<1>1. DOMAIN sub = Replaced /\ DOMAIN other = Replaced  BY DEF IsSub
<1>2. ASSUME NEW name \in symbol \cap Replaced PROVE sub[name] = other[name]
  <2>1. Interpolated(sub)[name] = <<sub[name]>> /\ Interpolated(other)[name] = <<other[name]>>
    BY <1>1, <1>2 DEF Interpolated
  <2>2. <<sub[name]>> = <<other[name]>>  BY <2>1
  <2>. QED BY <2>2
<1>. QED BY <1>2 DEF SameInterpolated

(* A round of substitution keeps all of it. *)
LEMMA BindStep ==
  ASSUME Ready, NEW B, BindOf(B)
  PROVE  BindOf({Substituted(b) : b \in B})
<1> DEFINE next == {Substituted(b) : b \in B}
<1>1. \A b \in B : /\ Substituted(b).sub = b.sub /\ Substituted(b).symbol = b.symbol
                   /\ Substituted(b).types = [i \in DOMAIN Start |-> substituted(b.types[i], b.sub)]
                   /\ Substituted(b) = [symbol |-> b.symbol, sub |-> b.sub,
                                       types |-> [i \in DOMAIN Start |-> substituted(b.types[i], b.sub)]]
  BY BindingsSubstituted
<1>2. ASSUME NEW d \in next
      PROVE  /\ d = [symbol |-> d.symbol, sub |-> d.sub, types |-> d.types]
             /\ IsSub(d.sub) /\ DOMAIN d.types = DOMAIN Start
             /\ \A i \in DOMAIN Start : /\ d.types[i] \in AnyType /\ Followed(d.types[i])
                                        /\ Direct => Opaque(d.types[i])
  <2>1. PICK b \in B : d = Substituted(b)  OBVIOUS
  <2> DEFINE types == [i \in DOMAIN Start |-> substituted(b.types[i], b.sub)]
  <2>2. /\ d.sub = b.sub /\ d.symbol = b.symbol /\ d.types = types
        /\ d = [symbol |-> b.symbol, sub |-> b.sub, types |-> types]
    BY <1>1, <2>1
  <2>3. IsSub(b.sub)  BY DEF BindOf
  <2>4. ASSUME NEW i \in DOMAIN Start
        PROVE  types[i] \in AnyType /\ Followed(types[i]) /\ (Direct => Opaque(types[i]))
    <3>1. b.types[i] \in AnyType /\ Followed(b.types[i]) /\ (Direct => Opaque(b.types[i]))  BY <2>4 DEF BindOf
    <3>2. types[i] = substituted(b.types[i], b.sub)  BY <2>4
    <3>. QED BY <2>3, <3>1, <3>2, SubstitutedIs, FollowedStep, OpaqueStep DEF Ready
  <2>5. DOMAIN types = DOMAIN Start  OBVIOUS
  <2>. HIDE DEF types
  <2>. QED BY <2>2, <2>3, <2>4, <2>5
<1>3. ASSUME NEW d \in next, NEW e \in next, d.sub = e.sub PROVE d = e
  <2>1. PICK b \in B : d = Substituted(b)  OBVIOUS
  <2>2. PICK c \in B : e = Substituted(c)  OBVIOUS
  <2>3. b.sub = c.sub  BY <1>1, <1>3, <2>1, <2>2
  <2>4. b = c  BY <2>3 DEF BindOf
  <2>. QED BY <2>1, <2>2, <2>4
<1>4. ASSUME Direct, NEW d \in next, NEW e \in next, Interpolated(d.sub) = Interpolated(e.sub), NEW i \in DOMAIN Start
      PROVE  Alike(d.types[i], e.types[i])
  <2>1. PICK b \in B : d = Substituted(b)  OBVIOUS
  <2>2. PICK c \in B : e = Substituted(c)  OBVIOUS
  <2>3. Interpolated(b.sub) = Interpolated(c.sub)
    <3>1. d.sub = b.sub /\ e.sub = c.sub  BY <1>1, <2>1, <2>2
    <3>. QED BY <1>4, <3>1
  <2>4. SameInterpolated(b.sub, c.sub) /\ IsSub(b.sub) /\ IsSub(c.sub)
    <3>1. IsSub(b.sub) /\ IsSub(c.sub)  BY DEF BindOf
    <3>. QED BY <2>3, <3>1, InterpolatedAgree
  <2>5. Alike(b.types[i], c.types[i]) /\ Opaque(b.types[i]) /\ b.types[i] \in AnyType /\ c.types[i] \in AnyType
    BY <1>4, <2>3 DEF BindOf
  <2>6. d.types[i] = substituted(b.types[i], b.sub) /\ e.types[i] = substituted(c.types[i], c.sub)
    BY <1>1, <1>4, <2>1, <2>2
  <2>. QED BY <1>4, <2>4, <2>5, <2>6, AlikeStep
<1>. HIDE DEF next
<1>5. BindOf(next)  BY <1>2, <1>3, <1>4 DEF BindOf
<1>. QED BY <1>5 DEF next

(* When a round changes no binding, every rule about them holds. *)
LEMMA BindEnd ==
  ASSUME Ready, NEW B, BindOf(B), {Substituted(b) : b \in B} = B
  PROVE  LET E == IF decl.dir = "export" THEN {[b EXCEPT !.types = Erased(@)] : b \in B} ELSE B
         IN NoneShowsIn(E) /\ OneAbiIn(E)
<1> DEFINE erased(b) == [b EXCEPT !.types = Erased(@)]
           E == IF decl.dir = "export" THEN {erased(b) : b \in B} ELSE B
<1>1. ASSUME NEW b \in B, NEW i \in DOMAIN Start PROVE substituted(b.types[i], b.sub) = b.types[i]
  <2>1. Substituted(b) \in B  OBVIOUS
  <2>2. Substituted(b).sub = b.sub /\ Substituted(b).types = [k \in DOMAIN Start |-> substituted(b.types[k], b.sub)]
    BY BindingsSubstituted
  <2>3. Substituted(b) = b  BY <2>1, <2>2 DEF BindOf
  <2>. QED BY <1>1, <2>2, <2>3
<1>2. \A b \in B : erased(b).sub = b.sub /\ erased(b).types = [i \in DOMAIN Start |-> erase(b.types[i])]
  BY BindingsSubstituted
<1>3. \A b \in B : /\ IsSub(b.sub) /\ DOMAIN b.types = DOMAIN Start
                   /\ \A i \in DOMAIN Start : b.types[i] \in AnyType /\ Followed(b.types[i])
  BY DEF BindOf
<1>. HIDE DEF erased
<1>4. NoneShowsIn(E)
  <2>1. CASE decl.dir = "export"
    <3>. SUFFICES ASSUME NEW b \in B, NEW ty \in Range(erased(b).types), ty.leaf \in Names PROVE Hidden(ty) \/ LeftToRustc(ty)
      BY <2>1 DEF NoneShowsIn
    <3>0. erased(b).types = [i \in DOMAIN Start |-> erase(b.types[i])]  BY <1>2
    <3>1. PICK i \in DOMAIN Start : ty = erase(b.types[i])  BY <3>0 DEF Range
    <3>. QED BY <1>1, <1>3, <2>1, <3>1, ExportEnds
  <2>2. CASE decl.dir # "export"
    <3>. SUFFICES ASSUME NEW b \in B, NEW ty \in Range(b.types), ty.leaf \in Names PROVE Hidden(ty) \/ LeftToRustc(ty)
      BY <2>2 DEF NoneShowsIn
    <3>1. PICK i \in DOMAIN Start : ty = b.types[i]  BY <1>3 DEF Range
    <3>. QED BY <1>1, <1>3, <2>2, <3>1, ImportEnds
  <2>. QED BY <2>1, <2>2
<1>5. OneAbiIn(E)
  <2>. SUFFICES ASSUME Direct, NEW d \in E, NEW e \in E, Interpolated(d.sub) = Interpolated(e.sub) PROVE Abi(d) = Abi(e)
    BY DEF OneAbiIn
  <2>1. ASSUME NEW b \in B, NEW c \in B, Interpolated(b.sub) = Interpolated(c.sub), NEW i \in DOMAIN Start
        PROVE  /\ Lowered(b.types[i]) = Lowered(c.types[i])
               /\ decl.dir = "export" => Lowered(erase(b.types[i])) = Lowered(erase(c.types[i]))
    <3>1. Alike(b.types[i], c.types[i]) /\ b.types[i] \in AnyType /\ c.types[i] \in AnyType  BY <2>1 DEF BindOf
    <3>. QED BY <3>1, AlikeEnds
  <2>2. CASE decl.dir = "export"
    <3>1. PICK b \in B : d = erased(b)  BY <2>2
    <3>2. PICK c \in B : e = erased(c)  BY <2>2
    <3>3. Interpolated(b.sub) = Interpolated(c.sub)
      <4>1. d.sub = b.sub /\ e.sub = c.sub  BY <1>2, <3>1, <3>2
      <4>. QED BY <4>1
    <3>4. DOMAIN d.types = DOMAIN Start /\ DOMAIN e.types = DOMAIN Start  BY <1>2, <3>1, <3>2
    <3>5. \A i \in DOMAIN Start : d.types[i] = erase(b.types[i]) /\ e.types[i] = erase(c.types[i])  BY <1>2, <3>1, <3>2
    <3>6. \A i \in DOMAIN Start : Lowered(d.types[i]) = Lowered(e.types[i])  BY <2>1, <2>2, <3>3, <3>5
    <3>. QED BY <3>4, <3>6 DEF Abi
  <2>3. CASE decl.dir # "export"
    <3>1. d \in B /\ e \in B  BY <2>3
    <3>2. DOMAIN d.types = DOMAIN Start /\ DOMAIN e.types = DOMAIN Start  BY <1>3, <3>1
    <3>3. \A i \in DOMAIN Start : Lowered(d.types[i]) = Lowered(e.types[i])  BY <2>1, <3>1
    <3>. QED BY <3>2, <3>3 DEF Abi
  <2>. QED BY <2>2, <2>3
<1>. QED BY <1>4, <1>5 DEF erased

-----------------------------------------------------------------------------
BindInv ==
  /\ phase = "substitute" => BindOf(bindings)
  /\ Expanded => NoneShowsIn(bindings) /\ OneAbiIn(bindings)

DeclInv == CheckInv /\ BindInv

(* Once there are bindings, everything before them is settled. *)
LEMMA CheckInvReady ==
  ASSUME CheckInv, phase \in Ended
  PROVE  Ready
BY DEF CheckInv, Ready, Ended, FromName, FromTags, FromReport, FromShape, FromParameters, FromSelf, FromGenerics

(* None of it depends on anything but the declaration, its groups, inputs and *)
(* symbol.                                                                    *)
LEMMA BindFramed ==
  ASSUME decl' = decl, groups' = groups, inputs' = inputs, symbol' = symbol
  PROVE  /\ \A B : BindOf(B)' <=> BindOf(B)
         /\ \A B : NoneShowsIn(B)' <=> NoneShowsIn(B)
         /\ \A B : OneAbiIn(B)' <=> OneAbiIn(B)
         /\ Start' = Start
<1>. USE DEF Names, Param, IsRuntime, Payloadless
<1>0. /\ \A ty : erase(ty)' = erase(ty)
      /\ \A ty, sub : substituted(ty, sub)' = substituted(ty, sub)
      /\ \A ty, name : SymbolExposed(ty, name)' <=> SymbolExposed(ty, name)
      /\ SignatureValues' = SignatureValues
      /\ Direct' <=> Direct
  <2>1. \A ty : erase(ty)' = erase(ty)  BY DEF erase
  <2>2. \A ty, sub : substituted(ty, sub)' = substituted(ty, sub)  BY DEF substituted
  <2>3. \A ty, name : SymbolExposed(ty, name)' <=> SymbolExposed(ty, name)  BY DEF SymbolExposed, DirectlyErased
  <2>4. SignatureValues' = SignatureValues  BY DEF SignatureValues, concretize_self, InSelf
  <2>5. Direct' <=> Direct  BY <2>4 DEF Direct, erase
  <2>. QED BY <2>1, <2>2, <2>3, <2>4, <2>5
<1>1. Start' = Start  BY <1>0 DEF Start, Erased, erase
<1>2. /\ Static' = Static
      /\ Replaced' = Replaced
  <2>1. Static' = Static
    BY DEF Static, symbol_binding_params, Positions, Scope, SymbolExposed, DirectlyErased, Lifted, OwnDispatch
  <2>2. ForEverySelection' <=> ForEverySelection
    BY DEF ForEverySelection, OwnDispatch, Scope, OuterGroups, Concretized, concretize_self, InSelf,
       impl_method_static_binding_params, symbol_binding_params, Positions, SymbolExposed, DirectlyErased
  <2>. QED BY <2>1, <2>2 DEF Replaced
<1>3. \A ty : Followed(ty)' <=> Followed(ty)
  <2>1. ForEverySelection' <=> ForEverySelection
    BY DEF ForEverySelection, OwnDispatch, Scope, OuterGroups, Concretized, concretize_self, InSelf,
       impl_method_static_binding_params, symbol_binding_params, Positions, SymbolExposed, DirectlyErased
  <2>. QED BY <1>1, <1>2, <2>1 DEF Followed, SelectedFrom
<1>4. \A ty : Opaque(ty)' <=> Opaque(ty)  BY <1>2 DEF Opaque, DirectlyErased
<1>5. \A ty, twin : Alike(ty, twin)' <=> Alike(ty, twin)  BY DEF Alike, Settled
<1>6. \A sub : IsSub(sub)' <=> IsSub(sub)  BY <1>2 DEF IsSub
<1>7. ASSUME NEW B PROVE BindOf(B)' <=> BindOf(B)
  BY <1>0, <1>1, <1>3, <1>4, <1>5, <1>6 DEF BindOf, Interpolated
<1>8. ASSUME NEW B PROVE NoneShowsIn(B)' <=> NoneShowsIn(B)
  BY DEF NoneShowsIn, LeftToRustc, SelectedFrom
<1>9. ASSUME NEW B PROVE OneAbiIn(B)' <=> OneAbiIn(B)  BY <1>0 DEF OneAbiIn, Interpolated
<1>. QED BY <1>1, <1>7, <1>8, <1>9

(* The invariant of ffi! holds at first. *)
LEMMA DeclInvInit == Init => DeclInv
<1>1. Init => BindInv  BY DEF Init, DeclIdle, DeclInit, BindInv, Expanded
<1>. QED BY <1>1, CheckInvInit DEF DeclInv

(* Every step of either macro keeps it. *)
LEMMA DeclInvNext == DeclInv /\ [Next]_vars => DeclInv'
<1>. SUFFICES ASSUME DeclInv, [Next]_vars PROVE DeclInv'  OBVIOUS
<1>1. CheckInv'  BY CheckInvNext DEF DeclInv
<1>2. BindInv'
  <2>1. CASE UNCHANGED declVars
    <3>1. decl' = decl /\ groups' = groups /\ inputs' = inputs /\ symbol' = symbol /\ bindings' = bindings /\ phase' = phase
      BY <2>1 DEF declVars
    <3>. QED BY <3>1, BindFramed DEF DeclInv, BindInv, Expanded
  <2>2. CASE phase' \notin {"substitute", "expanded"}  BY <2>2 DEF BindInv, Expanded
  <2>3. CASE static_bindings
    <3>1. /\ phase = "bind" /\ phase' = "substitute" /\ decl.dir = "export"
          /\ decl' = decl /\ groups' = groups /\ inputs' = inputs /\ symbol' = symbol
          /\ bindings' = {Binding([n \in Static |-> s[n]], SignatureValues) : s \in Selections}
      BY <2>3 DEF static_bindings, Static
    <3>2. Ready  BY <3>1, CheckInvReady DEF DeclInv, Ended
    <3> DEFINE subs == {[n \in Static |-> s[n]] : s \in Selections}
    <3>3. ASSUME NEW sub \in subs PROVE IsSub(sub)
      <4>1. PICK s \in Selections : sub = [n \in Static |-> s[n]]  OBVIOUS
      <4>2. \A n \in Static : n \in Members(groups)  BY <3>2, StaticAre DEF Static, Ready
      <4>3. \A n \in Static : s[n] \in Targets(groups, n)  BY <3>2, <4>2, SelectionsAre DEF Ready
      <4>4. Replaced = Static  BY <3>1 DEF Replaced
      <4>. QED BY <4>1, <4>3, <4>4 DEF IsSub
    <3>4. bindings' = {Binding(sub, Start) : sub \in subs}
      <4>1. Start = SignatureValues  BY <3>1 DEF Start
      <4>2. {Binding(sub, Start) : sub \in subs} = {Binding([n \in Static |-> s[n]], Start) : s \in Selections}  OBVIOUS
      <4>. QED BY <3>1, <4>1, <4>2
    <3>. HIDE DEF subs
    <3>5. BindOf(bindings')  BY <3>2, <3>3, <3>4, BindStart
    <3>. QED BY <3>1, <3>5, BindFramed DEF BindInv, Expanded
  <2>4. CASE prepare_dispatch_import
    <3>1. /\ phase = "bind" /\ phase' = "substitute" /\ decl.dir = "extern"
          /\ decl' = decl /\ groups' = groups /\ inputs' = inputs /\ symbol' = symbol
          /\ bindings' = IF ForEverySelection THEN {Binding(s, Erased(SignatureValues)) : s \in Selections}
                         ELSE {Binding(<<>>, Erased(SignatureValues))}
      BY <2>4 DEF prepare_dispatch_import
    <3>2. Ready  BY <3>1, CheckInvReady DEF DeclInv, Ended
    <3> DEFINE subs == IF ForEverySelection THEN Selections ELSE {<<>>}
    <3>3. ASSUME NEW sub \in subs PROVE IsSub(sub)
      <4>1. CASE ForEverySelection
        <5>1. Replaced = Members(groups)  BY <3>1, <4>1 DEF Replaced
        <5>. QED BY <3>2, <4>1, <5>1, SelectionsAre DEF IsSub, Ready
      <4>2. CASE ~ForEverySelection
        <5>1. Replaced = {} /\ sub = <<>>  BY <3>1, <4>2 DEF Replaced
        <5>. QED BY <5>1 DEF IsSub
      <4>. QED BY <4>1, <4>2
    <3>4. bindings' = {Binding(sub, Start) : sub \in subs}
      <4>1. Start = Erased(SignatureValues)  BY <3>1 DEF Start
      <4>. QED BY <3>1, <4>1
    <3>. HIDE DEF subs
    <3>5. BindOf(bindings')  BY <3>2, <3>3, <3>4, BindStart
    <3>. QED BY <3>1, <3>5, BindFramed DEF BindInv, Expanded
  <2>5. CASE visit_type_mut
    <3> DEFINE next == {Substituted(b) : b \in bindings}
               last == IF decl.dir = "export" THEN {[b EXCEPT !.types = Erased(@)] : b \in bindings} ELSE bindings
    <3>1. /\ phase = "substitute" /\ decl' = decl /\ groups' = groups /\ inputs' = inputs /\ symbol' = symbol
          /\ IF next # bindings THEN bindings' = next /\ phase' = phase ELSE bindings' = last /\ phase' = "expanded"
      BY <2>5 DEF visit_type_mut
    <3>2. Ready /\ BindOf(bindings)  BY <3>1, CheckInvReady DEF DeclInv, BindInv, Ended
    <3>3. CASE next # bindings
      <4>1. BindOf(bindings')  BY <3>1, <3>2, <3>3, BindStep
      <4>. QED BY <3>1, <3>3, <4>1, BindFramed DEF BindInv, Expanded
    <3>4. CASE next = bindings
      <4>1. NoneShowsIn(bindings') /\ OneAbiIn(bindings')  BY <3>1, <3>2, <3>4, BindEnd
      <4>2. phase' = "expanded"  BY <3>1, <3>4
      <4>. QED BY <3>1, <4>1, <4>2, BindFramed DEF BindInv, Expanded
    <3>. QED BY <3>3, <3>4
  <2>6. CASE DeclNext
    <3>1. CASE static_bindings \/ prepare_dispatch_import \/ visit_type_mut  BY <3>1, <2>3, <2>4, <2>5
    <3>2. CASE ~(static_bindings \/ prepare_dispatch_import \/ visit_type_mut)
      <4>1. phase' \notin {"substitute", "expanded"}
        <5>1. decl.dir \in {"export", "extern"} \/ phase # "shape"
          BY DEF DeclInv, CheckInv, Formed, DeclarationSet
        <5>. QED BY <2>6, <3>2, <5>1 DEF DeclNext, normalize, validate_method_generic_declarations, validate_packed_dyn_self_decls,
               validate_static_symbol_interpolations, validate_parameter_bindings, validate_shared, validate_export_decls,
               validate_extern_decls, validate_items, synthesize_dispatch_tag_ids_in_decls, ensure_symbol_names, Refuse, Continue
      <4>. QED BY <2>2, <4>1
    <3>. QED BY <3>1, <3>2
  <2>. QED BY <2>1, <2>6 DEF Next, vars
<1>. QED BY <1>1, <1>2 DEF DeclInv

-----------------------------------------------------------------------------
(* The inductive invariant of ffi! holds throughout every expansion. *)
THEOREM DeclInvariance == Spec => []DeclInv
<1>. QED BY DeclInvInit, DeclInvNext, PTL DEF Spec

(* What the invariant says of an expansion that is through. *)
LEMMA ExpandedConforms == DeclInv => AcceptedConforms /\ InterpolatedDecideAbi
<1>. SUFFICES ASSUME DeclInv, Expanded PROVE OneTagEach /\ SelectedOnce /\ NoneShows /\ InterpolatedDecideAbi
  BY DEF AcceptedConforms, InterpolatedDecideAbi
<1>1. Ready  BY CheckInvReady DEF DeclInv, Expanded, Ended
<1>2. OneTagEach  BY <1>1, OneTagEachHolds DEF Ready
<1>3. SelectedOnce  BY <1>1, SelectedOnceHolds DEF Ready, Accepted
<1>4. NoneShows /\ InterpolatedDecideAbi
  BY DEF DeclInv, BindInv, NoneShowsIn, OneAbiIn, NoneShows, InterpolatedDecideAbi
<1>. QED BY <1>2, <1>3, <1>4

(* Whatever is declared, in an expansion that was let through every runtime    *)
(* parameter has one tag and a static one none, no parameter is selected twice *)
(* nor, in an export, not at all, and none shows in a foreign signature but    *)
(* where rustc refuses it.                                                     *)
THEOREM ExpansionConforms == Spec => []AcceptedConforms
<1>1. DeclInv => AcceptedConforms  BY ExpandedConforms
<1>. QED BY <1>1, DeclInvariance, PTL

(* Whatever is declared and selected, and however selections are spelled, two *)
(* foreign declarations whose interpolated parameters are selected alike have  *)
(* one signature at the boundary: what is left out of a symbol decides none.   *)
THEOREM InterpolatedAlwaysDecideAbi == Spec => []InterpolatedDecideAbi
<1>1. DeclInv => InterpolatedDecideAbi  BY ExpandedConforms
<1>. QED BY <1>1, DeclInvariance, PTL

-----------------------------------------------------------------------------
(* Why the substitution ends: what one selection makes of one parameter never *)
(* leads back to it, over both scopes together.                               *)
Descends(sub) == \A S \in SUBSET DOMAIN sub : S # {} => \E name \in S : sub[name].leaf \notin S

(* A parameter placed once is selected for by the alternative of its group. *)
LEMMA SelectionPlaced ==
  ASSUME NEW gs \in Seq(GroupSet), NEW c \in Combinations(gs), NEW i \in DOMAIN gs, NEW j \in DOMAIN gs[i].params,
         NEW name, gs[i].params[j] = name, \A p, q \in Places(gs, name) : p = q
  PROVE  name \in Members(gs) /\ c[i] \in DOMAIN gs[i].targets /\ Selection(gs, c)[name] = gs[i].targets[c[i]][j]
<1>1. <<i, j>> \in Places(gs, name)  BY PlacesAre
<1>2. name \in Members(gs)  BY <1>1, PlacedIffMember
<1>3. PICK k \in DOMAIN gs : \E l \in DOMAIN gs[k].params :
         gs[k].params[l] = name /\ c[k] \in DOMAIN gs[k].targets /\ Selection(gs, c)[name] = gs[k].targets[c[k]][l]
  BY <1>2, SelectionIs
<1>4. PICK l \in DOMAIN gs[k].params :
         gs[k].params[l] = name /\ c[k] \in DOMAIN gs[k].targets /\ Selection(gs, c)[name] = gs[k].targets[c[k]][l]
  BY <1>3
<1>5. <<k, l>> \in Places(gs, name)  BY <1>4, PlacesAre
<1>6. <<k, l>> = <<i, j>>  BY <1>1, <1>5
<1>7. k = i /\ l = j  BY <1>6
<1>. QED BY <1>2, <1>4, <1>7

(* With Self replaced, a combination selects what it did, Self replaced. *)
LEMMA SelectionConcretized ==
  ASSUME Formed, NEW uses, NEW outer \in BOOLEAN, Parses(uses, outer), Groups(uses) \in Seq(GroupSet),
         NEW c \in Combinations(Concretized(Groups(uses)))
  PROVE  /\ c \in Combinations(Groups(uses))
         /\ \A name \in Members(Groups(uses)) :
              Selection(Concretized(Groups(uses)), c)[name] = concretize_self(Selection(Groups(uses), c)[name])
<1> DEFINE gs == Groups(uses)
           cs == Concretized(gs)
<1>1. /\ cs \in Seq(GroupSet) /\ DOMAIN cs = DOMAIN gs
      /\ \A i \in DOMAIN gs : cs[i].params = gs[i].params
      /\ \A i \in DOMAIN gs : DOMAIN cs[i].targets = DOMAIN gs[i].targets
      /\ \A i \in DOMAIN gs : \A t \in DOMAIN gs[i].targets :
           \A j \in DOMAIN gs[i].targets[t] : cs[i].targets[t][j] = concretize_self(gs[i].targets[t][j])
  BY ConcretizedIs
<1>2. /\ validate_dispatch_targets(gs)
      /\ \A name \in Members(gs) : \A p, q \in Places(gs, name) : p = q
      /\ \A name : Places(cs, name) = Places(gs, name)
  BY ConcretizedMembers DEF Parses, parse_dispatch_attr, parse_dispatch_group
<1>3. c \in Combinations(cs) /\ gs \in Seq(GroupSet)  OBVIOUS
<1>. HIDE DEF cs, gs
<1>4. c \in Combinations(gs)
  <2>1. {DOMAIN cs[i].targets : i \in DOMAIN cs} = {DOMAIN gs[i].targets : i \in DOMAIN gs}  BY <1>1
  <2>. QED BY <1>1, <1>3, <2>1 DEF Combinations
<1>5. ASSUME NEW name \in Members(gs) PROVE Selection(cs, c)[name] = concretize_self(Selection(gs, c)[name])
  <2>1. PICK i \in DOMAIN gs : \E j \in DOMAIN gs[i].params :
           gs[i].params[j] = name /\ c[i] \in DOMAIN gs[i].targets /\ Selection(gs, c)[name] = gs[i].targets[c[i]][j]
    BY <1>3, <1>4, SelectionIs
  <2>2. PICK j \in DOMAIN gs[i].params :
           gs[i].params[j] = name /\ c[i] \in DOMAIN gs[i].targets /\ Selection(gs, c)[name] = gs[i].targets[c[i]][j]
    BY <2>1
  <2>3. \A p, q \in Places(cs, name) : p = q  BY <1>2
  <2>4. i \in DOMAIN cs /\ j \in DOMAIN cs[i].params /\ cs[i].params[j] = name  BY <1>1, <2>2
  <2>5. Selection(cs, c)[name] = cs[i].targets[c[i]][j]  BY <1>1, <1>3, <2>3, <2>4, SelectionPlaced
  <2>6. j \in DOMAIN gs[i].targets[c[i]]
    <3>1. gs[i] \in GroupSet  BY <1>3
    <3>2. gs[i].params \in Seq(STRING) /\ gs[i].targets \in Seq(Seq(TypeSet))  BY <3>1 DEF GroupSet
    <3>3. gs[i].targets[c[i]] \in Seq(TypeSet) /\ gs[i].targets[c[i]] \in Range(gs[i].targets)  BY <2>2, <3>2 DEF Range
    <3>4. Len(gs[i].targets[c[i]]) = Len(gs[i].params)  BY <1>2, <3>3 DEF validate_dispatch_targets
    <3>. QED BY <3>2, <3>3, <3>4
  <2>. QED BY <1>1, <2>2, <2>5, <2>6
<1>. QED BY <1>4, <1>5 DEF cs, gs

(* What validate_dispatch_cycles says of the selections of its scope. *)
LEMMA ScopeDescends ==
  ASSUME Formed, NEW uses, NEW outer \in BOOLEAN, Parses(uses, outer), Groups(uses) \in Seq(GroupSet),
         NEW c \in Combinations(Concretized(Groups(uses))),
         NEW S, S \subseteq Members(Concretized(Groups(uses))), S # {}
  PROVE  \E name \in S : Selection(Concretized(Groups(uses)), c)[name].leaf \notin S
<1> DEFINE gs == Groups(uses)
           sel == Selection(gs, c)
<1>1. c \in Combinations(gs) /\ gs \in Seq(GroupSet)  BY SelectionConcretized
<1>2. Members(Concretized(gs)) = Members(gs)  BY ConcretizedMembers
<1>3. DOMAIN sel = Members(gs)  BY <1>1, SelectionIs
<1>4. S \in (SUBSET DOMAIN sel) \ {{}}
  <2>. HIDE DEF sel
  <2>. QED BY <1>2, <1>3
<1>5. PICK name \in S : \A other \in S : ~dispatch_target_mentions_param(sel[name], other)
  BY <1>1, <1>4 DEF Parses, validate_dispatch_cycles
<1>6. Selection(Concretized(gs), c)[name] = concretize_self(sel[name])  BY <1>2, SelectionConcretized
<1>. QED BY <1>5, <1>6 DEF dispatch_target_mentions_param, Mentions

(* A combination over both scopes is one of each. *)
LEMMA SelectionOfScopes ==
  ASSUME NEW g \in Seq(GroupSet), NEW h \in Seq(GroupSet), NEW c \in Combinations(g \o h),
         \A name : \A p, q \in Places(g \o h, name) : p = q
  PROVE  /\ \E d \in Combinations(g) : \A name \in Members(g) : Selection(g \o h, c)[name] = Selection(g, d)[name]
         /\ \E d \in Combinations(h) : \A name \in Members(h) : Selection(g \o h, c)[name] = Selection(h, d)[name]
<1> DEFINE gh == g \o h
           cg == [i \in DOMAIN g |-> c[i]]
           ch == [i \in DOMAIN h |-> c[Len(g) + i]]
<1>1. /\ gh \in Seq(GroupSet) /\ Len(g) \in Nat
      /\ \A i \in DOMAIN g : i \in DOMAIN gh /\ gh[i] = g[i]
      /\ \A i \in DOMAIN h : Len(g) + i \in DOMAIN gh /\ gh[Len(g) + i] = h[i]
  BY Appended
<1>2. c \in Combinations(gh) /\ \A name : \A p, q \in Places(gh, name) : p = q  OBVIOUS
<1>. HIDE DEF gh
<1>3. \A i \in DOMAIN gh : c[i] \in DOMAIN gh[i].targets  BY <1>2 DEF Combinations
<1>4. cg \in Combinations(g)
  <2>1. \A i \in DOMAIN g : cg[i] \in DOMAIN g[i].targets  BY <1>1, <1>3
  <2>2. cg \in [DOMAIN g -> UNION {DOMAIN g[i].targets : i \in DOMAIN g}]  BY <2>1
  <2>. HIDE DEF cg
  <2>. QED BY <2>1, <2>2 DEF Combinations
<1>5. ch \in Combinations(h)
  <2>1. \A i \in DOMAIN h : ch[i] \in DOMAIN h[i].targets  BY <1>1, <1>3
  <2>2. ch \in [DOMAIN h -> UNION {DOMAIN h[i].targets : i \in DOMAIN h}]  BY <2>1
  <2>. HIDE DEF ch
  <2>. QED BY <2>1, <2>2 DEF Combinations
<1>. HIDE DEF ch
<1>6. ASSUME NEW name \in Members(g) PROVE Selection(gh, c)[name] = Selection(g, cg)[name]
  <2>0. PICK i \in DOMAIN g : \E j \in DOMAIN g[i].params :
           g[i].params[j] = name /\ Selection(g, cg)[name] = g[i].targets[cg[i]][j]
    BY <1>4, SelectionIs
  <2>1. PICK j \in DOMAIN g[i].params : g[i].params[j] = name /\ Selection(g, cg)[name] = g[i].targets[cg[i]][j]
    BY <2>0
  <2>2. i \in DOMAIN gh /\ gh[i] = g[i] /\ j \in DOMAIN gh[i].params /\ gh[i].params[j] = name  BY <1>1, <2>1
  <2>4. \A p, q \in Places(gh, name) : p = q  BY <1>2
  <2>5. gh \in Seq(GroupSet) /\ c \in Combinations(gh)  BY <1>1, <1>2
  <2>6. Selection(gh, c)[name] = gh[i].targets[c[i]][j]  BY <2>2, <2>4, <2>5, SelectionPlaced
  <2>. QED BY <2>1, <2>2, <2>6
<1>7. ASSUME NEW name \in Members(h) PROVE Selection(gh, c)[name] = Selection(h, ch)[name]
  <2>0. PICK i \in DOMAIN h : \E j \in DOMAIN h[i].params :
           h[i].params[j] = name /\ Selection(h, ch)[name] = h[i].targets[ch[i]][j]
    BY <1>5, SelectionIs
  <2>1. PICK j \in DOMAIN h[i].params : h[i].params[j] = name /\ Selection(h, ch)[name] = h[i].targets[ch[i]][j]
    BY <2>0
  <2>2. PICK k \in DOMAIN gh : gh[k] = h[i] /\ ch[i] = c[k]  BY <1>1 DEF ch
  <2>3. j \in DOMAIN gh[k].params /\ gh[k].params[j] = name  BY <2>1, <2>2
  <2>4. \A p, q \in Places(gh, name) : p = q  BY <1>2
  <2>5. gh \in Seq(GroupSet) /\ c \in Combinations(gh)  BY <1>1, <1>2
  <2>6. Selection(gh, c)[name] = gh[k].targets[c[k]][j]  BY <2>2, <2>3, <2>4, <2>5, SelectionPlaced
  <2>. QED BY <2>1, <2>2, <2>6
<1>. QED BY <1>4, <1>5, <1>6, <1>7 DEF gh

(* The header of an impl does not reach the generics of its methods, not even *)
(* through Self.                                                              *)
LEMMA OuterTargets ==
  ASSUME Formed, Unshadowed, ParsedWell, NEW name, NEW ty \in Targets(OuterGroups, name)
  PROVE  ty.leaf \notin NamesOf(decl, FALSE)
<1> DEFINE gs == Groups(decl.outerUses)
           inner == NamesOf(decl, FALSE)
<1>1. gs \in Seq(GroupSet) /\ Parses(decl.outerUses, TRUE)  BY GroupsTyped DEF ParsedWell
<1>2. inner = NamesOf(decl, FALSE) \ NamesOf(decl, TRUE)  BY DEF Unshadowed
<1>3. decl.self.leaf \notin inner  BY <1>2 DEF Formed, Resolved
<1>4. PICK i \in DOMAIN OuterGroups : \E t \in DOMAIN OuterGroups[i].targets : \E j \in DOMAIN OuterGroups[i].params :
         ty = OuterGroups[i].targets[t][j]
  BY TargetIs
<1>5. PICK t \in DOMAIN OuterGroups[i].targets, j \in DOMAIN OuterGroups[i].params : ty = OuterGroups[i].targets[t][j]
  BY <1>4
<1>6. /\ i \in DOMAIN gs /\ OuterGroups[i].params = gs[i].params /\ t \in DOMAIN gs[i].targets
      /\ \A k \in DOMAIN gs[i].targets[t] : OuterGroups[i].targets[t][k] = concretize_self(gs[i].targets[t][k])
  BY <1>1, <1>4, <1>5, ConcretizedIs DEF OuterGroups
<1>7. gs[i].targets[t] \in Range(gs[i].targets) /\ j \in DOMAIN gs[i].targets[t]
  <2>1. gs[i] \in GroupSet  BY <1>1, <1>6
  <2>2. gs[i].params \in Seq(STRING) /\ gs[i].targets \in Seq(Seq(TypeSet))  BY <2>1 DEF GroupSet
  <2>3. gs[i].targets[t] \in Seq(TypeSet) /\ gs[i].targets[t] \in Range(gs[i].targets)  BY <1>6, <2>2 DEF Range
  <2>4. Len(gs[i].targets[t]) = Len(gs[i].params)
    BY <1>1, <1>6, <2>3 DEF Parses, parse_dispatch_attr, validate_dispatch_targets
  <2>. QED BY <1>5, <1>6, <2>2, <2>3, <2>4
<1>8. gs \in Range(decl.outerUses)
  <2>1. decl.outerUses \in Seq(Seq(GroupSet))  BY DEF Formed, DeclarationSet
  <2>2. decl.outerUses # <<>>  BY <1>6 DEF Groups
  <2>3. 1 \in DOMAIN decl.outerUses  BY <2>1, <2>2
  <2>. QED BY <2>2, <2>3 DEF Groups, Range
<1>9. gs[i].targets[t][j].leaf \notin inner
  <2>1. gs[i].targets[t][j] \in Range(gs[i].targets[t])  BY <1>7 DEF Range
  <2>2. \A us \in Range(decl.outerUses) : \A k \in DOMAIN us : \A s \in Range(us[k].targets) : \A u \in Range(s) :
          u.leaf \notin inner
    BY <1>2 DEF Formed, Resolved
  <2>. HIDE DEF gs, inner
  <2>. QED BY <1>6, <1>7, <1>8, <2>1, <2>2
<1>10. ty = concretize_self(gs[i].targets[t][j])  BY <1>5, <1>6, <1>7
<1>. QED BY <1>3, <1>9, <1>10 DEF concretize_self, InSelf

(* No selection over both scopes leads back, though each scope is checked by *)
(* itself: what an impl selects is not made of what its methods do.          *)
LEMMA SelectionDescends ==
  ASSUME Formed, Unshadowed, ParsedWell, NEW s \in Selections
  PROVE  DOMAIN s = Members(groups) /\ Descends(s)
<1>1. PICK c \in Combinations(groups) : s = Selection(groups, c)  BY DEF Selections
<1>2. /\ groups = OuterGroups \o InnerGroups
      /\ OuterGroups \in Seq(GroupSet) /\ InnerGroups \in Seq(GroupSet)
      /\ \A name : \A p, q \in Places(groups, name) : p = q
      /\ Members(groups) = Members(OuterGroups) \cup Members(InnerGroups)
      /\ Members(OuterGroups) \subseteq NamesOf(decl, TRUE) /\ Members(InnerGroups) \subseteq NamesOf(decl, FALSE)
  BY GroupsTyped, GroupsSelect, ScopesSelect DEF ParsedWell
<1>3. /\ \E d \in Combinations(OuterGroups) : \A name \in Members(OuterGroups) : s[name] = Selection(OuterGroups, d)[name]
      /\ \E d \in Combinations(InnerGroups) : \A name \in Members(InnerGroups) : s[name] = Selection(InnerGroups, d)[name]
  BY <1>1, <1>2, SelectionOfScopes
<1>4. PICK outer \in Combinations(OuterGroups) : \A name \in Members(OuterGroups) : s[name] = Selection(OuterGroups, outer)[name]
  BY <1>3
<1>5. PICK inner \in Combinations(InnerGroups) : \A name \in Members(InnerGroups) : s[name] = Selection(InnerGroups, inner)[name]
  BY <1>3
<1>6. DOMAIN s = Members(groups)  BY SelectionsAre
<1>7. ASSUME NEW S \in SUBSET Members(groups), S # {} PROVE \E name \in S : s[name].leaf \notin S
  <2> DEFINE T == S \cap Members(OuterGroups)
  <2>1. CASE T # {}
    <3>1. PICK name \in T : Selection(OuterGroups, outer)[name].leaf \notin T
      BY <1>2, <2>1, ScopeDescends, GroupsTyped DEF ParsedWell, OuterGroups
    <3>2. s[name].leaf \notin T  BY <1>4, <3>1
    <3>3. s[name] \in Targets(OuterGroups, name)
      <4>1. PICK i \in DOMAIN OuterGroups : \E j \in DOMAIN OuterGroups[i].params :
               /\ OuterGroups[i].params[j] = name /\ outer[i] \in DOMAIN OuterGroups[i].targets
               /\ Selection(OuterGroups, outer)[name] = OuterGroups[i].targets[outer[i]][j]
        BY <1>2, <3>1, SelectionIs
      <4>2. s[name] = Selection(OuterGroups, outer)[name]  BY <1>4, <3>1
      <4>. QED BY <4>1, <4>2, TargetIs
    <3>4. s[name].leaf \notin Members(InnerGroups)  BY <1>2, <3>3, OuterTargets
    <3>5. s[name].leaf \notin S  BY <1>2, <1>7, <3>2, <3>4
    <3>. QED BY <3>1, <3>5
  <2>2. CASE T = {}
    <3>1. S \subseteq Members(InnerGroups)  BY <1>2, <2>2
    <3>2. PICK name \in S : Selection(InnerGroups, inner)[name].leaf \notin S
      BY <1>7, <3>1, ScopeDescends, GroupsTyped DEF ParsedWell, InnerGroups
    <3>. QED BY <1>5, <3>1, <3>2
  <2>. QED BY <2>1, <2>2
<1>. QED BY <1>6, <1>7 DEF Descends
-----------------------------------------------------------------------------
(* The parameters that are replaced from a name on: the least set that it is *)
(* in, and with each of its names the one its selection is made of.           *)
Closed(sub, S) == \A name \in S : sub[name].leaf \in DOMAIN sub => sub[name].leaf \in S
Reached(sub, name) == {n \in DOMAIN sub : \A S \in SUBSET DOMAIN sub : name \in S /\ Closed(sub, S) => n \in S}

(* It is itself such a set, and within each of them. *)
LEMMA ReachedIs ==
  ASSUME NEW sub, NEW name \in DOMAIN sub
  PROVE  /\ Reached(sub, name) \subseteq DOMAIN sub /\ name \in Reached(sub, name) /\ Closed(sub, Reached(sub, name))
         /\ \A S \in SUBSET DOMAIN sub : name \in S /\ Closed(sub, S) => Reached(sub, name) \subseteq S
BY DEF Reached, Closed

(* A name is not reached from what its selection is made of, or all that lead *)
(* to it would be selections that lead back.                                  *)
LEMMA ReachedShrinks ==
  ASSUME NEW sub, Descends(sub), NEW name \in DOMAIN sub, sub[name].leaf \in DOMAIN sub
  PROVE  /\ Reached(sub, sub[name].leaf) \subseteq Reached(sub, name)
         /\ name \notin Reached(sub, sub[name].leaf)
<1> DEFINE back == {n \in DOMAIN sub : name \in Reached(sub, n)}
<1>1. Reached(sub, sub[name].leaf) \subseteq Reached(sub, name)
  <2>1. sub[name].leaf \in Reached(sub, name)  BY ReachedIs DEF Closed
  <2>. QED BY <2>1, ReachedIs
<1>2. name \in back  BY ReachedIs
<1>3. PICK n \in back : sub[n].leaf \notin back
  <2>1. back \in SUBSET DOMAIN sub /\ back # {}  BY <1>2
  <2>. HIDE DEF back
  <2>. QED BY <2>1 DEF Descends
<1>4. n = name
  <2>. SUFFICES ASSUME n # name PROVE FALSE  OBVIOUS
  <2>1. n \in DOMAIN sub /\ name \in Reached(sub, n)  OBVIOUS
  <2>2. CASE sub[n].leaf \in DOMAIN sub
    <3> DEFINE S == {n} \cup Reached(sub, sub[n].leaf)
    <3>1. S \in SUBSET DOMAIN sub /\ n \in S /\ Closed(sub, S)
      <4>1. /\ Reached(sub, sub[n].leaf) \subseteq DOMAIN sub /\ sub[n].leaf \in Reached(sub, sub[n].leaf)
            /\ Closed(sub, Reached(sub, sub[n].leaf))
        BY <2>2, ReachedIs
      <4>. QED BY <2>1, <4>1 DEF Closed
    <3>2. Reached(sub, n) \subseteq S  BY <2>1, <3>1, ReachedIs
    <3>3. name \in Reached(sub, sub[n].leaf)  BY <2>1, <3>2
    <3>. QED BY <1>3, <2>2, <3>3
  <2>3. CASE sub[n].leaf \notin DOMAIN sub
    <3>1. {n} \in SUBSET DOMAIN sub /\ Closed(sub, {n})  BY <2>1, <2>3 DEF Closed
    <3>2. Reached(sub, n) \subseteq {n}  BY <2>1, <3>1, ReachedIs
    <3>. QED BY <2>1, <3>2
  <2>. QED BY <2>2, <2>3
<1>. QED BY <1>1, <1>3, <1>4

(* The parameters still to be replaced in a type. *)
Trail(ty, sub) == IF ty.path = "selected" \/ ty.leaf \notin DOMAIN sub THEN {} ELSE Reached(sub, ty.leaf)

(* Every substitution leaves fewer. *)
LEMMA TrailShrinks ==
  ASSUME Formed, Unshadowed, ParsedWell, NEW ty \in AnyType, NEW sub, IsSub(sub), Descends(sub)
  PROVE  /\ Trail(ty, sub) \subseteq Replaced
         /\ Trail(ty, sub) = {} => substituted(ty, sub) = ty
         /\ Trail(ty, sub) # {} => /\ Trail(substituted(ty, sub), sub) \subseteq Trail(ty, sub)
                                  /\ Trail(substituted(ty, sub), sub) # Trail(ty, sub)
<1>0. DOMAIN sub = Replaced  BY DEF IsSub
<1>1. CASE ty.path = "selected" \/ ty.leaf \notin Replaced
  BY <1>0, <1>1, SubstitutedIs DEF Trail
<1>2. CASE ty.path # "selected" /\ ty.leaf \in Replaced
  <2> DEFINE new == substituted(ty, sub)
  <2>1. new.leaf = sub[ty.leaf].leaf  BY <1>2, SubstitutedIs
  <2>2. /\ Trail(ty, sub) = Reached(sub, ty.leaf) /\ ty.leaf \in Trail(ty, sub) /\ Trail(ty, sub) \subseteq Replaced
    BY <1>0, <1>2, ReachedIs DEF Trail
  <2>. HIDE DEF new
  <2>3. Trail(new, sub) \subseteq Trail(ty, sub) /\ ty.leaf \notin Trail(new, sub)
    <3>1. CASE new.path = "selected" \/ new.leaf \notin DOMAIN sub  BY <3>1 DEF Trail
    <3>2. CASE new.path # "selected" /\ new.leaf \in DOMAIN sub
      <4>1. Trail(new, sub) = Reached(sub, sub[ty.leaf].leaf)  BY <2>1, <3>2 DEF Trail
      <4>. QED BY <1>0, <1>2, <2>1, <2>2, <3>2, <4>1, ReachedShrinks
    <3>. QED BY <3>1, <3>2
  <2>. QED BY <2>2, <2>3 DEF new
<1>. QED BY <1>1, <1>2

(* So it is with the selection of every binding, whose types are a function. *)
Descending(B) == \A b \in B : Descends(b.sub) /\ b.types = [i \in DOMAIN b.types |-> b.types[i]]

(* How many rounds the types of the bindings still take. *)
Rounds(B) == {0} \cup {Cardinality(Trail(b.types[i], b.sub)) : b \in B, i \in DOMAIN Start}
Longest(B) == CHOOSE n \in Rounds(B) : \A m \in Rounds(B) : m <= n

(* One trail is a set of the parameters there are. *)
LEMMA TrailCounted ==
  ASSUME Ready, NEW B, BindOf(B), Descending(B)
  PROVE  /\ IsFiniteSet(Replaced)
         /\ \A b \in B : \A i \in DOMAIN Start :
              /\ IsFiniteSet(Trail(b.types[i], b.sub))
              /\ Cardinality(Trail(b.types[i], b.sub)) \in 0..Cardinality(Replaced)
<1>1. IsFiniteSet(Replaced)
  <2>1. TRUE \in BOOLEAN  OBVIOUS
  <2>2. IsFiniteSet(Names)  BY <2>1, RuntimeNames DEF Ready
  <2>. QED BY <2>2, ReplacedAre, FS_Subset DEF Ready
<1>2. ASSUME NEW b \in B, NEW i \in DOMAIN Start
      PROVE  /\ IsFiniteSet(Trail(b.types[i], b.sub))
             /\ Cardinality(Trail(b.types[i], b.sub)) \in 0..Cardinality(Replaced)
  <2>1. Trail(b.types[i], b.sub) \subseteq Replaced  BY TrailShrinks DEF BindOf, Ready, Descending
  <2>2. /\ IsFiniteSet(Trail(b.types[i], b.sub))
        /\ Cardinality(Trail(b.types[i], b.sub)) <= Cardinality(Replaced)
    BY <1>1, <2>1, FS_Subset
  <2>3. Cardinality(Trail(b.types[i], b.sub)) \in Nat /\ Cardinality(Replaced) \in Nat
    BY <1>1, <2>2, FS_CardinalityType
  <2>. QED BY <2>2, <2>3
<1>. QED BY <1>1, <1>2

(* So that there is a longest. *)
LEMMA LongestIs ==
  ASSUME Ready, NEW B, BindOf(B), Descending(B)
  PROVE  /\ Longest(B) \in Nat /\ Longest(B) \in Rounds(B)
         /\ \A b \in B : \A i \in DOMAIN Start : Cardinality(Trail(b.types[i], b.sub)) <= Longest(B)
<1> DEFINE n == Cardinality(Replaced)
           above == {m + 1 : m \in Rounds(B)}
<1>1. n \in Nat  BY TrailCounted, FS_CardinalityType
<1>2. Rounds(B) \subseteq 0..n
  <2>1. \A b \in B : \A i \in DOMAIN Start : Cardinality(Trail(b.types[i], b.sub)) \in 0..n  BY TrailCounted
  <2>. HIDE DEF n
  <2>. QED BY <1>1, <2>1 DEF Rounds
<1>3. 0 \in Rounds(B)  BY DEF Rounds
<1>. HIDE DEF n
<1>4. above \subseteq 1..(n + 1) /\ above # {}  BY <1>1, <1>2, <1>3
<1>5. PICK x \in above : \A y \in above : y <= x
  <2> DEFINE top == n + 1
  <2>1. top \in Nat /\ above \subseteq 1..top /\ above # {}  BY <1>1, <1>4
  <2>. HIDE DEF above, top
  <2>. QED BY <2>1, Greatest
<1>6. PICK m \in Rounds(B) : x = m + 1  OBVIOUS
<1>7. \A k \in Rounds(B) : k <= m
  <2>. SUFFICES ASSUME NEW k \in Rounds(B) PROVE k <= m  OBVIOUS
  <2>1. k + 1 \in above  OBVIOUS
  <2>2. k + 1 <= m + 1  BY <1>5, <1>6, <2>1
  <2>. QED BY <1>1, <1>2, <2>2
<1>8. Longest(B) \in Rounds(B) /\ \A k \in Rounds(B) : k <= Longest(B)  BY <1>6, <1>7 DEF Longest
<1>9. \A b \in B : \A i \in DOMAIN Start : Cardinality(Trail(b.types[i], b.sub)) \in Rounds(B)  BY DEF Rounds
<1>. QED BY <1>1, <1>2, <1>8, <1>9

(* A round that changes a binding leaves fewer to be made. *)
LEMMA LongestShrinks ==
  ASSUME Ready, NEW B, BindOf(B), Descending(B), {Substituted(b) : b \in B} # B
  PROVE  Longest({Substituted(b) : b \in B}) < Longest(B)
<1> DEFINE next == {Substituted(b) : b \in B}
<1>1. \A b \in B : /\ Substituted(b).sub = b.sub
                   /\ Substituted(b).types = [i \in DOMAIN Start |-> substituted(b.types[i], b.sub)]
                   /\ Substituted(b) = [symbol |-> b.symbol, sub |-> b.sub,
                                       types |-> [i \in DOMAIN Start |-> substituted(b.types[i], b.sub)]]
  BY BindingsSubstituted
<1>2. BindOf(next) /\ Descending(next)
  <2>1. BindOf(next)  BY BindStep
  <2>2. ASSUME NEW b \in B
        PROVE  /\ Descends(Substituted(b).sub)
               /\ Substituted(b).types = [i \in DOMAIN Substituted(b).types |-> Substituted(b).types[i]]
    <3>1. Descends(b.sub)  BY DEF Descending
    <3>. QED BY <1>1, <3>1
  <2>. QED BY <2>1, <2>2 DEF Descending
<1>3. \A b \in B : /\ b = [symbol |-> b.symbol, sub |-> b.sub, types |-> b.types]
                   /\ DOMAIN b.types = DOMAIN Start /\ IsSub(b.sub)
                   /\ \A i \in DOMAIN Start : b.types[i] \in AnyType
                   /\ Descends(b.sub) /\ b.types = [i \in DOMAIN b.types |-> b.types[i]]
  BY DEF BindOf, Descending
(* Some binding has a parameter left. *)
<1>4. PICK b \in B : \E i \in DOMAIN Start : Trail(b.types[i], b.sub) # {}
  <2>. SUFFICES ASSUME \A b \in B : \A i \in DOMAIN Start : Trail(b.types[i], b.sub) = {} PROVE FALSE  OBVIOUS
  <2>1. ASSUME NEW b \in B PROVE Substituted(b) = b
    <3>1. ASSUME NEW i \in DOMAIN Start PROVE substituted(b.types[i], b.sub) = b.types[i]
      <4>1. b.types[i] \in AnyType /\ IsSub(b.sub) /\ Descends(b.sub)  BY <1>3, <2>1, <3>1
      <4>2. Trail(b.types[i], b.sub) = {}  BY <2>1, <3>1
      <4>3. Formed /\ Unshadowed /\ ParsedWell  BY DEF Ready
      <4>. QED BY <4>1, <4>2, <4>3, TrailShrinks
    <3>2. [i \in DOMAIN Start |-> substituted(b.types[i], b.sub)] = [i \in DOMAIN Start |-> b.types[i]]  BY <3>1
    <3>3. Substituted(b) = [symbol |-> b.symbol, sub |-> b.sub, types |-> [i \in DOMAIN Start |-> b.types[i]]]
      BY <1>1, <3>2
    <3>4. b.types = [i \in DOMAIN Start |-> b.types[i]]  BY <1>3, <2>1
    <3>. QED BY <1>3, <2>1, <3>3, <3>4
  <2>. QED BY <2>1
<1>5. PICK i \in DOMAIN Start : Trail(b.types[i], b.sub) # {}  BY <1>4
<1>6. Longest(B) \in Nat /\ Longest(B) > 0
  <2>1. IsFiniteSet(Trail(b.types[i], b.sub)) /\ Cardinality(Trail(b.types[i], b.sub)) \in Nat
    BY TrailCounted, FS_CardinalityType
  <2>2. Cardinality(Trail(b.types[i], b.sub)) # 0  BY <1>5, <2>1, FS_EmptySet
  <2>3. Cardinality(Trail(b.types[i], b.sub)) <= Longest(B) /\ Longest(B) \in Nat  BY LongestIs
  <2>. QED BY <2>1, <2>2, <2>3
<1>7. ASSUME NEW d \in next, NEW k \in DOMAIN Start PROVE Cardinality(Trail(d.types[k], d.sub)) < Longest(B)
  <2>1. PICK c \in B : d = Substituted(c)  OBVIOUS
  <2>2. d.sub = c.sub /\ d.types[k] = substituted(c.types[k], c.sub)  BY <1>1, <1>7, <2>1
  <2> DEFINE old == Trail(c.types[k], c.sub)
             new == Trail(d.types[k], d.sub)
  <2>3. c.types[k] \in AnyType /\ IsSub(c.sub) /\ Descends(c.sub)  BY <1>3, <1>7
  <2>4. /\ old = {} => new = {}
        /\ old # {} => new \subseteq old /\ new # old
    BY <2>2, <2>3, TrailShrinks DEF Ready
  <2>5. IsFiniteSet(old) /\ Cardinality(old) \in Nat /\ Cardinality(old) <= Longest(B)
    BY <1>7, TrailCounted, LongestIs
  <2>. HIDE DEF old, new
  <2>6. CASE old = {}
    <3>1. Cardinality(new) = 0  BY <2>4, <2>6, FS_EmptySet
    <3>. QED BY <1>6, <3>1 DEF new
  <2>7. CASE old # {}
    <3>1. Cardinality(new) <= Cardinality(old) /\ Cardinality(new) # Cardinality(old) /\ IsFiniteSet(new)
      BY <2>4, <2>5, <2>7, FS_Subset
    <3>2. Cardinality(new) \in Nat  BY <3>1, FS_CardinalityType
    <3>. QED BY <1>6, <2>5, <3>1, <3>2 DEF new
  <2>. QED BY <2>6, <2>7
<1>8. Longest(next) \in Rounds(next)  BY <1>2, LongestIs
<1>. HIDE DEF next
<1>9. Longest(next) = 0 \/ \E d \in next : \E k \in DOMAIN Start : Longest(next) = Cardinality(Trail(d.types[k], d.sub))
  BY <1>8 DEF Rounds
<1>10. Longest(next) < Longest(B)  BY <1>6, <1>7, <1>9
<1>. QED BY <1>10 DEF next
-----------------------------------------------------------------------------
(* No selection that is being substituted leads back. *)
DescendInv == phase = "substitute" => Descending(bindings)

(* Every step keeps it: it begins with the selections, and a round leaves *)
(* them as they are.                                                      *)
LEMMA DescendInvNext == DeclInv /\ DescendInv /\ [Next]_vars => DescendInv'
<1>. SUFFICES ASSUME DeclInv, DescendInv, [Next]_vars, phase' = "substitute" PROVE Descending(bindings')
  BY DEF DescendInv, Descending, Descends
<1>1. CASE UNCHANGED declVars
  <2>1. phase' = phase /\ bindings' = bindings  BY <1>1 DEF declVars
  <2>. QED BY <2>1 DEF DescendInv
<1>2. CASE static_bindings
  <2>1. phase = "bind" /\ bindings' = {Binding([n \in Static |-> s[n]], SignatureValues) : s \in Selections}
    BY <1>2 DEF static_bindings, Static
  <2>2. Formed /\ Unshadowed /\ ParsedWell  BY <2>1, CheckInvReady DEF DeclInv, Ended, Ready
  <2>3. ASSUME NEW s \in Selections PROVE Descends([n \in Static |-> s[n]])
    <3>1. DOMAIN s = Members(groups) /\ Descends(s)  BY <2>2, SelectionDescends
    <3>2. Static \subseteq Members(groups)  BY <2>2, StaticAre DEF Static
    <3>. QED BY <3>1, <3>2 DEF Descends
  <2>4. SignatureValues = [i \in DOMAIN SignatureValues |-> SignatureValues[i]]  BY DEF SignatureValues
  <2> DEFINE types == SignatureValues
  <2>. HIDE DEF types
  <2>5. ASSUME NEW b \in bindings' PROVE Descends(b.sub) /\ b.types = types
    <3>1. PICK s \in Selections : b = Binding([n \in Static |-> s[n]], types)  BY <2>1 DEF types
    <3>2. b.sub = [n \in Static |-> s[n]] /\ b.types = types  BY <3>1 DEF Binding
    <3>3. Descends([n \in Static |-> s[n]])  BY <2>3
    <3>. QED BY <3>2, <3>3
  <2>6. types = [i \in DOMAIN types |-> types[i]]  BY <2>4 DEF types
  <2>. QED BY <2>5, <2>6 DEF Descending
<1>3. CASE prepare_dispatch_import
  <2>1. /\ phase = "bind"
        /\ bindings' = IF ForEverySelection THEN {Binding(s, Erased(SignatureValues)) : s \in Selections}
                       ELSE {Binding(<<>>, Erased(SignatureValues))}
    BY <1>3 DEF prepare_dispatch_import
  <2>2. Formed /\ Unshadowed /\ ParsedWell  BY <2>1, CheckInvReady DEF DeclInv, Ended, Ready
  <2>3. \A s \in Selections : Descends(s)  BY <2>2, SelectionDescends
  <2>4. Descends(<<>>)
    <3>1. DOMAIN <<>> = {}  OBVIOUS
    <3>. QED BY <3>1 DEF Descends
  <2> DEFINE types == Erased(SignatureValues)
  <2>5. types = [i \in DOMAIN types |-> types[i]]  BY DEF Erased
  <2>. HIDE DEF types
  <2>6. \A b \in bindings' : Descends(b.sub) /\ b.types = types
    BY <2>1, <2>3, <2>4 DEF Binding, types
  <2>. QED BY <2>5, <2>6 DEF Descending
<1>4. CASE visit_type_mut
  <2>1. phase = "substitute" /\ bindings' = {Substituted(b) : b \in bindings}  BY <1>4 DEF visit_type_mut
  <2>2. BindOf(bindings) /\ Descending(bindings)  BY <2>1 DEF DeclInv, BindInv, DescendInv
  <2>3. ASSUME NEW b \in bindings
        PROVE  /\ Descends(Substituted(b).sub)
               /\ Substituted(b).types = [i \in DOMAIN Substituted(b).types |-> Substituted(b).types[i]]
    <3>1. Descends(b.sub)  BY <2>2 DEF Descending
    <3>2. /\ Substituted(b).sub = b.sub
          /\ Substituted(b).types = [i \in DOMAIN Start |-> substituted(b.types[i], b.sub)]
      BY <2>2, BindingsSubstituted
    <3>. QED BY <3>1, <3>2
  <2>. QED BY <2>1, <2>3 DEF Descending
<1>5. CASE DeclNext /\ ~(static_bindings \/ prepare_dispatch_import \/ visit_type_mut)
  <2>1. decl.dir \in {"export", "extern"} \/ phase # "shape"  BY DEF DeclInv, CheckInv, Formed, DeclarationSet
  <2>. QED BY <1>5, <2>1 DEF DeclNext, normalize, validate_method_generic_declarations, validate_packed_dyn_self_decls,
         validate_static_symbol_interpolations, validate_parameter_bindings, validate_shared, validate_export_decls,
         validate_extern_decls, validate_items, synthesize_dispatch_tag_ids_in_decls, ensure_symbol_names, Refuse, Continue
<1>. QED BY <1>1, <1>2, <1>3, <1>4, <1>5 DEF Next, vars

(* The order of the passes. *)
PhaseAt(p) == CASE p = "parse" -> 1
                [] p = "generics" -> 2
                [] p = "self" -> 3
                [] p = "symbols" -> 4
                [] p = "parameters" -> 5
                [] p = "shape" -> 6
                [] p \in {"export", "extern"} -> 7
                [] p = "report" -> 8
                [] p = "tags" -> 9
                [] p = "name" -> 10
                [] p = "bind" -> 11
                [] p = "substitute" -> 12
                [] p \in {"expanded", "rejected"} -> 13
                [] OTHER -> 0

(* A step ends its pass, or leaves fewer parameters to be replaced. *)
DeclForward ==
  \/ PhaseAt(phase) < PhaseAt(phase')
  \/ /\ phase = "substitute" /\ phase' = phase
     /\ Longest(bindings) \in Nat /\ Longest(bindings)' \in Nat /\ Longest(bindings)' < Longest(bindings)

(* One step of the proof per pass. *)
LEMMA DeclStep ==
  ASSUME DeclInv, DescendInv, DeclNext, [Next]_vars
  PROVE  DeclForward
<1>1. CASE normalize
  <2>1. phase = "parse" /\ phase' \in {"generics", "rejected"}  BY <1>1 DEF normalize, Refuse
  <2>. QED BY <2>1 DEF DeclForward, PhaseAt
<1>2. CASE validate_method_generic_declarations
  <2>1. phase = "generics" /\ phase' \in {"self", "rejected"}
    BY <1>2 DEF validate_method_generic_declarations, Refuse, Continue
  <2>. QED BY <2>1 DEF DeclForward, PhaseAt
<1>3. CASE validate_packed_dyn_self_decls  BY <1>3 DEF validate_packed_dyn_self_decls, Continue, DeclForward, PhaseAt
<1>4. CASE validate_static_symbol_interpolations \/ validate_parameter_bindings
  <2>1. \/ phase = "symbols" /\ phase' = "parameters"
        \/ phase = "parameters" /\ phase' = "shape"
    BY <1>4 DEF validate_static_symbol_interpolations, validate_parameter_bindings, Continue
  <2>. QED BY <2>1 DEF DeclForward, PhaseAt
<1>5. CASE validate_shared
  <2>1. phase = "shape" /\ phase' = decl.dir  BY <1>5 DEF validate_shared, Continue
  <2>2. decl.dir \in {"export", "extern"}  BY <2>1 DEF DeclInv, CheckInv, Formed, DeclarationSet
  <2>. QED BY <2>1, <2>2 DEF DeclForward, PhaseAt
<1>6. CASE validate_export_decls \/ validate_extern_decls \/ validate_items
  BY <1>6 DEF validate_export_decls, validate_extern_decls, validate_items, Refuse, Continue, DeclForward, PhaseAt
<1>7. CASE synthesize_dispatch_tag_ids_in_decls \/ ensure_symbol_names
  <2>1. \/ phase = "tags" /\ phase' = "name"
        \/ phase = "name" /\ phase' = "bind"
    BY <1>7 DEF synthesize_dispatch_tag_ids_in_decls, ensure_symbol_names
  <2>. QED BY <2>1 DEF DeclForward, PhaseAt
<1>8. CASE static_bindings \/ prepare_dispatch_import
  <2>1. phase = "bind" /\ phase' = "substitute"  BY <1>8 DEF static_bindings, prepare_dispatch_import
  <2>. QED BY <2>1 DEF DeclForward, PhaseAt
<1>9. CASE visit_type_mut
  <2> DEFINE next == {Substituted(b) : b \in bindings}
  <2>1. /\ phase = "substitute" /\ decl' = decl /\ groups' = groups /\ inputs' = inputs /\ symbol' = symbol
        /\ (next # bindings /\ bindings' = next /\ phase' = phase) \/ phase' = "expanded"
    BY <1>9 DEF visit_type_mut
  <2>2. CASE next # bindings /\ bindings' = next /\ phase' = phase
    <3>1. Ready /\ BindOf(bindings) /\ Descending(bindings)
      BY <2>1, CheckInvReady DEF DeclInv, BindInv, DescendInv, Ended
    <3>2. Longest(bindings') < Longest(bindings)  BY <2>2, <3>1, LongestShrinks
    <3>3. Longest(bindings) \in Nat  BY <3>1, LongestIs
    <3>4. Longest(bindings') \in Nat
      <4>1. BindOf(bindings')  BY <2>2, <3>1, BindStep
      <4>2. Descending(bindings')
        <5>1. DescendInv' BY DeclInvNext, DescendInvNext
        <5>. QED BY <5>1, <2>1, <2>2 DEF DescendInv
      <4>. QED BY <3>1, <4>1, <4>2, LongestIs
    <3>5. Longest(bindings)' = Longest(bindings')
      <4>1. Start' = Start  BY <2>1, BindFramed
      <4>. QED BY <4>1 DEF Longest, Rounds, Trail, Reached, Closed
    <3>. QED BY <2>1, <2>2, <3>2, <3>3, <3>4, <3>5 DEF DeclForward
  <2>3. CASE phase' = "expanded"  BY <2>1, <2>3 DEF DeclForward, PhaseAt
  <2>. QED BY <2>1, <2>2, <2>3
<1>. QED BY <1>1, <1>2, <1>3, <1>4, <1>5, <1>6, <1>7, <1>8, <1>9 DEF DeclNext

(* No pass of ffi! is made twice, and substituting the selections ends: each *)
(* round leaves a binding fewer parameters to be replaced, although both     *)
(* scopes are substituted together and checked for cycles one by one.        *)
THEOREM DeclAdvances == Spec => [][DeclForward]_declVars
<1>1. Init => DescendInv  BY DEF Init, DeclIdle, DeclInit, DescendInv
<1>2. DeclInv /\ DescendInv /\ [Next]_vars => [DeclForward]_declVars
  <2>. SUFFICES ASSUME DeclInv, DescendInv, DeclNext, [Next]_vars PROVE DeclForward
    BY DEF Next, vars
  <2>. QED BY DeclStep
<1>. QED BY <1>1, <1>2, DeclInvariance, DescendInvNext, PTL DEF Spec
=============================================================================
