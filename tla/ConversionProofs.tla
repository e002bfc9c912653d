--------------------------- MODULE ConversionProofs ---------------------------
(***************************************************************************)
(* Proofs about the exchange of one owned value, for every owned type.     *)
(*                                                                         *)
(* A type is owned when it reaches no reference.  Universe stands for any  *)
(* set of owned types closed under parameters, and Rank for their depth,   *)
(* so that an induction over types is one over Rank.  Setting says that    *)
(* the constants of the model are what their rules make of them, on the    *)
(* types of Universe and on the values and carriers of these types only.   *)
(*                                                                         *)
(* What every conversion keeps is Moved: what it allocates lies under the  *)
(* address it was given, it frees only what it was given or allocated, and *)
(* the node it answers owns exactly what remains, each allocation once.    *)
(***************************************************************************)
EXTENDS Exchange, TLAPS, WellFoundedInduction, NaturalsInduction, SequenceTheorems

(* Any set of owned types with all their parameters, and the depth of each. *)
CONSTANTS Universe, Rank

(* No content is kept from being dropped: ManuallyDrop drops nothing, so *)
(* what it owns is owned by nobody.                                      *)
NoManual == \A t \in Universe : t.k # "md"

(* What the answer `r` of converting `w` at the address `p` does with *)
(* allocations.                                                       *)
Moved(w, p, r) ==
  /\ r.new \subseteq Under(p)
  /\ r.old \subseteq Allocs(w) \cup r.new
  /\ r.ok => Allocs(r.n) = (Allocs(w) \cup r.new) \ r.old /\ Sole(r.n)
  /\ ~r.ok /\ NoManual => r.new \subseteq r.old

(* Allocs and Sole are what their rules say, of every node. *)
Reading == \A n : Allocs(n) = AllocsRule(n) /\ Sole(n) = SoleRule(n)

(* The addresses of component i: they lie under the whole's and tell i. *)
LEMMA UnderAppend ==
  ASSUME NEW p \in Seq(Nat), NEW i \in Nat
  PROVE  /\ Append(p, i) \in Seq(Nat)
         /\ Under(Append(p, i)) \subseteq Under(p)
         /\ Append(p, i) \in Under(p)
         /\ \A a \in Under(Append(p, i)) : Len(p) + 1 <= Len(a) /\ a[Len(p) + 1] = i
<1>1. Append(p, i) \in Seq(Nat) /\ Len(Append(p, i)) = Len(p) + 1 /\ Append(p, i)[Len(p) + 1] = i
      /\ \A j \in 1..Len(p) : Append(p, i)[j] = p[j]
  OBVIOUS
<1>2. Len(p) \in Nat OBVIOUS
<1> DEFINE q == Append(p, i)
<1>3. q \in Seq(Nat) /\ Len(q) = Len(p) + 1 /\ q[Len(p) + 1] = i /\ \A j \in 1..Len(p) : q[j] = p[j]
  BY <1>1
<1> HIDE DEF q
<1>4. ASSUME NEW a \in Under(q) PROVE a \in Under(p) /\ Len(p) + 1 <= Len(a) /\ a[Len(p) + 1] = i
  <2>1. a \in Seq(Nat) /\ Len(q) <= Len(a) /\ \A j \in 1..Len(q) : a[j] = q[j] BY DEF Under
  <2>2. Len(a) \in Nat BY <2>1
  <2> QED BY <1>2, <1>3, <2>1, <2>2 DEF Under
<1>5. q \in Under(p)
  BY <1>2, <1>3 DEF Under
<1> QED BY <1>3, <1>4, <1>5 DEF q

(* Two components of one conversion never allocate at the same address. *)
LEMMA Apart ==
  ASSUME NEW p \in Seq(Nat), NEW i \in Nat, NEW j \in Nat, i # j
  PROVE  Under(Append(p, i)) \cap Under(Append(p, j)) = {}
  BY UnderAppend

(* The allocation of a box or vector is at none of its components' *)
(* addresses, and is no null pointer.                              *)
LEMMA HomeApart ==
  ASSUME NEW p \in Seq(Nat), NEW i \in Nat, i # 0
  PROVE  Home(p) \notin Under(Append(p, i)) /\ Home(p) \in Under(p) /\ Home(p) # NoAddr
<1> DEFINE h == Append(p, 0)
<1>1. h \in Seq(Nat) /\ Len(h) = Len(p) + 1 /\ h[Len(p) + 1] = 0 /\ Len(p) \in Nat
  OBVIOUS
<1>2. h \in Under(p) BY UnderAppend
<1> HIDE DEF h
<1>3. h # <<>> BY <1>1
<1>4. h \notin Under(Append(p, i)) BY <1>1, UnderAppend
<1> QED BY <1>2, <1>3, <1>4 DEF Home, NoAddr, h

(* Removing from disjoint sets what is removed from each is removing it all *)
(* from their union.                                                        *)
LEMMA Gather ==
  ASSUME NEW K, NEW C, NEW O,
         \A i \in K : O[i] \subseteq C[i],
         \A i, j \in K : i # j => C[i] \cap C[j] = {}
  PROVE  UNION {C[i] \ O[i] : i \in K} = (UNION {C[i] : i \in K}) \ UNION {O[i] : i \in K}
<1>1. ASSUME NEW a \in UNION {C[i] \ O[i] : i \in K}
      PROVE  a \in (UNION {C[i] : i \in K}) \ UNION {O[i] : i \in K}
  <2>1. PICK i \in K : a \in C[i] \ O[i] OBVIOUS
  <2>2. ASSUME NEW j \in K, a \in O[j] PROVE FALSE
    <3>1. a \in C[j] /\ j # i BY <2>1, <2>2
    <3> QED BY <2>1, <3>1
  <2> QED BY <2>1, <2>2
<1>2. ASSUME NEW a \in (UNION {C[i] : i \in K}) \ UNION {O[i] : i \in K}
      PROVE  a \in UNION {C[i] \ O[i] : i \in K}
  OBVIOUS
<1> QED BY <1>1, <1>2

(* Components converted one after the other neither share what they       *)
(* allocate, nor free what is another's, nor lose anything: together they *)
(* own what they were given and made, less what they freed.               *)
LEMMA PartsConserve ==
  ASSUME Reading, NEW p \in Seq(Nat), NEW w, NEW rs,
         DOMAIN rs = DOMAIN w.s, DOMAIN w.s \subseteq Nat \ {0},
         w.x \notin {"ref", "mut"}, Sole(w), Avoids(w, p),
         \A i \in DOMAIN w.s : Moved(w.s[i], Append(p, i), rs[i])
  PROVE  /\ News(rs) \subseteq Under(p) /\ Home(p) \notin News(rs)
         /\ Olds(rs) \subseteq Below(w) \cup News(rs)
         /\ (\A i \in DOMAIN rs : rs[i].ok) =>
              /\ UNION {Allocs(rs[i].n) : i \in DOMAIN rs} = (Below(w) \cup News(rs)) \ Olds(rs)
              /\ \A i, j \in DOMAIN rs : i # j => Allocs(rs[i].n) \cap Allocs(rs[j].n) = {}
              /\ \A i \in DOMAIN rs : Sole(rs[i].n)
<1> DEFINE K == DOMAIN w.s
           C == [i \in K |-> Allocs(w.s[i]) \cup rs[i].new]
           O == [i \in K |-> rs[i].old]
<1>1. Allocs(w) = Here(w) \cup Below(w) /\ \A i, j \in K : i # j => Allocs(w.s[i]) \cap Allocs(w.s[j]) = {}
  BY DEF Reading, AllocsRule, SoleRule
<1>2. \A i \in K : Allocs(w.s[i]) \subseteq Below(w)
  BY DEF Below
<1>3. \A a \in Below(w) : a \notin Under(p)
  BY <1>1 DEF Avoids
<1>4. \A i \in K : rs[i].new \subseteq Under(Append(p, i)) /\ rs[i].new \subseteq Under(p)
                   /\ Home(p) \notin rs[i].new /\ O[i] \subseteq C[i]
  BY UnderAppend, HomeApart DEF Moved
<1>5. \A i, j \in K : i # j => C[i] \cap C[j] = {}
  <2> SUFFICES ASSUME NEW i \in K, NEW j \in K, i # j PROVE C[i] \cap C[j] = {}
    OBVIOUS
  <2>1. rs[i].new \cap rs[j].new = {} BY <1>4, Apart
  <2>2. Allocs(w.s[i]) \cap Allocs(w.s[j]) = {} BY <1>1
  <2>3. Allocs(w.s[i]) \cap rs[j].new = {} /\ Allocs(w.s[j]) \cap rs[i].new = {} BY <1>2, <1>3, <1>4
  <2> QED BY <2>1, <2>2, <2>3
<1>6. UNION {C[i] : i \in K} = Below(w) \cup News(rs)
  <2>1. \A a : a \in UNION {C[i] : i \in K} <=> \E i \in K : a \in Allocs(w.s[i]) \/ a \in rs[i].new
    <3>1. \A i \in K : C[i] = Allocs(w.s[i]) \cup rs[i].new OBVIOUS
    <3> HIDE DEF C, K
    <3> QED BY <3>1
  <2>2. \A a : a \in Below(w) \cup News(rs) <=> \E i \in K : a \in Allocs(w.s[i]) \/ a \in rs[i].new
    BY DEF Below, News
  <2> QED BY <2>1, <2>2
<1>7. UNION {O[i] : i \in K} = Olds(rs)
  BY DEF Olds
<1>8. News(rs) \subseteq Under(p) /\ Home(p) \notin News(rs)
  BY <1>4 DEF News
<1>9. Olds(rs) \subseteq Below(w) \cup News(rs)
  <2>1. UNION {O[i] : i \in K} \subseteq UNION {C[i] : i \in K} BY <1>4
  <2> QED BY <2>1, <1>6, <1>7
<1>10. ASSUME \A i \in DOMAIN rs : rs[i].ok
       PROVE  /\ UNION {Allocs(rs[i].n) : i \in DOMAIN rs} = (Below(w) \cup News(rs)) \ Olds(rs)
              /\ \A i, j \in DOMAIN rs : i # j => Allocs(rs[i].n) \cap Allocs(rs[j].n) = {}
              /\ \A i \in DOMAIN rs : Sole(rs[i].n)
  <2>1. \A i \in K : Allocs(rs[i].n) = C[i] \ O[i] /\ Sole(rs[i].n)
    BY <1>10 DEF Moved
  <2>2. UNION {Allocs(rs[i].n) : i \in DOMAIN rs} = UNION {C[i] \ O[i] : i \in K}
    <3>1. {Allocs(rs[i].n) : i \in DOMAIN rs} = {C[i] \ O[i] : i \in K}
      <4> HIDE DEF C, O
      <4> QED BY <2>1
    <3> QED BY <3>1
  <2>3. UNION {C[i] \ O[i] : i \in K} = (UNION {C[i] : i \in K}) \ UNION {O[i] : i \in K}
    <3> HIDE DEF C, O
    <3> QED BY <1>4, <1>5, Gather
  <2>4. \A i, j \in DOMAIN rs : i # j => Allocs(rs[i].n) \cap Allocs(rs[j].n) = {}
    <3>1. \A i, j \in K : i # j => (C[i] \ O[i]) \cap (C[j] \ O[j]) = {} BY <1>5
    <3>2. DOMAIN rs = K OBVIOUS
    <3> HIDE DEF C, O, K
    <3> QED BY <2>1, <3>1, <3>2
  <2> QED BY <2>1, <2>2, <2>3, <2>4, <1>6, <1>7
<1> QED BY <1>8, <1>9, <1>10

(* A node around components that own apart owns what they own, once. *)
LEMMA NodeAllocs ==
  ASSUME Reading, NEW x, NEW a, NEW rs, x \notin {"ref", "mut"},
         \A i, j \in DOMAIN rs : i # j => Allocs(rs[i].n) \cap Allocs(rs[j].n) = {},
         \A i \in DOMAIN rs : Sole(rs[i].n),
         x \in Owning => a \notin UNION {Allocs(rs[i].n) : i \in DOMAIN rs}
  PROVE  /\ Sole(Node(x, a, Nodes(rs)))
         /\ Allocs(Node(x, a, Nodes(rs))) = (IF x \in Owning THEN {a} ELSE {})
                                            \cup UNION {Allocs(rs[i].n) : i \in DOMAIN rs}
<1> DEFINE n == Node(x, a, Nodes(rs))
<1>1. n.x = x /\ n.a = a /\ n.s = Nodes(rs) /\ DOMAIN n.s = DOMAIN rs
      /\ \A i \in DOMAIN rs : n.s[i] = rs[i].n
  BY DEF Node, Nodes
<1> HIDE DEF n
<1>2. Below(n) = UNION {Allocs(rs[i].n) : i \in DOMAIN rs}
  <2>1. {Allocs(n.s[i]) : i \in DOMAIN n.s} = {Allocs(rs[i].n) : i \in DOMAIN rs} BY <1>1
  <2> QED BY <2>1 DEF Below
<1>3. Here(n) = IF x \in Owning THEN {a} ELSE {}
  BY <1>1 DEF Here
<1>4. Allocs(n) = Here(n) \cup Below(n)
  BY <1>1 DEF Reading, AllocsRule
<1>5. Sole(n)
  <2>1. Here(n) \cap Below(n) = {} BY <1>2, <1>3
  <2>2. \A i, j \in DOMAIN n.s : i # j => Allocs(n.s[i]) \cap Allocs(n.s[j]) = {} BY <1>1
  <2>3. \A i \in DOMAIN n.s : Sole(n.s[i]) BY <1>1
  <2> QED BY <2>1, <2>2, <2>3 DEF Reading, SoleRule
<1> QED BY <1>2, <1>3, <1>4, <1>5 DEF n

(* Sending a value as it is moves its allocations and makes none. *)
LEMMA KeptMoved ==
  ASSUME NEW w, NEW p, NEW st, Sole(w)
  PROVE  Moved(w, p, Kept(w)) /\ Moved(w, p, Answer(w, {}, {}, st))
  BY DEF Moved, Kept, Answer

(* A refusal may free any part of what it was given. *)
LEMMA RefusedMoved ==
  ASSUME NEW w, NEW p, NEW X, X \subseteq Allocs(w)
  PROVE  Moved(w, p, Refused({}, X))
  BY DEF Moved, Refused

(* A tuple, array, struct or variant is moved when its components are: *)
(* converting it allocates nothing of its own.                         *)
LEMMA PartsMoved ==
  ASSUME Reading, NEW p \in Seq(Nat), NEW w, NEW rs, NEW x, NEW st,
         DOMAIN rs = DOMAIN w.s, DOMAIN w.s \subseteq Nat \ {0},
         x \notin Marks, w.x \notin Marks, Sole(w), Avoids(w, p),
         \A i \in DOMAIN w.s : Moved(w.s[i], Append(p, i), rs[i]),
         \A i \in DOMAIN rs : rs[i].ok
  PROVE  Moved(w, p, Answer(Node(x, NoAddr, Nodes(rs)), News(rs), Olds(rs), st))
<1>1. /\ News(rs) \subseteq Under(p)
      /\ Olds(rs) \subseteq Below(w) \cup News(rs)
      /\ UNION {Allocs(rs[i].n) : i \in DOMAIN rs} = (Below(w) \cup News(rs)) \ Olds(rs)
      /\ \A i, j \in DOMAIN rs : i # j => Allocs(rs[i].n) \cap Allocs(rs[j].n) = {}
      /\ \A i \in DOMAIN rs : Sole(rs[i].n)
  BY PartsConserve DEF Marks
<1>2. Allocs(w) = Below(w)
  BY DEF Reading, AllocsRule, Here, Marks
<1>3. /\ Sole(Node(x, NoAddr, Nodes(rs)))
      /\ Allocs(Node(x, NoAddr, Nodes(rs))) = UNION {Allocs(rs[i].n) : i \in DOMAIN rs}
  <2>1. x \notin {"ref", "mut"} /\ x \notin Owning BY DEF Marks
  <2>2. /\ Sole(Node(x, NoAddr, Nodes(rs)))
        /\ Allocs(Node(x, NoAddr, Nodes(rs))) = (IF x \in Owning THEN {NoAddr} ELSE {})
                                                 \cup (UNION {Allocs(rs[i].n) : i \in DOMAIN rs})
    BY <1>1, <2>1, NodeAllocs
  <2> QED BY <2>1, <2>2
<1> QED BY <1>1, <1>2, <1>3 DEF Moved, Answer

(* A box or vector converted element by element: one allocation is made for *)
(* the carriers, the one of the values is freed.                            *)
LEMMA BoxMoved ==
  ASSUME Reading, NEW p \in Seq(Nat), NEW w, NEW rs, NEW x, NEW st,
         DOMAIN rs = DOMAIN w.s, DOMAIN w.s \subseteq Nat \ {0},
         x \in Owning, w.x \in Owning, Sole(w), Avoids(w, p),
         \A i \in DOMAIN w.s : Moved(w.s[i], Append(p, i), rs[i]),
         \A i \in DOMAIN rs : rs[i].ok
  PROVE  Moved(w, p, Answer(Node(x, Home(p), Nodes(rs)), News(rs) \cup {Home(p)}, Olds(rs) \cup {w.a}, st))
<1>1. /\ News(rs) \subseteq Under(p) /\ Home(p) \notin News(rs)
      /\ Olds(rs) \subseteq Below(w) \cup News(rs)
      /\ UNION {Allocs(rs[i].n) : i \in DOMAIN rs} = (Below(w) \cup News(rs)) \ Olds(rs)
      /\ \A i, j \in DOMAIN rs : i # j => Allocs(rs[i].n) \cap Allocs(rs[j].n) = {}
      /\ \A i \in DOMAIN rs : Sole(rs[i].n)
  BY PartsConserve DEF Owning
<1>2. Allocs(w) = {w.a} \cup Below(w) /\ w.a \notin Below(w)
  BY DEF Reading, AllocsRule, SoleRule, Here, Owning
<1>3. Home(p) \in Under(p) /\ Home(p) \notin Allocs(w)
  BY HomeApart, 1 \in Nat DEF Avoids
<1>4. w.a \notin Under(p)
  BY <1>2 DEF Avoids
<1>5. /\ Sole(Node(x, Home(p), Nodes(rs)))
      /\ Allocs(Node(x, Home(p), Nodes(rs))) = {Home(p)} \cup UNION {Allocs(rs[i].n) : i \in DOMAIN rs}
  <2>1. Home(p) \notin UNION {Allocs(rs[i].n) : i \in DOMAIN rs} BY <1>1, <1>2, <1>3
  <2>2. x \notin {"ref", "mut"} BY DEF Owning
  <2> QED BY <1>1, <2>1, <2>2, NodeAllocs
<1> QED BY <1>1, <1>2, <1>3, <1>4, <1>5 DEF Moved, Answer

(* What the components decoded to own, dropping it frees. *)
Reclaims(t, w, rs) ==
  \A i \in DOMAIN rs : rs[i].ok => /\ OwnedBy(Part(t, w, i), rs[i].n) \subseteq Allocs(rs[i].n)
                                   /\ NoManual => OwnedBy(Part(t, w, i), rs[i].n) = Allocs(rs[i].n)

(* A refusal after the components in I were visited: dropping the ones   *)
(* decoded so far frees nothing twice and leaves nothing they allocated. *)
LEMMA RefusedPartsMoved ==
  ASSUME Reading, NEW p \in Seq(Nat), NEW t, NEW w, NEW rs, NEW old, NEW I,
         DOMAIN rs = DOMAIN w.s, DOMAIN w.s \subseteq Nat \ {0}, I \subseteq DOMAIN rs,
         w.x \notin {"ref", "mut"}, Sole(w), Avoids(w, p), old \subseteq Here(w),
         \A i \in DOMAIN w.s : Moved(w.s[i], Append(p, i), rs[i]),
         Reclaims(t, w, rs)
  PROVE  Moved(w, p, Refused(UNION {rs[i].new : i \in I},
                             (old \cup (UNION {rs[i].old : i \in I})) \cup DroppedParts(t, w, rs, I)))
<1> DEFINE N == UNION {rs[i].new : i \in I}
           O == UNION {rs[i].old : i \in I}
           D == DroppedParts(t, w, rs, I)
<1>1. Allocs(w) = Here(w) \cup Below(w)
  BY DEF Reading, AllocsRule
<1>2. \A i \in I : Allocs(w.s[i]) \subseteq Allocs(w)
  BY <1>1 DEF Below
<1>3. ASSUME NEW i \in I
      PROVE  /\ rs[i].new \subseteq Under(p)
             /\ rs[i].old \subseteq Allocs(w) \cup rs[i].new
             /\ rs[i].ok => OwnedBy(Part(t, w, i), rs[i].n) \subseteq Allocs(w) \cup rs[i].new
             /\ rs[i].ok /\ NoManual => rs[i].new \subseteq rs[i].old \cup OwnedBy(Part(t, w, i), rs[i].n)
             /\ ~rs[i].ok /\ NoManual => rs[i].new \subseteq rs[i].old
  <2>1. i \in DOMAIN w.s /\ i \in DOMAIN rs /\ i \in Nat OBVIOUS
  <2>2. /\ rs[i].new \subseteq Under(Append(p, i))
        /\ rs[i].old \subseteq Allocs(w.s[i]) \cup rs[i].new
        /\ rs[i].ok => Allocs(rs[i].n) = (Allocs(w.s[i]) \cup rs[i].new) \ rs[i].old
        /\ ~rs[i].ok /\ NoManual => rs[i].new \subseteq rs[i].old
    BY <2>1 DEF Moved
  <2>3. rs[i].ok => /\ OwnedBy(Part(t, w, i), rs[i].n) \subseteq Allocs(rs[i].n)
                    /\ NoManual => OwnedBy(Part(t, w, i), rs[i].n) = Allocs(rs[i].n)
    BY <2>1 DEF Reclaims
  <2>4. Allocs(w.s[i]) \subseteq Allocs(w) /\ Under(Append(p, i)) \subseteq Under(p)
    BY <2>1, <1>2, UnderAppend
  <2> QED BY <2>2, <2>3, <2>4
<1>4. N \subseteq Under(p) /\ O \subseteq Allocs(w) \cup N
  BY <1>3
<1>5. \A a : a \in D <=> \E i \in I : rs[i].ok /\ a \in OwnedBy(Part(t, w, i), rs[i].n)
  BY DEF DroppedParts
<1>6. D \subseteq Allocs(w) \cup N
  <2> HIDE DEF D
  <2> QED BY <1>3, <1>5
<1>7. NoManual => N \subseteq O \cup D
  <2> SUFFICES ASSUME NoManual, NEW i \in I, NEW a \in rs[i].new PROVE a \in O \cup D
    OBVIOUS
  <2> HIDE DEF D
  <2>1. CASE rs[i].ok BY <1>3, <1>5, <2>1
  <2>2. CASE ~rs[i].ok BY <1>3, <2>2
  <2> QED BY <2>1, <2>2
<1> HIDE DEF N, O, D
<1>8. old \subseteq Allocs(w) BY <1>1
<1>9. Moved(w, p, Refused(N, (old \cup O) \cup D))
  BY <1>4, <1>6, <1>7, <1>8 DEF Moved, Refused
<1> QED BY <1>9 DEF N, O, D

(* The kinds of types without a parameter, with one, and with two. *)
Leaves == {"int", "bool", "nz", "unit", "single"} \cup Fieldless
Singles == {"box", "slice", "vec", "opt", "copt"} \cup Transparent
Doubles == {"res", "cres", "tup", "onevariant"} \cup (Structs \ {"trap"}) \cup DataEnums

(* An owned type with the parameters of its kind. *)
OwnedShape(t) ==
  /\ t = Ty(t.k, t.s)
  /\ \/ t.k \in Leaves /\ t.s = <<>>
     \/ t.k \in Singles /\ t.s = <<t.s[1]>>
     \/ t.k \in Doubles /\ t.s = <<t.s[1], t.s[2]>>
     \/ t.k = "arr" /\ t.s = <<t.s[1], t.s[1]>>
     \/ t.k \in {"trap", "identity"} /\ t.s = <<Integer, Integer>>

(* The parameters of a type of Universe are in it and of lower rank. *)
Closed ==
  /\ Rank \in [Universe -> Nat]
  /\ \A t \in Universe : /\ OwnedShape(t)
                         /\ \A i \in DOMAIN t.s : t.s[i] \in Universe /\ Rank[t.s[i]] < Rank[t]

(* The constants are what their rules say, layer by layer. *)
Tied ==
  \A t \in Universe :
    /\ Stable(t) = StableRule(t) /\ Robust(t) = RobustRule(t)
    /\ HasNiche(t) = HasNicheRule(t) /\ NicheOf(t) = NicheOfRule(t)
    /\ \A w : /\ IsNiche(t, w) = IsNicheRule(t, w)
              /\ IsValue(t, w) = IsValueRule(t, w)
              /\ IsCarrier(t, w) = IsCarrierRule(t, w)
              /\ IsCarrier(t, w) => IsValid(t, w) = IsValidRule(t, w)
              /\ IsCarrier(t, w) => \A p, st : Decode(t, w, p, st) = DecodeRule(t, w, p, st)
              /\ IsValue(t, w) => OwnedBy(t, w) = OwnedByRule(t, w)
              /\ IsValue(t, w) => \A m, p, st : Encode(m, t, w, p, st) = EncodeRule(m, t, w, p, st)

(* What the theorems assume of the model's constants. *)
Setting == Reading /\ Closed /\ Tied

-----------------------------------------------------------------------------
(* Induction over types, and what the constants say of each kind of type. *)
(* Induction over types: what holds of a type whenever it holds of its *)
(* parameters holds of every type.                                     *)
LEMMA RankInduction ==
  ASSUME Closed, NEW G,
         \A t \in Universe : (\A i \in DOMAIN t.s : t.s[i] \in G) => t \in G
  PROVE  Universe \subseteq G
<1> SUFFICES ASSUME NEW x \in Universe, x \notin G PROVE FALSE OBVIOUS
<1> DEFINE R == {Rank[t] : t \in Universe \ G}
<1>1. R \subseteq Nat /\ R # {}
  BY DEF Closed
<1>2. PICK n \in R : \A m \in R : ~(<<m, n>> \in OpToRel(<, Nat))
  <2> HIDE DEF R
  <2> QED BY <1>1, NatLessThanWellFounded, WFMin
<1>3. \A m \in R : ~(m < n)
  BY <1>1, <1>2 DEF OpToRel
<1>4. PICK t \in Universe \ G : n = Rank[t] OBVIOUS
<1>5. \A i \in DOMAIN t.s : t.s[i] \in G
  BY <1>3, <1>4 DEF Closed
<1> QED BY <1>4, <1>5

(* How many parameters each kind of type has, and that they are types of *)
(* Universe.                                                             *)
LEMMA Kind ==
  ASSUME Setting, NEW t \in Universe
  PROVE  /\ t.k \in {"int", "bool", "nz", "unit", "single", "tags", "inferred", "exhaustive"} => t.s = <<>> /\ DOMAIN t.s = {}
         /\ t.k \in {"box", "slice", "vec", "opt", "copt", "md", "cell", "newtype"} => DOMAIN t.s = {1}
         /\ t.k \in {"res", "cres", "tup", "arr", "enum", "cenum", "onevariant", "struct", "cstruct",
                     "vstruct", "vcstruct", "trap", "identity"} => DOMAIN t.s = {1, 2}
         /\ t.k \in {"trap", "identity"} => t.s[1] = Integer /\ t.s[2] = Integer
         /\ t.k = "arr" => t.s[1] = t.s[2]
         /\ \/ t.k \in {"int", "bool", "nz", "unit", "single", "tags", "inferred", "exhaustive"}
            \/ t.k \in {"box", "slice", "vec", "opt", "copt", "md", "cell", "newtype"}
            \/ t.k \in {"res", "cres", "tup", "arr", "enum", "cenum", "onevariant", "struct", "cstruct",
                     "vstruct", "vcstruct", "trap", "identity"}
         /\ \A i \in DOMAIN t.s : t.s[i] \in Universe
<1>1. OwnedShape(t) /\ \A i \in DOMAIN t.s : t.s[i] \in Universe
  BY DEF Setting, Closed
<1>2. DOMAIN (<<>>) = {} /\ \A x, y : DOMAIN <<x>> = {1} /\ DOMAIN <<x, y>> = {1, 2} /\ <<x, y>>[1] = x /\ <<x, y>>[2] = y
  OBVIOUS
<1>3. t.s = <<t.s[1]>> => DOMAIN t.s = {1} BY <1>2
<1>4. t.s = <<t.s[1], t.s[2]>> => DOMAIN t.s = {1, 2} BY <1>2
<1>5. t.s = <<t.s[1], t.s[1]>> => DOMAIN t.s = {1, 2} /\ t.s[1] = t.s[2] BY <1>2
<1>6. t.s = <<Integer, Integer>> => DOMAIN t.s = {1, 2} /\ t.s[1] = Integer /\ t.s[2] = Integer BY <1>2
<1> DEFINE s == t.s
           k == t.k
<1> HIDE DEF s
<1> QED BY <1>1, <1>2, <1>3, <1>4, <1>5, <1>6 DEF OwnedShape, Leaves, Singles, Doubles, Fieldless, Transparent, Structs, DataEnums, s

(* The type of a component is a parameter of the whole's type. *)
LEMMA PartKnown ==
  ASSUME Setting, NEW t \in Universe, NEW w, NEW i, DOMAIN t.s # {},
         t.k \in {"tup", "arr"} \cup Records => i \in {1, 2}
  PROVE  \E j \in DOMAIN t.s : Part(t, w, i) = t.s[j] /\ t.s[j] \in Universe
<1>1. CASE t.k \in {"tup", "arr"} \cup Records
  <2>1. Part(t, w, i) = t.s[i] BY <1>1 DEF Part, Records, Structs, DataEnums
  <2>2. DOMAIN t.s = {1, 2} BY <1>1, Kind DEF Records, Structs
  <2> QED BY <1>1, <2>1, <2>2, Kind
<1>2. CASE t.k \in DataEnums
  <2>1. Part(t, w, i) = Payload(t, w) BY <1>2 DEF Part, Records, Structs, DataEnums
  <2>2. DOMAIN t.s = {1, 2} BY <1>2, Kind DEF DataEnums
  <2>3. Payload(t, w) = t.s[2] \/ \E j \in DOMAIN t.s : Payload(t, w) = t.s[j] BY DEF Payload
  <2> QED BY <2>1, <2>2, <2>3, Kind
<1>3. CASE t.k \in {"res", "cres"} /\ ErrSide(w)
  <2>1. Part(t, w, i) = t.s[2] BY <1>3 DEF Part, Records, Structs, DataEnums
  <2>2. DOMAIN t.s = {1, 2} BY <1>3, Kind
  <2> QED BY <2>1, <2>2, Kind
<1>4. CASE t.k \notin {"tup", "arr"} \cup Records /\ t.k \notin DataEnums /\ ~(t.k \in {"res", "cres"} /\ ErrSide(w))
  <2>1. Part(t, w, i) = t.s[1] BY <1>4 DEF Part, Elem
  <2>2. DOMAIN t.s = {1} \/ DOMAIN t.s = {1, 2} BY Kind
  <2> QED BY <2>1, <2>2, Kind
<1> QED BY <1>1, <1>2, <1>3, <1>4

(* How values name the variants of an enum: by letter when the layout is the *)
(* compiler's, by tag when it is the carrier's.                              *)
LEMMA NamesOf ==
  ASSUME Setting, NEW t \in Universe
  PROVE  /\ t.k = "enum" => DOMAIN Names(t) = {1, 2, 3} /\ Names(t)[1] = "A" /\ Names(t)[2] = "B" /\ Names(t)[3] = "C"
         /\ t.k = "inferred" => DOMAIN Names(t) = {1, 2} /\ Names(t)[1] = "A" /\ Names(t)[2] = "B"
         /\ t.k \in {"cenum", "tags"} => DOMAIN Names(t) = {1, 2} /\ Names(t)[1] = "1" /\ Names(t)[2] = "2"
         /\ t.k = "exhaustive" => /\ DOMAIN Names(t) = {1, 2, 3, 4} /\ Names(t)[1] = "0" /\ Names(t)[2] = "1"
                                  /\ Names(t)[3] = "2" /\ Names(t)[4] = "3"
<1>1. Stable(t) = StableRule(t)
  BY DEF Setting, Tied
<1>2. /\ t.k \in {"enum", "inferred"} => ~Stable(t)
      /\ t.k \in {"tags", "exhaustive"} => Stable(t)
  BY <1>1 DEF StableRule
<1>3. /\ t.k = "enum" => VariantTags(t) = <<"0", "1", "2">>
      /\ t.k = "inferred" => VariantTags(t) = <<"0", "1">>
      /\ t.k \in {"cenum", "tags"} => VariantTags(t) = <<"1", "2">>
      /\ t.k = "exhaustive" => VariantTags(t) = TagBytes
  BY DEF VariantTags
<1>4. CASE t.k = "enum"
  <2>1. Names(t) = SubSeq(<<"A", "B", "C">>, 1, 3)
    BY <1>2, <1>3, <1>4 DEF Names, VariantNames
  <2>2. DOMAIN SubSeq(<<"A", "B", "C">>, 1, 3) = 1..3
    OBVIOUS
  <2>3. \A i \in 1..3 : SubSeq(<<"A", "B", "C">>, 1, 3)[i] = <<"A", "B", "C">>[i]
    OBVIOUS
  <2> QED BY <1>4, <2>1, <2>2, <2>3
<1>5. CASE t.k = "inferred"
  <2>1. Names(t) = SubSeq(<<"A", "B", "C">>, 1, 2)
    BY <1>2, <1>3, <1>5 DEF Names, VariantNames
  <2>2. DOMAIN SubSeq(<<"A", "B", "C">>, 1, 2) = 1..2
    OBVIOUS
  <2>3. \A i \in 1..2 : SubSeq(<<"A", "B", "C">>, 1, 2)[i] = <<"A", "B", "C">>[i]
    OBVIOUS
  <2> QED BY <1>5, <2>1, <2>2, <2>3
<1>6. CASE t.k \in {"cenum", "tags"}
  <2>1. Names(t) = <<"1", "2">>
    BY <1>2, <1>3, <1>6 DEF Names
  <2> QED BY <1>6, <2>1
<1>7. CASE t.k = "exhaustive"
  <2>1. Names(t) = TagBytes
    BY <1>2, <1>3, <1>7 DEF Names
  <2> QED BY <1>7, <2>1 DEF TagBytes
<1> QED BY <1>4, <1>5, <1>6, <1>7

(* Which variant a tag byte selects, 0 for none. *)
LEMMA TagsOf ==
  ASSUME NEW t, t.k \in Tagged
  PROVE  \A x : VariantIn(VariantTags(t), x) =
           CASE t.k = "enum" -> (CASE x = "0" -> 1 [] x = "1" -> 2 [] x = "2" -> 3 [] OTHER -> 0)
             [] t.k = "inferred" -> (CASE x = "0" -> 1 [] x = "1" -> 2 [] OTHER -> 0)
             [] t.k \in {"cenum", "tags"} -> (CASE x = "1" -> 1 [] x = "2" -> 2 [] OTHER -> 0)
             [] OTHER -> (CASE x = "0" -> 1 [] x = "1" -> 2 [] x = "2" -> 3 [] x = "3" -> 4 [] OTHER -> 0)
<1>1. /\ t.k = "enum" => VariantTags(t) = <<"0", "1", "2">>
      /\ t.k = "inferred" => VariantTags(t) = <<"0", "1">>
      /\ t.k \in {"cenum", "tags"} => VariantTags(t) = <<"1", "2">>
      /\ t.k = "exhaustive" => VariantTags(t) = TagBytes
  BY DEF VariantTags
<1>2. t.k \in {"enum", "inferred", "cenum", "tags", "exhaustive"}
  BY DEF Tagged, DataEnums, Fieldless
<1>3. \A x : VariantIn(<<"0", "1", "2">>, x) = CASE x = "0" -> 1 [] x = "1" -> 2 [] x = "2" -> 3 [] OTHER -> 0
  BY DEF VariantIn
<1>4. \A x : VariantIn(<<"0", "1">>, x) = CASE x = "0" -> 1 [] x = "1" -> 2 [] OTHER -> 0
  BY DEF VariantIn
<1>5. \A x : VariantIn(<<"1", "2">>, x) = CASE x = "1" -> 1 [] x = "2" -> 2 [] OTHER -> 0
  BY DEF VariantIn
<1>6. \A x : VariantIn(TagBytes, x) = CASE x = "0" -> 1 [] x = "1" -> 2 [] x = "2" -> 3 [] x = "3" -> 4 [] OTHER -> 0
  BY DEF VariantIn, TagBytes
<1> QED BY <1>1, <1>2, <1>3, <1>4, <1>5, <1>6

(* Which variant a name selects. *)
LEMMA VariantByName ==
  \A x : VariantIn(VariantNames, x) = CASE x = "A" -> 1 [] x = "B" -> 2 [] x = "C" -> 3 [] OTHER -> 0
  BY DEF VariantIn, VariantNames

-----------------------------------------------------------------------------
(* The values of a type: which nodes they are and what they own. *)

(* The owning pointers. *)
Buffers == {"box", "slice", "vec"}

(* The fields of the nodes the rules build. *)
LEMMA Nodes1 ==
  /\ \A x, a, s : Node(x, a, s).x = x /\ Node(x, a, s).a = a /\ Node(x, a, s).s = s
  /\ \A x : Atom(x).x = x /\ Atom(x).a = NoAddr /\ Atom(x).s = <<>> /\ DOMAIN Atom(x).s = {}
  /\ \A s : Compound(s).x = "compound" /\ Compound(s).a = NoAddr /\ Compound(s).s = s
  BY DEF Node, Atom, Compound

(* The fields of a node given as a triple. *)
LEMMA NodeOf ==
  ASSUME NEW n, NEW x, NEW a, NEW s, n = Node(x, a, s)
  PROVE  n.x = x /\ n.a = a /\ n.s = s
  BY DEF Node

(* What each shape says of a node's mark, address and components. *)
LEMMA Shapes1 ==
  ASSUME NEW n
  PROVE  /\ Scalar(n) => n.x \notin Marks /\ n.a = NoAddr /\ DOMAIN n.s = {} /\ n = Atom(n.x)
         /\ Pair(n) => n.x = "compound" /\ n.a = NoAddr /\ DOMAIN n.s = {1, 2}
         /\ \A x, a : Around(x, a, n) => n.x = x /\ n.a = a /\ DOMAIN n.s = {1}
         /\ \A x : Pointing(x, n) => n.x = x /\ n.a # NoAddr /\ DOMAIN n.s = {1}
         /\ \A x : Buffered(x, n) => n.x = x /\ n.a # NoAddr /\ DOMAIN n.s \subseteq Nat \ {0}
         /\ n = UnitV => n.x = "unit" /\ n.a = NoAddr /\ DOMAIN n.s = {}
         /\ n = NoneV => n.x = "None" /\ n.a = NoAddr /\ DOMAIN n.s = {}
         /\ n = Zeroed => n.x = "0" /\ n.a = NoAddr /\ DOMAIN n.s = {}
         /\ n = Null => n.x = "null" /\ n.a = NoAddr /\ DOMAIN n.s = {}
<1>1. Scalar(n) => n.x \notin Marks /\ n.a = NoAddr /\ DOMAIN n.s = {} /\ n = Atom(n.x)
  BY Nodes1 DEF Scalar
<1>2. Pair(n) => n.x = "compound" /\ n.a = NoAddr /\ DOMAIN n.s = {1, 2}
  BY Nodes1 DEF Pair
<1>3. \A x, a : Around(x, a, n) => n.x = x /\ n.a = a /\ DOMAIN n.s = {1}
  BY Nodes1 DEF Around
<1>4. \A x : Pointing(x, n) => n.x = x /\ n.a # NoAddr /\ DOMAIN n.s = {1}
  BY <1>3 DEF Pointing
<1>5. \A x : Buffered(x, n) => n.x = x /\ n.a # NoAddr /\ DOMAIN n.s \subseteq Nat \ {0}
  <2>1. \A x : Buffered(x, n) => n.x = x BY Nodes1 DEF Buffered
  <2>2. \A x : Buffered(x, n) => n.a # NoAddr /\ Tuple(n.s) BY DEF Buffered
  <2>3. Tuple(n.s) => DOMAIN n.s \subseteq Nat \ {0} BY DEF Tuple
  <2> QED BY <2>1, <2>2, <2>3
<1>6. (n = UnitV => n.x = "unit" /\ n.a = NoAddr /\ DOMAIN n.s = {}) /\ (n = NoneV => n.x = "None" /\ n.a = NoAddr /\ DOMAIN n.s = {})
   /\ (n = Zeroed => n.x = "0" /\ n.a = NoAddr /\ DOMAIN n.s = {}) /\ (n = Null => n.x = "null" /\ n.a = NoAddr /\ DOMAIN n.s = {})
  BY Nodes1 DEF UnitV, NoneV, Zeroed, Null
<1> QED BY <1>1, <1>2, <1>3, <1>4, <1>5, <1>6

(* A value has the shape of its type, and its components are values. *)
LEMMA ValueIs ==
  ASSUME Setting, NEW t \in Universe, NEW v, IsValue(t, v)
  PROVE  /\ ValueLayer(t, v)
         /\ t.k \notin Transparent => \A i \in DOMAIN v.s : IsValue(Part(t, v, i), v.s[i])
  BY DEF Setting, Tied, IsValueRule

(* The shape of the values of each kind of type. *)
LEMMA ValueLayers ==
  ASSUME Setting, NEW t \in Universe, NEW v
  PROVE  ValueLayer(t, v) =
    CASE t.k = "int" -> Scalar(v)
      [] t.k = "bool" -> Scalar(v) /\ v.x \in {"0", "1"}
      [] t.k = "nz" -> Scalar(v) /\ v.x # "0"
      [] t.k \in {"unit", "single"} -> v = UnitV
      [] t.k \in {"tags", "inferred", "exhaustive"} -> Scalar(v) /\ \E i \in DOMAIN Names(t) : v.x = Names(t)[i]
      [] t.k = "box" -> Pointing("box", v)
      [] t.k \in {"slice", "vec"} -> Buffered("vec", v)
      [] t.k = "opt" -> v = NoneV \/ Around("Some", NoAddr, v)
      [] t.k = "copt" -> v = Zeroed \/ Around("1", NoAddr, v)
      [] t.k = "res" -> Around("Ok", NoAddr, v) \/ Around("Err", NoAddr, v)
      [] t.k = "cres" -> Around("0", NoAddr, v) \/ Around("1", NoAddr, v)
      [] t.k \in {"tup", "arr", "struct", "cstruct", "vstruct", "vcstruct", "trap", "identity", "onevariant"} ->
           Pair(v) /\ Satisfies(t, v)
      [] t.k \in {"enum", "cenum"} ->
           \E i \in DOMAIN Names(t) : IF i \in DOMAIN t.s THEN Around(Names(t)[i], NoAddr, v) ELSE v = Atom(Names(t)[i])
      [] OTHER -> IsValue(Elem(t), v)
<1>1. t.k \notin {"ref", "mut", "seq"} BY Kind
<1>2. t.k = "box" => Pointing(t.k, v) = Pointing("box", v) OBVIOUS
<1> QED BY <1>1, <1>2, Kind DEF ValueLayer, Fieldless, Records, Structs, DataEnums, Transparent

(* A value owns an allocation itself exactly when its type is an owning *)
(* pointer, and is no reference.                                        *)
LEMMA ValueShape ==
  ASSUME Setting, NEW t \in Universe, NEW v, IsValue(t, v), t.k \notin Transparent
  PROVE  /\ v.x \notin {"ref", "mut"}
         /\ v.x \in Owning <=> t.k \in Buffers
         /\ t.k \in {"tup", "arr"} \cup Records => DOMAIN v.s = {1, 2}
         /\ DOMAIN v.s \subseteq Nat \ {0}
         /\ DOMAIN v.s # {} => DOMAIN t.s # {}
         /\ \A i \in DOMAIN v.s : IsValue(Part(t, v, i), v.s[i])
<1>1. ValueLayer(t, v) /\ \A i \in DOMAIN v.s : IsValue(Part(t, v, i), v.s[i])
  BY ValueIs
<1>2. CASE t.k \in {"int", "bool", "nz", "tags", "inferred", "exhaustive"}
  <2>1. Scalar(v) BY <1>1, <1>2, ValueLayers
  <2> QED BY <1>1, <1>2, <2>1, Shapes1 DEF Marks, Owning, Buffers, Records, Structs
<1>3. CASE t.k \in {"unit", "single"}
  <2>1. v = UnitV BY <1>1, <1>3, ValueLayers
  <2> QED BY <1>1, <1>3, <2>1, Shapes1 DEF Owning, Buffers, Records, Structs
<1>4. CASE t.k = "box"
  <2>1. Pointing("box", v) BY <1>1, <1>4, ValueLayers
  <2>2. v.x = "box" /\ DOMAIN v.s = {1} BY <2>1, Shapes1
  <2>3. DOMAIN t.s # {} BY <1>4, Kind
  <2> QED BY <1>1, <1>4, <2>2, <2>3 DEF Owning, Buffers, Records, Structs
<1>5. CASE t.k \in {"slice", "vec"}
  <2>1. Buffered("vec", v) BY <1>1, <1>5, ValueLayers
  <2> QED BY <1>1, <1>5, <2>1, Kind, Shapes1 DEF Owning, Buffers, Records, Structs
<1>6. CASE t.k \in {"opt", "copt", "res", "cres"}
  <2>1. v = NoneV \/ v = Zeroed \/ \E x \in {"Some", "Ok", "Err", "0", "1"} : Around(x, NoAddr, v)
    BY <1>1, <1>6, ValueLayers
  <2>2. DOMAIN t.s # {} BY <1>6, Kind
  <2>3. v.x \in {"None", "Some", "Ok", "Err", "0", "1"} /\ DOMAIN v.s \subseteq {1}
    BY <2>1, Shapes1
  <2> QED BY <1>1, <1>6, <2>2, <2>3 DEF Owning, Buffers, Records, Structs
<1>7. CASE t.k \in {"tup", "arr", "struct", "cstruct", "vstruct", "vcstruct", "trap", "identity", "onevariant"}
  <2>1. Pair(v) BY <1>1, <1>7, ValueLayers
  <2>2. v.x = "compound" /\ DOMAIN v.s = {1, 2} BY <2>1, Shapes1
  <2>3. DOMAIN t.s # {} BY <1>7, Kind
  <2>4. v.x \notin {"ref", "mut"} /\ v.x \notin Owning BY <2>2 DEF Owning
  <2>5. t.k \notin Buffers BY <1>7 DEF Buffers
  <2>6. DOMAIN v.s \subseteq Nat \ {0} BY <2>2
  <2> QED BY <1>1, <2>2, <2>3, <2>4, <2>5, <2>6
<1>8. CASE t.k \in {"enum", "cenum"}
  <2>1. PICK i \in DOMAIN Names(t) : IF i \in DOMAIN t.s THEN Around(Names(t)[i], NoAddr, v) ELSE v = Atom(Names(t)[i])
    BY <1>1, <1>8, ValueLayers
  <2>2. Names(t)[i] \notin {"ref", "mut", "box", "vec", "bad"} /\ DOMAIN t.s = {1, 2}
    BY <1>8, NamesOf, Kind
  <2>3. v.x = Names(t)[i] /\ DOMAIN v.s \subseteq {1}
    <3>1. CASE Around(Names(t)[i], NoAddr, v) BY <3>1, Shapes1
    <3>2. CASE v = Atom(Names(t)[i]) BY <3>2, Nodes1
    <3> QED BY <2>1, <3>1, <3>2
  <2> QED BY <1>1, <1>8, <2>2, <2>3 DEF Owning, Buffers, Records, Structs
<1> QED BY <1>2, <1>3, <1>4, <1>5, <1>6, <1>7, <1>8, Kind DEF Transparent

(* Dropping a value frees nothing but what it owns, and all of that when *)
(* nothing is kept from being dropped.                                   *)
OwnedIn(t) ==
  \A v : IsValue(t, v) => OwnedBy(t, v) \subseteq Allocs(v) /\ (NoManual => OwnedBy(t, v) = Allocs(v))

(* What dropping a value of any type frees is what the value owns. *)
LEMMA Owns ==
  ASSUME Setting
  PROVE  \A t \in Universe : OwnedIn(t)
<1> DEFINE G == {t \in Universe : OwnedIn(t)}
<1>1. ASSUME NEW t \in Universe, \A i \in DOMAIN t.s : t.s[i] \in G PROVE t \in G
  <2> SUFFICES ASSUME NEW v, IsValue(t, v)
               PROVE  OwnedBy(t, v) \subseteq Allocs(v) /\ (NoManual => OwnedBy(t, v) = Allocs(v))
    BY DEF OwnedIn
  <2>1. OwnedBy(t, v) = OwnedByRule(t, v) BY DEF Setting, Tied
  <2>2. CASE t.k = "md"
    BY <2>1, <2>2 DEF OwnedByRule, NoManual
  <2>3. CASE t.k \in {"cell", "newtype"}
    <3>1. OwnedBy(t, v) = OwnedBy(Elem(t), v) BY <2>1, <2>3 DEF OwnedByRule
    <3>2. IsValue(Elem(t), v) BY <2>3, ValueIs, ValueLayers
    <3>3. Elem(t) \in G BY <1>1, <2>3, Kind DEF Elem
    <3> QED BY <3>1, <3>2, <3>3 DEF OwnedIn
  <2>4. CASE t.k \notin Transparent
    <3>1. OwnedBy(t, v) = (IF t.k \in Buffers THEN {v.a} ELSE {}) \cup UNION {OwnedBy(Part(t, v, i), v.s[i]) : i \in DOMAIN v.s}
      BY <2>1, <2>4, Kind DEF OwnedByRule, Transparent, Buffers
    <3>2. Allocs(v) = (IF t.k \in Buffers THEN {v.a} ELSE {}) \cup UNION {Allocs(v.s[i]) : i \in DOMAIN v.s}
      BY <2>4, ValueShape DEF Setting, Reading, AllocsRule, Here, Below
    <3>3. ASSUME NEW i \in DOMAIN v.s
          PROVE  OwnedBy(Part(t, v, i), v.s[i]) \subseteq Allocs(v.s[i]) /\ (NoManual => OwnedBy(Part(t, v, i), v.s[i]) = Allocs(v.s[i]))
      <4>1. IsValue(Part(t, v, i), v.s[i]) /\ DOMAIN t.s # {} /\ (t.k \in {"tup", "arr"} \cup Records => i \in {1, 2})
        BY <2>4, ValueShape
      <4>2. PICK j \in DOMAIN t.s : Part(t, v, i) = t.s[j] BY <4>1, PartKnown
      <4>3. OwnedIn(Part(t, v, i)) BY <1>1, <4>2
      <4> QED BY <4>1, <4>3 DEF OwnedIn
    <3> QED BY <3>1, <3>2, <3>3
  <2> QED BY <2>2, <2>3, <2>4 DEF Transparent
<1> HIDE DEF G
<1>2. Universe \subseteq G BY <1>1, RankInduction DEF Setting
<1> QED BY <1>2 DEF G

-----------------------------------------------------------------------------
(* The carriers of a type. *)

(* A carrier has the shape of its C type, and its components are carriers, *)
(* unless the tag says their type is unknown.                              *)
LEMMA CarrierIs ==
  ASSUME Setting, NEW t \in Universe, NEW w, IsCarrier(t, w)
  PROVE  /\ CarrierLayer(t, w)
         /\ ~Borrowing(t) /\ Readable(t, w) => \A i \in DOMAIN w.s : IsCarrier(Part(t, w, i), w.s[i])
  BY DEF Setting, Tied, IsCarrierRule

(* The shape of the carriers of each kind of type. *)
LEMMA CarrierLayers ==
  ASSUME Setting, NEW t \in Universe, NEW w
  PROVE  CarrierLayer(t, w) =
    CASE t.k \in {"int", "bool", "nz", "tags", "inferred", "exhaustive"} -> Scalar(w)
      [] t.k \in {"unit", "single"} -> w = UnitV
      [] t.k = "box" -> w = Null \/ Pointing("box", w)
      [] t.k = "slice" -> w = Null \/ Buffered("vec", w)
      [] t.k = "vec" -> w = Null \/ Buffered("vec", w) \/ Buffered("bad", w)
      [] t.k = "opt" -> IF NicheOption(t) THEN NicheCarrier(Elem(t), w)
                        ELSE (Scalar(w) /\ w.x # "1") \/ Around("1", NoAddr, w)
      [] t.k = "copt" -> (Scalar(w) /\ w.x # "1") \/ Around("1", NoAddr, w)
      [] t.k = "res" -> CASE OkNiche(t) -> NicheCarrier(t.s[1], w)
                          [] ErrNiche(t) -> NicheCarrier(t.s[2], w)
                          [] OTHER -> TagAndPayload({"0", "1"}, w)
      [] t.k = "cres" -> TagAndPayload({"0", "1"}, w)
      [] t.k \in {"tup", "arr", "struct", "cstruct", "vstruct", "vcstruct", "trap", "identity", "onevariant"} -> Pair(w)
      [] t.k \in {"enum", "cenum"} -> EnumCarrier(t, w)
      [] OTHER -> IsCarrier(Elem(t), w)
<1>1. t.k \notin {"ref", "mut", "seq"} BY Kind
<1>2. t.k = "box" => Pointing(t.k, w) = Pointing("box", w) OBVIOUS
<1> QED BY <1>1, <1>2, Kind DEF CarrierLayer, Fieldless, Records, Structs, DataEnums, Transparent

(* A tag byte with a payload is no pointer, and has at most one component. *)
LEMMA TaggedShape ==
  ASSUME NEW tags, NEW w, TagAndPayload(tags, w)
  PROVE  w.x \notin Marks /\ w.a = NoAddr /\ DOMAIN w.s \subseteq {1} /\ (w.x \in tags => DOMAIN w.s = {1})
  BY Nodes1, Shapes1 DEF TagAndPayload

(* The carrier of a data enum has its variant's payload when the tag is *)
(* known.                                                               *)
LEMMA EnumShape ==
  ASSUME NEW t, NEW w, EnumCarrier(t, w)
  PROVE  /\ w.x \notin Marks /\ w.a = NoAddr /\ DOMAIN w.s \subseteq {1}
         /\ KnownTag(t, w) => DOMAIN w.s = IF VariantIn(VariantTags(t), w.x) \in DOMAIN t.s THEN {1} ELSE {}
  BY TaggedShape, Shapes1 DEF EnumCarrier, KnownTag

(* A carrier that is not another type's owns an allocation itself only as a *)
(* box, slice or vector.                                                    *)
LEMMA CarrierShape ==
  ASSUME Setting, NEW t \in Universe, NEW w, IsCarrier(t, w), ~Borrowing(t)
  PROVE  /\ w.x \notin {"ref", "mut"}
         /\ w.x \in Owning => t.k \in Buffers
         /\ t.k \in Buffers => (w.x \in Owning \/ w = Null)
         /\ t.k \in {"tup", "arr"} \cup Records => DOMAIN w.s = {1, 2}
         /\ DOMAIN w.s \subseteq Nat \ {0}
         /\ DOMAIN w.s # {} => DOMAIN t.s # {}
         /\ Readable(t, w) => \A i \in DOMAIN w.s : IsCarrier(Part(t, w, i), w.s[i])
<1>1. CarrierLayer(t, w) /\ (Readable(t, w) => \A i \in DOMAIN w.s : IsCarrier(Part(t, w, i), w.s[i]))
  BY CarrierIs
<1>2. CASE t.k \in {"int", "bool", "nz", "tags", "inferred", "exhaustive"}
  <2>1. Scalar(w) BY <1>1, <1>2, CarrierLayers
  <2> QED BY <1>1, <1>2, <2>1, Shapes1 DEF Marks, Owning, Buffers, Records, Structs
<1>3. CASE t.k \in {"unit", "single"}
  <2>1. w = UnitV BY <1>1, <1>3, CarrierLayers
  <2> QED BY <1>1, <1>3, <2>1, Shapes1 DEF Owning, Buffers, Records, Structs
<1>4. CASE t.k \in Buffers
  <2>1. w = Null \/ Pointing("box", w) \/ Buffered("vec", w) \/ Buffered("bad", w)
    BY <1>1, <1>4, CarrierLayers DEF Buffers
  <2>2. w = Null \/ (w.x \in Owning /\ DOMAIN w.s \subseteq Nat \ {0}) BY <2>1, Shapes1 DEF Owning
  <2>3. DOMAIN t.s # {} BY <1>4, Kind DEF Buffers
  <2>4. w = Null => w.x = "null" /\ DOMAIN w.s = {} BY Shapes1
  <2> QED BY <1>1, <1>4, <2>2, <2>3, <2>4 DEF Owning, Buffers, Records, Structs
<1>6. CASE t.k \in {"opt", "copt", "res", "cres"}
  <2>1. Scalar(w) \/ Around("1", NoAddr, w) \/ TagAndPayload({"0", "1"}, w)
    BY <1>1, <1>6, CarrierLayers DEF Borrowing
  <2>2. DOMAIN t.s # {} BY <1>6, Kind
  <2>3. w.x \notin Marks /\ DOMAIN w.s \subseteq {1}
    <3>1. CASE Scalar(w) BY <3>1, Shapes1
    <3>2. CASE Around("1", NoAddr, w) BY <3>2, Shapes1 DEF Marks, Owning
    <3>3. CASE TagAndPayload({"0", "1"}, w) BY <3>3, TaggedShape
    <3> QED BY <2>1, <3>1, <3>2, <3>3
  <2> QED BY <1>1, <1>6, <2>2, <2>3 DEF Marks, Owning, Buffers, Records, Structs
<1>7. CASE t.k \in {"tup", "arr", "struct", "cstruct", "vstruct", "vcstruct", "trap", "identity", "onevariant"}
  <2>1. Pair(w) BY <1>1, <1>7, CarrierLayers
  <2>2. w.x = "compound" /\ DOMAIN w.s = {1, 2} BY <2>1, Shapes1
  <2>3. DOMAIN t.s # {} BY <1>7, Kind
  <2>4. w.x \notin {"ref", "mut"} /\ w.x \notin Owning BY <2>2 DEF Owning
  <2>5. t.k \notin Buffers BY <1>7 DEF Buffers
  <2>6. DOMAIN w.s \subseteq Nat \ {0} BY <2>2
  <2> QED BY <1>1, <2>2, <2>3, <2>4, <2>5, <2>6
<1>8. CASE t.k \in {"enum", "cenum"}
  <2>1. EnumCarrier(t, w) BY <1>1, <1>8, CarrierLayers
  <2>2. DOMAIN t.s = {1, 2} BY <1>8, Kind
  <2>3. w.x \notin Marks /\ DOMAIN w.s \subseteq {1} BY <2>1, EnumShape
  <2> QED BY <1>1, <1>8, <2>2, <2>3 DEF Marks, Owning, Buffers, Records, Structs
<1> QED BY <1>2, <1>3, <1>4, <1>6, <1>7, <1>8, Kind DEF Transparent, Borrowing, Buffers

(* The components of a carrier are of parameters of its type ... *)
LEMMA Parts ==
  ASSUME Setting, NEW t \in Universe, NEW w, IsCarrier(t, w), ~Borrowing(t), NEW i \in DOMAIN w.s
  PROVE  \E j \in DOMAIN t.s : Part(t, w, i) = t.s[j] /\ t.s[j] \in Universe
  BY CarrierShape, PartKnown

(* ... and so are those of a value. *)
LEMMA ValueParts ==
  ASSUME Setting, NEW t \in Universe, NEW v, IsValue(t, v), t.k \notin Transparent, NEW i \in DOMAIN v.s
  PROVE  \E j \in DOMAIN t.s : Part(t, v, i) = t.s[j] /\ t.s[j] \in Universe
  BY ValueShape, PartKnown

(* A node of the right shape around values is a value. *)
LEMMA MakesValue ==
  ASSUME Setting, NEW t \in Universe, NEW v, ValueLayer(t, v),
         t.k \notin Transparent => \A i \in DOMAIN v.s : IsValue(Part(t, v, i), v.s[i])
  PROVE  IsValue(t, v)
  BY DEF Setting, Tied, IsValueRule

(* The kinds of types of two components side by side. *)
PairKinds == {"tup", "arr", "struct", "cstruct", "vstruct", "vcstruct", "trap", "identity", "onevariant"}

(* The type of each component, by kind of type. *)
LEMMA PartsOf ==
  ASSUME Setting, NEW t \in Universe, NEW w, NEW i
  PROVE  /\ t.k \in PairKinds => Part(t, w, i) = t.s[i]
         /\ t.k \in {"box", "slice", "vec", "opt", "copt"} => Part(t, w, i) = t.s[1]
         /\ t.k \in {"res", "cres"} => Part(t, w, i) = (IF w.x \in {"Err", "1"} THEN t.s[2] ELSE t.s[1])
         /\ t.k \in DataEnums => Part(t, w, i) = Payload(t, w)
  BY DEF Part, PairKinds, Records, Structs, DataEnums, ErrSide, Elem

(* The validator says which carriers of a Stable type are values. *)
ValidAre(t) == \A w : IsCarrier(t, w) /\ (Robust(t) \/ (Stable(t) /\ IsValid(t, w))) => IsValue(t, w)

(* For every Stable type, a carrier that is_valid accepts is a value: *)
(* transmuting it gives Rust code nothing it may not hold.            *)
LEMMA ValidValues ==
  ASSUME Setting
  PROVE  \A t \in Universe : ValidAre(t)
<1> DEFINE G == {t \in Universe : ValidAre(t)}
<1>1. ASSUME NEW t \in Universe, \A i \in DOMAIN t.s : t.s[i] \in G PROVE t \in G
  <2> SUFFICES ASSUME NEW w, IsCarrier(t, w), (Stable(t) /\ IsValid(t, w)) \/ Robust(t)
               PROVE  IsValue(t, w)
    BY DEF ValidAre
  <2>1. /\ IsValid(t, w) = IsValidRule(t, w) /\ Robust(t) = RobustRule(t) /\ Stable(t) = StableRule(t)
        /\ CarrierLayer(t, w) /\ (~Borrowing(t) /\ Readable(t, w) => \A i \in DOMAIN w.s : IsCarrier(Part(t, w, i), w.s[i]))
    BY CarrierIs DEF Setting, Tied
  <2>2. \A i \in DOMAIN t.s : ValidAre(t.s[i])
    BY <1>1
  <2>3. CASE t.k \in {"int", "unit"}
    <3>1. ValueLayer(t, w) BY <2>1, <2>3, CarrierLayers, ValueLayers
    <3>3. Scalar(w) \/ w = UnitV BY <2>1, <2>3, CarrierLayers
    <3>2. DOMAIN w.s = {} BY <3>3, Shapes1
    <3> QED BY <3>1, <3>2, MakesValue
  <2>4. CASE t.k \in {"bool", "nz"}
    <3>1. IsValid(t, w) BY <2>4, <2>1 DEF RobustRule
    <3>2. ValueLayer(t, w)
      BY <2>1, <2>4, <3>1, CarrierLayers, ValueLayers DEF IsValidRule, BoolIsValid, NonZeroIsValid, Records, Structs, DataEnums, Fieldless
    <3>4. Scalar(w) BY <2>1, <2>4, CarrierLayers
    <3>3. DOMAIN w.s = {} BY <3>4, Shapes1
    <3> QED BY <3>2, <3>3, MakesValue
  <2>5. CASE t.k \in {"tags", "inferred", "exhaustive"}
    <3>1. IsValid(t, w) /\ t.k # "inferred" BY <2>5, <2>1 DEF RobustRule, StableRule
    <3>2. VariantIn(VariantTags(t), w.x) # 0
      BY <2>1, <2>5, <3>1 DEF IsValidRule, TagsIsValid, Records, Structs, DataEnums, Fieldless
    <3>3. \E i \in DOMAIN Names(t) : w.x = Names(t)[i]
      <4>1. CASE t.k = "tags"
        <5>1. VariantIn(VariantTags(t), w.x) = CASE w.x = "1" -> 1 [] w.x = "2" -> 2 [] OTHER -> 0
          BY <4>1, TagsOf DEF Tagged, Fieldless
        <5> QED BY <5>1, <3>2, <4>1, NamesOf
      <4>2. CASE t.k = "exhaustive"
        <5>1. VariantIn(VariantTags(t), w.x) = CASE w.x = "0" -> 1 [] w.x = "1" -> 2 [] w.x = "2" -> 3 [] w.x = "3" -> 4 [] OTHER -> 0
          BY <4>2, TagsOf DEF Tagged, Fieldless
        <5> QED BY <5>1, <3>2, <4>2, NamesOf
      <4> QED BY <2>5, <3>1, <4>1, <4>2
    <3>4. Scalar(w) BY <2>1, <2>5, CarrierLayers
    <3>5. ValueLayer(t, w) BY <2>5, <3>3, <3>4, ValueLayers
    <3> QED BY <3>4, <3>5, Shapes1, MakesValue
  <2>6. CASE t.k = "single" BY <2>1, <2>6 DEF StableRule, RobustRule
  <2>7. CASE t.k = "box"
    <3>1. Stable(t.s[1]) /\ IsValid(t, w) BY <2>7, <2>1, Kind DEF StableRule, RobustRule
    <3>2. w.a # NoAddr /\ IsValid(t.s[1], w.s[1])
      BY <2>1, <2>7, <3>1 DEF IsValidRule, BoxIsValid, Elem, Records, Structs, DataEnums, Fieldless
    <3>9. w = Null \/ Pointing("box", w) BY <2>1, <2>7, CarrierLayers
    <3>3. Pointing("box", w) BY <3>2, <3>9, Shapes1
    <3>4. ValueLayer(t, w) BY <2>7, <3>3, ValueLayers
    <3>5. DOMAIN w.s = {1} BY <3>3, Shapes1
    <3>6. IsCarrier(t.s[1], w.s[1])
      BY <2>1, <2>7, <3>5, PartsOf DEF Borrowing, Transparent, Readable, DataEnums
    <3>8. ValidAre(t.s[1]) BY <2>2, <2>7, Kind
    <3>7. IsValue(t.s[1], w.s[1]) BY <3>8, <3>1, <3>2, <3>6 DEF ValidAre
    <3> QED BY <2>7, <3>4, <3>5, <3>7, PartsOf, MakesValue
  <2>8. CASE t.k = "vec"
    <3>1. Stable(t.s[1]) /\ IsValid(t, w) BY <2>8, <2>1, Kind DEF StableRule, RobustRule
    <3>2. w.a # NoAddr /\ w.x # "bad" /\ \A i \in DOMAIN w.s : IsValid(t.s[1], w.s[i])
      BY <2>1, <2>8, <3>1 DEF IsValidRule, VecIsValid, Elem, Records, Structs, DataEnums, Fieldless
    <3>9. w = Null \/ Buffered("vec", w) \/ Buffered("bad", w) BY <2>1, <2>8, CarrierLayers
    <3>10. w # Null /\ ~Buffered("bad", w) BY <3>2, Shapes1
    <3>3. Buffered("vec", w) BY <3>9, <3>10
    <3>4. ValueLayer(t, w) BY <2>8, <3>3, ValueLayers
    <3>6. \A i \in DOMAIN w.s : IsCarrier(t.s[1], w.s[i])
      BY <2>1, <2>8, PartsOf DEF Borrowing, Transparent, Readable, DataEnums
    <3>8. ValidAre(t.s[1]) BY <2>2, <2>8, Kind
    <3>7. \A i \in DOMAIN w.s : IsValue(t.s[1], w.s[i]) BY <3>8, <3>1, <3>2, <3>6 DEF ValidAre
    <3> QED BY <2>8, <3>4, <3>7, PartsOf, MakesValue
  <2>9. CASE t.k \in {"slice", "opt", "res", "tup", "struct", "vstruct", "onevariant", "enum"}
    BY <2>1, <2>9 DEF StableRule, RobustRule
  <2>10. CASE t.k = "copt"
    <3>1. Stable(t.s[1]) /\ IsValid(t, w) BY <2>10, <2>1, Kind DEF StableRule, RobustRule
    <3>2. w.x = "0" \/ (w.x = "1" /\ IsValid(t.s[1], w.s[1]))
      BY <2>1, <2>10, <3>1 DEF IsValidRule, OptionIsValid, Elem, Records, Structs, DataEnums, Fieldless
    <3>3. (Scalar(w) /\ w.x # "1") \/ Around("1", NoAddr, w) BY <2>1, <2>10, CarrierLayers
    <3>4. CASE w.x = "0"
      <4>1. w = Zeroed BY <3>3, <3>4, Shapes1 DEF Zeroed
      <4>2. ValueLayer(t, w) BY <2>10, <4>1, ValueLayers
      <4> QED BY <4>1, <4>2, Shapes1, MakesValue
    <3>5. CASE w.x = "1" /\ IsValid(t.s[1], w.s[1])
      <4>1. Around("1", NoAddr, w) /\ DOMAIN w.s = {1} BY <3>3, <3>5, Shapes1
      <4>2. ValueLayer(t, w) BY <2>10, <4>1, ValueLayers
      <4>3. IsCarrier(t.s[1], w.s[1]) BY <2>1, <2>10, <4>1, PartsOf DEF Borrowing, Transparent, Readable, DataEnums
      <4>5. ValidAre(t.s[1]) BY <2>2, <2>10, Kind
      <4>4. IsValue(t.s[1], w.s[1]) BY <4>5, <3>1, <3>5, <4>3 DEF ValidAre
      <4> QED BY <2>10, <4>1, <4>2, <4>4, PartsOf, MakesValue
    <3> QED BY <3>2, <3>4, <3>5
  <2>11. CASE t.k = "cres"
    <3>1. Stable(t.s[1]) /\ Stable(t.s[2]) /\ IsValid(t, w) BY <2>11, <2>1, Kind DEF StableRule, RobustRule
    <3>2. (w.x = "0" /\ IsValid(t.s[1], w.s[1])) \/ (w.x = "1" /\ IsValid(t.s[2], w.s[1]))
      BY <2>1, <2>11, <3>1 DEF IsValidRule, ResultIsValid, Elem, Records, Structs, DataEnums, Fieldless
    <3>3. TagAndPayload({"0", "1"}, w) BY <2>1, <2>11, CarrierLayers
    <3>4. Around(w.x, NoAddr, w) BY <3>2, <3>3 DEF TagAndPayload
    <3>5. DOMAIN w.s = {1} BY <3>4, Shapes1
    <3>6. ValueLayer(t, w) BY <2>11, <3>2, <3>4, ValueLayers
    <3>9. ~Borrowing(t) /\ Readable(t, w)
      <4>1. w.x \in {"0", "1"} BY <3>2
      <4> QED BY <4>1, <2>11 DEF Borrowing, Transparent, Readable, DataEnums
    <3>7. IsCarrier(Part(t, w, 1), w.s[1]) BY <2>1, <3>9, <3>5
    <3>10. ValidAre(t.s[1]) /\ ValidAre(t.s[2]) BY <2>2, <2>11, Kind
    <3>11. Part(t, w, 1) = (IF w.x \in {"Err", "1"} THEN t.s[2] ELSE t.s[1]) BY <2>11, PartsOf
    <3>12. Stable(Part(t, w, 1)) /\ IsValid(Part(t, w, 1), w.s[1]) /\ ValidAre(Part(t, w, 1)) BY <3>1, <3>2, <3>10, <3>11
    <3>8. IsValue(Part(t, w, 1), w.s[1]) BY <3>7, <3>12 DEF ValidAre
    <3> QED BY <3>5, <3>6, <3>8, MakesValue
  <2>12. CASE t.k \in {"arr", "cstruct", "vcstruct", "trap", "identity"}
    <3>1. DOMAIN t.s = {1, 2} BY <2>12, Kind
    <3>10. Pair(w) BY <2>1, <2>12, CarrierLayers
    <3>2. Pair(w) /\ DOMAIN w.s = {1, 2} BY <3>10, Shapes1
    <3>3. \A i \in {1, 2} : IsCarrier(t.s[i], w.s[i])
      BY <2>1, <2>12, <3>2, PartsOf DEF Borrowing, Transparent, Readable, DataEnums, PairKinds
    <3>4. (\A i \in {1, 2} : Robust(t.s[i])) \/ (\A i \in {1, 2} : Stable(t.s[i]) /\ IsValid(t.s[i], w.s[i]))
      <4>1. CASE Robust(t) BY <4>1, <2>1, <2>12, <3>1 DEF RobustRule
      <4>2. CASE Stable(t) /\ IsValid(t, w) /\ t.k # "identity"
        <5>1. \A i \in {1, 2} : Stable(t.s[i]) BY <4>2, <2>1, <2>12, <3>1 DEF StableRule
        <5>2. \A i \in {1, 2} : IsValid(t.s[i], w.s[i])
          BY <4>2, <2>1, <2>12, <3>2 DEF IsValidRule, ArrayIsValid, StructIsValid, Records, Structs, DataEnums, Fieldless
        <5> QED BY <5>1, <5>2
      <4>3. CASE t.k = "identity"
        <5>1. t.s[1] = Integer /\ t.s[2] = Integer /\ t.s[1] \in Universe BY <4>3, <3>1, Kind
        <5>2. Robust(Integer) = RobustRule(Integer) BY <5>1 DEF Setting, Tied
        <5>3. Integer.k = "int" BY DEF Integer, Ty
        <5>4. RobustRule(Integer) BY <5>3 DEF RobustRule
        <5> QED BY <5>1, <5>2, <5>4
      <4> QED BY <4>1, <4>2, <4>3
    <3>8. ValidAre(t.s[1]) /\ ValidAre(t.s[2]) BY <2>2, <3>1
    <3>5. \A i \in {1, 2} : IsValue(t.s[i], w.s[i]) BY <3>8, <3>3, <3>4 DEF ValidAre
    <3>6. Satisfies(t, w)
      <4>1. t.k = "vcstruct" => IsValid(t, w) BY <2>1 DEF RobustRule
      <4> QED BY <4>1, <2>1, <2>12 DEF Satisfies, IsValidRule, StructIsValid, Records, Structs, DataEnums, Fieldless
    <3>7. ValueLayer(t, w) BY <2>12, <3>2, <3>6, ValueLayers
    <3> QED BY <2>12, <3>2, <3>5, <3>7, PartsOf, MakesValue DEF PairKinds
  <2>13. CASE t.k = "cenum"
    <3>1. Stable(t.s[1]) /\ Stable(t.s[2]) /\ IsValid(t, w) /\ DOMAIN t.s = {1, 2}
      BY <2>13, <2>1, Kind DEF StableRule, RobustRule
    <3>2. VariantIn(VariantTags(t), w.x) # 0 /\ \A i \in DOMAIN w.s : IsValid(Payload(t, w), w.s[i])
      BY <2>1, <2>13, <3>1 DEF IsValidRule, EnumIsValid, Records, Structs, DataEnums, Fieldless
    <3>3. VariantIn(VariantTags(t), w.x) = CASE w.x = "1" -> 1 [] w.x = "2" -> 2 [] OTHER -> 0
      BY <2>13, TagsOf DEF Tagged, DataEnums
    <3>4. w.x \in {"1", "2"} /\ VariantIn(VariantTags(t), w.x) \in DOMAIN t.s BY <3>1, <3>2, <3>3
    <3>5. EnumCarrier(t, w) BY <2>1, <2>13, CarrierLayers
    <3>6. TagAndPayload({w.x}, w) BY <3>4, <3>5, <3>2 DEF EnumCarrier
    <3>7. Around(w.x, NoAddr, w) /\ DOMAIN w.s = {1} BY <3>6, Shapes1 DEF TagAndPayload
    <3>8. ValueLayer(t, w)
      <4>1. \E i \in DOMAIN Names(t) : i \in DOMAIN t.s /\ Around(Names(t)[i], NoAddr, w)
        BY <2>13, <3>1, <3>4, <3>7, NamesOf
      <4> QED BY <2>13, <4>1, ValueLayers
    <3>9. Part(t, w, 1) = Payload(t, w) /\ \E j \in DOMAIN t.s : Part(t, w, 1) = t.s[j]
      BY <2>13, <3>1, PartsOf, PartKnown DEF DataEnums, Records, Structs
    <3>10. IsCarrier(Part(t, w, 1), w.s[1])
      BY <2>1, <2>13, <3>2, <3>7 DEF Borrowing, Transparent, Readable, KnownTag
    <3>12. ValidAre(Part(t, w, 1)) /\ Stable(Part(t, w, 1)) BY <2>2, <3>1, <3>9
    <3>13. IsValid(Part(t, w, 1), w.s[1]) BY <3>2, <3>7, <3>9
    <3>11. IsValue(Part(t, w, 1), w.s[1]) BY <3>12, <3>13, <3>10 DEF ValidAre
    <3> QED BY <3>7, <3>8, <3>11, MakesValue
  <2>14. CASE t.k \in Transparent
    <3>1. DOMAIN t.s = {1} BY <2>14, Kind DEF Transparent
    <3>2. IsCarrier(t.s[1], w) BY <2>1, <2>14, CarrierLayers DEF Transparent, Elem
    <3>3. Robust(t.s[1]) \/ (Stable(t.s[1]) /\ IsValid(t.s[1], w))
      <4>1. CASE Robust(t)
        <5>1. \A i \in DOMAIN t.s : Robust(t.s[i]) BY <4>1, <2>1, <2>14 DEF RobustRule, Transparent
        <5>2. 1 \in DOMAIN t.s BY <3>1
        <5> QED BY <5>1, <5>2
      <4>2. CASE ~Robust(t)
        <5>1. Stable(t.s[1]) BY <4>2, <2>1, <2>14, <3>1 DEF StableRule, Transparent
        <5>2. IsValid(t.s[1], w)
          BY <4>2, <2>1, <2>14 DEF IsValidRule, ManualIsValid, CellIsValid, NewtypeIsValid, Elem, Transparent, Records, Structs, DataEnums, Fieldless
        <5> QED BY <5>1, <5>2
      <4> QED BY <4>1, <4>2
    <3>6. ValidAre(t.s[1]) BY <2>2, <3>1
    <3>4. IsValue(t.s[1], w) BY <3>6, <3>2, <3>3 DEF ValidAre
    <3>5. ValueLayer(t, w) BY <2>14, <3>4, ValueLayers DEF Transparent, Elem
    <3> QED BY <2>14, <3>5, MakesValue
  <2> QED BY <2>3, <2>4, <2>5, <2>6, <2>7, <2>8, <2>9, <2>10, <2>11, <2>12, <2>13, <2>14, Kind DEF Transparent
<1> HIDE DEF G
<1>2. Universe \subseteq G BY <1>1, RankInduction DEF Setting
<1> QED BY <1>2 DEF G

-----------------------------------------------------------------------------
(* Decoding. *)

(* What a decoder owes: it moves the allocations, and what it accepts is a *)
(* value.                                                                  *)
DecodedAs(t, w, p, r) == Moved(w, p, r) /\ (r.ok => IsValue(t, r.n))

(* The type's decoder does so for whatever carrier and whatever store. *)
Decodes(t) ==
  \A w, st, r : \A p \in Seq(Nat) :
    IsCarrier(t, w) /\ Sole(w) /\ Avoids(w, p) /\ r = Decode(t, w, p, st) => DecodedAs(t, w, p, r)

(* The fields of an answer. *)
LEMMA Answers ==
  /\ \A n : Kept(n).ok /\ Kept(n).n = n /\ Kept(n).new = {} /\ Kept(n).old = {}
  /\ \A n, new, old, st : /\ Answer(n, new, old, st).ok /\ Answer(n, new, old, st).n = n
                          /\ Answer(n, new, old, st).new = new /\ Answer(n, new, old, st).old = old
  /\ \A new, old : ~Refused(new, old).ok /\ Refused(new, old).new = new /\ Refused(new, old).old = old
  BY DEF Kept, Answer, Refused

(* The answers of a single component. *)
LEMMA Alone ==
  ASSUME NEW r
  PROVE  /\ Nodes(<<r>>) = <<r.n>> /\ News(<<r>>) = r.new /\ Olds(<<r>>) = r.old
         /\ DOMAIN <<r>> = {1} /\ <<r>>[1] = r
<1>1. DOMAIN <<r>> = {1} /\ <<r>>[1] = r /\ DOMAIN <<r.n>> = {1} /\ <<r.n>>[1] = r.n
  OBVIOUS
<1>2. Nodes(<<r>>) = <<r.n>>
  <2>1. DOMAIN Nodes(<<r>>) = {1} /\ Nodes(<<r>>)[1] = r.n /\ Nodes(<<r>>) = [i \in {1} |-> <<r>>[i].n]
    BY <1>1 DEF Nodes
  <2> QED BY <2>1
<1>3. News(<<r>>) = r.new
  <2>1. {<<r>>[i].new : i \in {1}} = {r.new} BY <1>1
  <2> QED BY <1>1, <2>1 DEF News
<1>4. Olds(<<r>>) = r.old
  <2>1. {<<r>>[i].old : i \in {1}} = {r.old} BY <1>1
  <2> QED BY <1>1, <2>1 DEF Olds
<1> QED BY <1>1, <1>2, <1>3, <1>4

(* A tag around a node owns what the node owns. *)
LEMMA Around1 ==
  ASSUME Reading, NEW x, NEW r, x \notin Marks, Sole(r.n)
  PROVE  /\ Around(x, NoAddr, Node(x, NoAddr, <<r.n>>))
         /\ Allocs(Node(x, NoAddr, <<r.n>>)) = Allocs(r.n) /\ Sole(Node(x, NoAddr, <<r.n>>))
         /\ Node(x, NoAddr, <<r.n>>).s[1] = r.n
<1>1. Node(x, NoAddr, <<r.n>>).s = <<r.n>> /\ DOMAIN <<r.n>> = {1} /\ <<r.n>>[1] = r.n
  BY Nodes1
<1>2. /\ Sole(Node(x, NoAddr, Nodes(<<r>>)))
      /\ Allocs(Node(x, NoAddr, Nodes(<<r>>))) = UNION {Allocs(<<r>>[i].n) : i \in DOMAIN <<r>>}
  <2>1. x \notin {"ref", "mut"} /\ x \notin Owning BY DEF Marks
  <2>2. /\ Sole(Node(x, NoAddr, Nodes(<<r>>)))
        /\ Allocs(Node(x, NoAddr, Nodes(<<r>>))) = (IF x \in Owning THEN {NoAddr} ELSE {})
                                                   \cup (UNION {Allocs(<<r>>[i].n) : i \in DOMAIN <<r>>})
    BY <2>1, Alone, NodeAllocs
  <2> QED BY <2>1, <2>2
<1>3. {Allocs(<<r>>[i].n) : i \in DOMAIN <<r>>} = {Allocs(r.n)}
  BY Alone
<1> QED BY <1>1, <1>2, <1>3, Alone DEF Around

(* Decoding a component of a carrier, when decoders of parameters do what *)
(* they owe.                                                              *)
LEMMA PartGiven ==
  ASSUME Setting, NEW t \in Universe, NEW w, IsCarrier(t, w), ~Borrowing(t), Readable(t, w),
         Sole(w), NEW p \in Seq(Nat), Avoids(w, p), \A j \in DOMAIN t.s : Decodes(t.s[j]),
         NEW i \in DOMAIN w.s, NEW st, NEW r, r = Decode(Part(t, w, i), w.s[i], Append(p, i), st)
  PROVE  DecodedAs(Part(t, w, i), w.s[i], Append(p, i), r) /\ OwnedIn(Part(t, w, i)) /\ Allocs(w.s[i]) \subseteq Allocs(w)
<1>1. PICK j \in DOMAIN t.s : Part(t, w, i) = t.s[j] /\ t.s[j] \in Universe BY Parts
<1>2. IsCarrier(Part(t, w, i), w.s[i]) /\ i \in Nat /\ w.x \notin {"ref", "mut"} BY CarrierShape
<1>3. Allocs(w) = Here(w) \cup Below(w) /\ Sole(w.s[i])
  BY <1>2 DEF Setting, Reading, AllocsRule, SoleRule
<1>4. Allocs(w.s[i]) \subseteq Allocs(w) BY <1>3 DEF Below
<1>5. Append(p, i) \in Seq(Nat) /\ Avoids(w.s[i], Append(p, i))
  BY <1>2, <1>4, UnderAppend DEF Avoids
<1>6. Decodes(Part(t, w, i)) BY <1>1
<1>7. DecodedAs(Part(t, w, i), w.s[i], Append(p, i), r)
  BY <1>2, <1>3, <1>5, <1>6 DEF Decodes
<1>8. OwnedIn(Part(t, w, i)) BY <1>1, Owns
<1> QED BY <1>4, <1>7, <1>8

(* Decoding all components, when decoders of parameters do what they owe. *)
LEMMA PartsGiven ==
  ASSUME Setting, NEW t \in Universe, NEW w, IsCarrier(t, w), ~Borrowing(t), Readable(t, w),
         Sole(w), NEW p \in Seq(Nat), Avoids(w, p), \A j \in DOMAIN t.s : Decodes(t.s[j]),
         NEW rs, DOMAIN rs = DOMAIN w.s,
         \A i \in DOMAIN w.s : \E st : rs[i] = Decode(Part(t, w, i), w.s[i], Append(p, i), st)
  PROVE  /\ \A i \in DOMAIN w.s : Moved(w.s[i], Append(p, i), rs[i])
         /\ \A i \in DOMAIN w.s : rs[i].ok => IsValue(Part(t, w, i), rs[i].n)
         /\ Reclaims(t, w, rs)
<1>1. ASSUME NEW i \in DOMAIN w.s
      PROVE  DecodedAs(Part(t, w, i), w.s[i], Append(p, i), rs[i]) /\ OwnedIn(Part(t, w, i))
  <2>1. PICK st : rs[i] = Decode(Part(t, w, i), w.s[i], Append(p, i), st) OBVIOUS
  <2> QED BY <2>1, PartGiven
<1> QED BY <1>1 DEF DecodedAs, OwnedIn, Reclaims

(* Every carrier of a type is decoded by the type's rule. *)
LEMMA DecodesByRule ==
  ASSUME Setting, NEW t \in Universe, NEW w, IsCarrier(t, w), NEW p, NEW st
  PROVE  Decode(t, w, p, st) = DecodeRule(t, w, p, st)
  BY DEF Setting, Tied

(* A node without components that is no pointer owns nothing. *)
LEMMA ScalarOwnsNothing ==
  ASSUME Setting, NEW n, DOMAIN n.s = {}, n.x \notin Marks
  PROVE  Allocs(n) = {} /\ Sole(n)
<1>1. Here(n) = {} /\ n.x \notin {"ref", "mut"} BY DEF Here, Marks
<1>2. Below(n) = {} BY DEF Below
<1> QED BY <1>1, <1>2 DEF Setting, Reading, AllocsRule, SoleRule

(* Taking the carrier itself for the value is right when it is one. *)
LEMMA KeptDecoded ==
  ASSUME NEW t, NEW w, NEW p, Sole(w), IsValue(t, w), NEW r, r = Kept(w)
  PROVE  DecodedAs(t, w, p, r)
<1>1. Moved(w, p, r) BY KeptMoved
<1>2. r.n = w BY Answers
<1> QED BY <1>1, <1>2 DEF DecodedAs

(* Refusing is right as long as it frees nothing that was not given. *)
LEMMA RefusedDecoded ==
  ASSUME NEW t, NEW w, NEW p, NEW X, X \subseteq Allocs(w), NEW r, r = Refused({}, X)
  PROVE  DecodedAs(t, w, p, r)
<1>1. Moved(w, p, r) BY RefusedMoved
<1>2. ~r.ok BY Answers
<1> QED BY <1>1, <1>2 DEF DecodedAs

(* The variant a known tag selects, by the name values of the type give it. *)
LEMMA SelectedNames ==
  ASSUME Setting, NEW t \in Universe, t.k \in Tagged, NEW w, KnownTag(t, w)
  PROVE  /\ VariantIn(VariantTags(t), w.x) \in DOMAIN Names(t)
         /\ Selected(t, w) = Names(t)[VariantIn(VariantTags(t), w.x)]
         /\ Selected(t, w) \notin Marks
         /\ \A v : v.x = Selected(t, w) => VariantOf(t, v) = VariantIn(VariantTags(t), w.x)
<1>1. Stable(t) = StableRule(t)
  BY DEF Setting, Tied
<1>2. /\ t.k \in {"enum", "inferred"} => ~Stable(t)
      /\ t.k \in {"tags", "exhaustive"} => Stable(t)
  BY <1>1 DEF StableRule
<1>3. VariantIn(VariantTags(t), w.x) # 0 BY DEF KnownTag
<1>4. CASE t.k = "enum"
  <2>1. \A x : VariantIn(VariantTags(t), x) = CASE x = "0" -> 1 [] x = "1" -> 2 [] x = "2" -> 3 [] OTHER -> 0
    BY <1>4, TagsOf DEF Tagged, DataEnums
  <2>2. Selected(t, w) = VariantNames[VariantIn(VariantTags(t), w.x)]
    BY <1>2, <1>3, <1>4 DEF Selected, VariantOf
  <2>3. VariantNames[1] = "A" /\ VariantNames[2] = "B" /\ VariantNames[3] = "C" BY DEF VariantNames
  <2>4. w.x \in {"0", "1", "2"} BY <1>3, <2>1
  <2> QED BY <1>4, <2>1, <2>2, <2>3, <2>4, NamesOf, VariantByName DEF VariantOf, Marks, Owning
<1>5. CASE t.k = "inferred"
  <2>1. \A x : VariantIn(VariantTags(t), x) = CASE x = "0" -> 1 [] x = "1" -> 2 [] OTHER -> 0
    BY <1>5, TagsOf DEF Tagged, Fieldless
  <2>2. Selected(t, w) = VariantNames[VariantIn(VariantTags(t), w.x)]
    BY <1>2, <1>3, <1>5 DEF Selected, VariantOf
  <2>3. VariantNames[1] = "A" /\ VariantNames[2] = "B" /\ VariantNames[3] = "C" BY DEF VariantNames
  <2>4. w.x \in {"0", "1"} BY <1>3, <2>1
  <2> QED BY <1>5, <2>1, <2>2, <2>3, <2>4, NamesOf, VariantByName DEF VariantOf, Marks, Owning
<1>6. CASE t.k \in {"cenum", "tags"}
  <2>1. \A x : VariantIn(VariantTags(t), x) = CASE x = "1" -> 1 [] x = "2" -> 2 [] OTHER -> 0
    BY <1>6, TagsOf DEF Tagged, DataEnums, Fieldless
  <2>2. Selected(t, w) = w.x
    BY <1>2, <1>6 DEF Selected
  <2>4. w.x \in {"1", "2"} BY <1>3, <2>1
  <2> QED BY <1>6, <2>1, <2>2, <2>4, NamesOf DEF VariantOf, Marks, Owning
<1>7. CASE t.k = "exhaustive"
  <2>1. \A x : VariantIn(VariantTags(t), x) = CASE x = "0" -> 1 [] x = "1" -> 2 [] x = "2" -> 3 [] x = "3" -> 4 [] OTHER -> 0
    BY <1>7, TagsOf DEF Tagged, Fieldless
  <2>2. Selected(t, w) = w.x
    BY <1>2, <1>7 DEF Selected
  <2>4. w.x \in {"0", "1", "2", "3"} BY <1>3, <2>1
  <2> QED BY <1>7, <2>1, <2>2, <2>4, NamesOf DEF VariantOf, Marks, Owning
<1> QED BY <1>4, <1>5, <1>6, <1>7 DEF Tagged, DataEnums, Fieldless

(* Scalars, the unit, fieldless enums and structs that are their own carrier *)
(* decode to values.                                                         *)
LEMMA LeafDecodes ==
  ASSUME Setting, NEW t \in Universe,
         t.k \in {"int", "bool", "nz", "unit", "single", "identity"} \cup Fieldless
  PROVE  Decodes(t)
<1> SUFFICES ASSUME NEW w, NEW st, NEW p \in Seq(Nat), IsCarrier(t, w), Sole(w), Avoids(w, p),
                    NEW r, r = Decode(t, w, p, st)
             PROVE  DecodedAs(t, w, p, r)
  BY DEF Decodes
<1>1. CarrierLayer(t, w) BY CarrierIs
<1>2. r = DecodeRule(t, w, p, st) BY DecodesByRule
<1>3. CASE t.k \in {"int", "unit", "bool", "nz"}
  <2>1. r = Kept(w) \/ r = Refused({}, {})
    BY <1>2, <1>3 DEF DecodeRule, Structs, DataEnums, Fieldless, IntDecode, UnitDecode, BoolDecode, NonZeroDecode
  <2>2. t.k = "bool" => r = BoolDecode(w)
    BY <1>2, <1>3 DEF DecodeRule, Structs, DataEnums, Fieldless
  <2>3. t.k = "nz" => r = NonZeroDecode(w)
    BY <1>2, <1>3 DEF DecodeRule, Structs, DataEnums, Fieldless
  <2>4. r.ok => (t.k = "bool" => w.x \in {"0", "1"}) /\ (t.k = "nz" => w.x # "0")
    BY <2>2, <2>3, Answers DEF BoolDecode, NonZeroDecode
  <2>5. CASE r = Kept(w)
    <3>1. r.ok BY <2>5, Answers
    <3>2. ValueLayer(t, w) BY <1>1, <1>3, <2>4, <3>1, CarrierLayers, ValueLayers
    <3>5. Scalar(w) \/ w = UnitV BY <1>1, <1>3, CarrierLayers
    <3>3. DOMAIN w.s = {} BY <3>5, Shapes1
    <3>4. IsValue(t, w) BY <3>2, <3>3, MakesValue
    <3> QED BY <2>5, <3>4, KeptDecoded
  <2> QED BY <2>1, <2>5, RefusedDecoded
<1>4. CASE t.k = "identity"
  <2>1. r = Kept(w)
    BY <1>2, <1>4 DEF DecodeRule, Structs, DataEnums, Fieldless, IdentityDecode
  <2>2. t.s[1] = Integer /\ t.s[2] = Integer /\ Integer \in Universe /\ DOMAIN t.s = {1, 2} BY <1>4, Kind
  <2>3. Robust(Integer) = RobustRule(Integer) /\ Robust(t) = RobustRule(t) BY <2>2 DEF Setting, Tied
  <2>4. Integer.k = "int" BY DEF Integer, Ty
  <2>5. RobustRule(Integer) BY <2>4 DEF RobustRule
  <2>6. Robust(t) BY <1>4, <2>2, <2>3, <2>5 DEF RobustRule
  <2>7. IsValue(t, w) BY <2>6, ValidValues DEF ValidAre
  <2> QED BY <2>1, <2>7, KeptDecoded
<1>5. CASE t.k = "single"
  <2>1. r = Kept(UnitV)
    BY <1>2, <1>5 DEF DecodeRule, Structs, DataEnums, Fieldless, SingleDecode
  <2>2. w = UnitV BY <1>1, <1>5, CarrierLayers
  <2>3. ValueLayer(t, w) BY <1>5, <2>2, ValueLayers
  <2>4. IsValue(t, w) BY <2>2, <2>3, Shapes1, MakesValue
  <2> QED BY <2>1, <2>2, <2>4, KeptDecoded
<1>6. CASE t.k \in Fieldless
  <2>1. r = FieldlessDecode(t, w)
    BY <1>2, <1>6 DEF DecodeRule, Structs, DataEnums, Fieldless
  <2>2. Scalar(w) BY <1>1, <1>6, CarrierLayers DEF Fieldless
  <2>3. CASE ~KnownTag(t, w)
    <3>1. r = Refused({}, {}) BY <2>1, <2>3 DEF FieldlessDecode
    <3> QED BY <3>1, RefusedDecoded
  <2>4. CASE KnownTag(t, w)
    <3>1. r = Kept(Atom(Selected(t, w))) BY <2>1, <2>4 DEF FieldlessDecode
    <3>2. \E i \in DOMAIN Names(t) : Selected(t, w) = Names(t)[i]
      BY <1>6, <2>4, SelectedNames DEF Tagged
    <3>3. Selected(t, w) \notin Marks BY <1>6, <2>4, SelectedNames DEF Tagged
    <3> DEFINE v == Atom(Selected(t, w))
    <3>4. v.x = Selected(t, w) /\ v.s = <<>> /\ DOMAIN v.s = {} BY Nodes1
    <3> HIDE DEF v
    <3>5. Scalar(v) BY <3>3, <3>4 DEF Scalar, v
    <3>6. IsValue(t, v)
      <4>1. ValueLayer(t, v) BY <1>6, <3>2, <3>4, <3>5, ValueLayers DEF Fieldless
      <4> QED BY <3>4, <4>1, MakesValue
    <3>7. Allocs(v) = {} /\ Sole(v) BY <3>5, Shapes1, ScalarOwnsNothing
    <3>8. Allocs(w) = {} BY <2>2, Shapes1, ScalarOwnsNothing
    <3>9. r = Kept(v) BY <3>1 DEF v
    <3>10. Moved(w, p, r) BY <3>7, <3>8, <3>9, Answers DEF Moved
    <3> QED BY <3>6, <3>9, <3>10, Answers DEF DecodedAs
  <2> QED BY <2>3, <2>4
<1> QED BY <1>3, <1>4, <1>5, <1>6

(* ManuallyDrop, the cells and newtypes decode as their content, or *)
(* transmute what validation accepts.                               *)
LEMMA TransparentDecodes ==
  ASSUME Setting, NEW t \in Universe, t.k \in Transparent, \A j \in DOMAIN t.s : Decodes(t.s[j])
  PROVE  Decodes(t)
<1> SUFFICES ASSUME NEW w, NEW st, NEW p \in Seq(Nat), IsCarrier(t, w), Sole(w), Avoids(w, p),
                    NEW r, r = Decode(t, w, p, st)
             PROVE  DecodedAs(t, w, p, r)
  BY DEF Decodes
<1> DEFINE q == Decode(t.s[1], w, p, st)
<1>1. r = DecodeRule(t, w, p, st) BY DecodesByRule
<1>2. DOMAIN t.s = {1} /\ t.s[1] \in Universe BY Kind DEF Transparent
<1>3. IsCarrier(t.s[1], w)
  <2>1. CarrierLayer(t, w) BY CarrierIs
  <2> QED BY <2>1, CarrierLayers DEF Transparent, Elem
<1>4. DecodedAs(t.s[1], w, p, q)
  <2>1. Decodes(t.s[1]) BY <1>2
  <2> QED BY <1>3, <2>1 DEF Decodes
<1>5. \A v : IsValue(t.s[1], v) => IsValue(t, v)
  <2> SUFFICES ASSUME NEW v, IsValue(t.s[1], v) PROVE IsValue(t, v) OBVIOUS
  <2>1. ValueLayer(t, v) BY ValueLayers DEF Transparent, Elem
  <2> QED BY <2>1, MakesValue
<1>6. CASE t.k \in {"md", "newtype"} \/ ~Robust(t.s[1])
  <2>1. r = q
    BY <1>1, <1>6 DEF DecodeRule, Structs, DataEnums, Fieldless, Transparent, ManualDecode, NewtypeDecode,
                      CellDecode, UnsafeCellDecode, Elem
  <2> HIDE DEF q
  <2> QED BY <2>1, <1>4, <1>5 DEF DecodedAs
<1>7. CASE t.k = "cell" /\ Robust(t.s[1])
  <2>1. r = Kept(w)
    BY <1>1, <1>7 DEF DecodeRule, Structs, DataEnums, Fieldless, CellDecode, Elem
  <2>2. IsValue(t, w) BY <1>2, <1>3, <1>5, <1>7, ValidValues DEF ValidAre
  <2> QED BY <2>1, <2>2, KeptDecoded
<1> QED BY <1>6, <1>7 DEF Transparent

(* A box decodes to a box of a decoded value: the null pointer is refused, *)
(* and an Unstable content moves to a new allocation while the old one is  *)
(* freed.                                                                  *)
LEMMA BoxDecodes ==
  ASSUME Setting, NEW t \in Universe, t.k = "box", \A j \in DOMAIN t.s : Decodes(t.s[j])
  PROVE  Decodes(t)
<1> SUFFICES ASSUME NEW w, NEW st, NEW p \in Seq(Nat), IsCarrier(t, w), Sole(w), Avoids(w, p),
                    NEW r, r = Decode(t, w, p, st)
             PROVE  DecodedAs(t, w, p, r)
  BY DEF Decodes
<1>1. r = DecodeRule(t, w, p, st) BY DecodesByRule
<1>2. DOMAIN t.s = {1} /\ t.s[1] \in Universe BY Kind
<1>3. w = Null \/ Pointing("box", w)
  <2>1. CarrierLayer(t, w) BY CarrierIs
  <2> QED BY <2>1, CarrierLayers
<1>4. ~Borrowing(t) /\ Readable(t, w) BY DEF Borrowing, Transparent, Readable, DataEnums
<1>5. CASE Stable(t.s[1])
  <2>1. r = BoxStableDecode(t, w)
    BY <1>1, <1>5 DEF DecodeRule, Structs, DataEnums, Fieldless, Elem
  <2>2. CASE IsValid(t, w)
    <3>1. Stable(t)
      <4>1. Stable(t) = StableRule(t) BY DEF Setting, Tied
      <4> QED BY <1>2, <1>5, <4>1 DEF StableRule
    <3>2. IsValue(t, w) BY <2>2, <3>1, ValidValues DEF ValidAre
    <3> QED BY <2>1, <2>2, <3>2, KeptDecoded DEF BoxStableDecode
  <2>3. CASE ~IsValid(t, w)
    BY <2>1, <2>3, RefusedDecoded DEF BoxStableDecode
  <2> QED BY <2>2, <2>3
<1>6. CASE ~Stable(t.s[1])
  <2> DEFINE c == Decode(t.s[1], w.s[1], Append(p, 1), Sub(st, 1))
  <2>1. r = BoxUnstableDecode(w, p, c)
    BY <1>1, <1>6 DEF DecodeRule, Structs, DataEnums, Fieldless, Elem
  <2>2. CASE w.a = NoAddr
    BY <2>1, <2>2, RefusedDecoded DEF BoxUnstableDecode
  <2>3. CASE w.a # NoAddr
    <3>1. Pointing("box", w) BY <1>3, <2>3, Shapes1
    <3>2. w.x = "box" /\ DOMAIN w.s = {1} BY <3>1, Shapes1
    <3>3. Part(t, w, 1) = t.s[1] BY PartsOf
    <3>4. /\ Moved(w.s[1], Append(p, 1), c) /\ Allocs(w.s[1]) \subseteq Allocs(w)
          /\ c.ok => IsValue(t.s[1], c.n)
      <4>1. c = Decode(Part(t, w, 1), w.s[1], Append(p, 1), Sub(st, 1)) BY <3>3
      <4>2. 1 \in DOMAIN w.s BY <3>2
      <4> HIDE DEF c
      <4>3. DecodedAs(Part(t, w, 1), w.s[1], Append(p, 1), c) /\ Allocs(w.s[1]) \subseteq Allocs(w)
        BY <1>4, <4>1, <4>2, PartGiven
      <4> QED BY <3>3, <4>3 DEF DecodedAs
    <3> HIDE DEF c
    <3>5. Allocs(w) = {w.a} \cup Below(w) BY <3>2 DEF Setting, Reading, AllocsRule, Here, Owning
    <3>6. CASE c.ok
      <4> DEFINE v == Node("box", Home(p), <<c.n>>)
      <4>1. r = Answer(v, c.new \cup {Home(p)}, c.old \cup {w.a}, Within("box", <<c.st>>))
        BY <2>1, <2>3, <3>6 DEF BoxUnstableDecode
      <4>2. Moved(w, p, Answer(Node("box", Home(p), Nodes(<<c>>)), News(<<c>>) \cup {Home(p)}, Olds(<<c>>) \cup {w.a},
                               Within("box", <<c.st>>)))
        <5>1. DOMAIN <<c>> = DOMAIN w.s /\ DOMAIN w.s \subseteq Nat \ {0} BY <3>2, Alone
        <5>2. \A i \in DOMAIN w.s : Moved(w.s[i], Append(p, i), <<c>>[i]) BY <3>2, <3>4, Alone
        <5>3. \A i \in DOMAIN <<c>> : <<c>>[i].ok BY <3>6, Alone
        <5>4. "box" \in Owning /\ w.x \in Owning BY <3>2 DEF Owning
        <5> QED BY <5>1, <5>2, <5>3, <5>4, BoxMoved DEF Setting
      <4>3. Moved(w, p, r) BY <4>1, <4>2, Alone
      <4>4. Home(p) # NoAddr BY HomeApart, 1 \in Nat
      <4>5. v.x = "box" /\ v.a = Home(p) /\ v.s = <<c.n>> /\ DOMAIN v.s = {1} /\ v.s[1] = c.n
        BY Nodes1
      <4>6. r.n = v BY <4>1, Answers
      <4>7. Pointing("box", v) BY <4>4, <4>5 DEF Pointing, Around
      <4> HIDE DEF v
      <4>8. ValueLayer(t, v) BY <4>7, ValueLayers
      <4>9. \A i \in DOMAIN v.s : IsValue(Part(t, v, i), v.s[i])
        BY <3>4, <3>6, <4>5, PartsOf
      <4>10. IsValue(t, v) BY <4>8, <4>9, MakesValue
      <4> QED BY <4>3, <4>6, <4>10 DEF DecodedAs
    <3>7. CASE ~c.ok
      <4>1. r = Refused(c.new, c.old \cup {w.a}) BY <2>1, <2>3, <3>7 DEF BoxUnstableDecode
      <4>2. Under(Append(p, 1)) \subseteq Under(p) BY UnderAppend, 1 \in Nat
      <4>3. Moved(w, p, r) BY <3>4, <3>5, <3>7, <4>1, <4>2, Answers DEF Moved
      <4> QED BY <4>1, <4>3, Answers DEF DecodedAs
    <3> QED BY <3>6, <3>7
  <2> QED BY <2>2, <2>3
<1> QED BY <1>5, <1>6

(* Converting the elements of a sequence keeps its length. *)
LEMMA NodesTuple ==
  ASSUME NEW s, Tuple(s), NEW rs, DOMAIN rs = DOMAIN s
  PROVE  Tuple(Nodes(rs))
<1>1. PICK n \in Nat : DOMAIN s = 1..n BY DEF Tuple
<1>2. Nodes(rs) = [i \in 1..n |-> rs[i].n] BY <1>1 DEF Nodes
<1> DEFINE S == {rs[i].n : i \in 1..n}
<1>3. Nodes(rs) \in [1..n -> S] BY <1>2
<1>4. Nodes(rs) \in Seq(S)
  <2> HIDE DEF S
  <2> QED BY <1>3, SeqDef
<1>5. Len(Nodes(rs)) \in Nat /\ DOMAIN Nodes(rs) = 1..Len(Nodes(rs)) BY <1>4
<1> QED BY <1>5 DEF Tuple

(* A boxed slice or vector decodes element by element into a new allocation, *)
(* or is refused with every element accepted dropped and the buffer freed.   *)
LEMMA BufferDecodes ==
  ASSUME Setting, NEW t \in Universe, t.k \in {"slice", "vec"}, \A j \in DOMAIN t.s : Decodes(t.s[j])
  PROVE  Decodes(t)
<1> SUFFICES ASSUME NEW w, NEW st, NEW p \in Seq(Nat), IsCarrier(t, w), Sole(w), Avoids(w, p),
                    NEW r, r = Decode(t, w, p, st)
             PROVE  DecodedAs(t, w, p, r)
  BY DEF Decodes
<1>1. r = DecodeRule(t, w, p, st) BY DecodesByRule
<1>2. DOMAIN t.s = {1} /\ t.s[1] \in Universe BY Kind
<1>3. (w = Null \/ Buffered("vec", w) \/ Buffered("bad", w)) /\ (t.k = "slice" => w = Null \/ Buffered("vec", w))
  <2>1. CarrierLayer(t, w) BY CarrierIs
  <2> QED BY <2>1, CarrierLayers
<1>4. ~Borrowing(t) /\ Readable(t, w) BY DEF Borrowing, Transparent, Readable, DataEnums
<1>5. w.a # NoAddr => w.x \in Owning /\ w.a \in Allocs(w)
  <2>1. w.a # NoAddr => w.x \in Owning BY <1>3, Shapes1 DEF Owning
  <2>2. w.x \in Owning => Allocs(w) = {w.a} \cup Below(w) BY DEF Setting, Reading, AllocsRule, Here, Owning
  <2> QED BY <2>1, <2>2
<1>6. CASE Stable(t.s[1]) /\ t.k = "slice"
  <2>1. r = BoxWideDecode(t, w)
    BY <1>1, <1>6 DEF DecodeRule, Structs, DataEnums, Fieldless, Elem
  <2>2. CASE w.a = NoAddr
    BY <2>1, <2>2, RefusedDecoded DEF BoxWideDecode
  <2>3. CASE w.a # NoAddr /\ \A i \in DOMAIN w.s : IsValid(t.s[1], w.s[i])
    <3>1. Buffered("vec", w) BY <1>3, <1>6, <2>3, Shapes1
    <3>2. ValueLayer(t, w) BY <1>6, <3>1, ValueLayers
    <3>3. \A i \in DOMAIN w.s : IsCarrier(t.s[1], w.s[i]) BY <1>4, CarrierIs, PartsOf
    <3>4. \A i \in DOMAIN w.s : IsValue(Part(t, w, i), w.s[i])
      BY <1>2, <1>6, <2>3, <3>3, ValidValues, PartsOf DEF ValidAre
    <3>5. IsValue(t, w) BY <3>2, <3>4, MakesValue
    <3> QED BY <2>1, <2>3, <3>5, KeptDecoded DEF BoxWideDecode, Elem
  <2>4. CASE w.a # NoAddr /\ ~\A i \in DOMAIN w.s : IsValid(t.s[1], w.s[i])
    <3>1. r = Refused({}, {w.a}) BY <2>1, <2>4 DEF BoxWideDecode, Elem
    <3>2. {w.a} \subseteq Allocs(w) BY <1>5, <2>4
    <3> QED BY <3>1, <3>2, RefusedDecoded
  <2> QED BY <2>2, <2>3, <2>4
<1>7. CASE Stable(t.s[1]) /\ t.k = "vec"
  <2>1. r = VecStableDecode(t, w)
    BY <1>1, <1>7 DEF DecodeRule, Structs, DataEnums, Fieldless, Elem, StdVecDecode
  <2>2. CASE IsValid(t, w)
    <3>1. Stable(t)
      <4>1. Stable(t) = StableRule(t) BY DEF Setting, Tied
      <4> QED BY <1>2, <1>7, <4>1 DEF StableRule
    <3>2. IsValue(t, w) BY <2>2, <3>1, ValidValues DEF ValidAre
    <3> QED BY <2>1, <2>2, <3>2, KeptDecoded DEF VecStableDecode
  <2>3. CASE ~IsValid(t, w)
    <3>1. r = Refused({}, IF IntoVec(w) THEN {w.a} ELSE {}) BY <2>1, <2>3 DEF VecStableDecode
    <3>2. (IF IntoVec(w) THEN {w.a} ELSE {}) \subseteq Allocs(w) BY <1>5 DEF IntoVec
    <3> QED BY <3>1, <3>2, RefusedDecoded
  <2> QED BY <2>2, <2>3
<1>8. CASE ~Stable(t.s[1])
  <2> DEFINE rs == DecodeParts(t, w, p)
  <2>1. r = VecUnstableDecode(t, w, p, rs) \/ (w.a = NoAddr /\ r = Refused({}, {}))
    BY <1>1, <1>8 DEF DecodeRule, Structs, DataEnums, Fieldless, Elem, StdVecDecode, BoxDstDecode, DecodeBoxOwned
  <2>2. CASE ~IntoVec(w)
    <3>1. r = Refused({}, {}) BY <2>1, <2>2 DEF VecUnstableDecode
    <3> QED BY <3>1, RefusedDecoded
  <2>3. CASE IntoVec(w)
    <3>1. r = DecodeVecElements(t, w, p, rs) BY <2>1, <2>3 DEF VecUnstableDecode, IntoVec
    <3>2. Buffered("vec", w)
      <4>1. w # Null /\ ~Buffered("bad", w) BY <2>3, Shapes1 DEF IntoVec
      <4> QED BY <1>3, <4>1
    <3>3. w.x = "vec" /\ w.a # NoAddr /\ DOMAIN w.s \subseteq Nat \ {0} /\ Tuple(w.s)
      BY <3>2, Shapes1 DEF Buffered
    <3>4. DOMAIN rs = DOMAIN w.s BY DEF DecodeParts, Kids
    <3>5. \A i \in DOMAIN w.s : rs[i] = Decode(Part(t, w, i), w.s[i], Append(p, i), DefaultDecodeStore(Part(t, w, i)))
      BY DEF DecodeParts, DecodePart, Kids
    <3> HIDE DEF rs
    <3>6. /\ \A i \in DOMAIN w.s : Moved(w.s[i], Append(p, i), rs[i])
          /\ \A i \in DOMAIN w.s : rs[i].ok => IsValue(Part(t, w, i), rs[i].n)
          /\ Reclaims(t, w, rs)
      BY <1>4, <3>4, <3>5, PartsGiven
    <3>8. CASE Fails(rs)
      <4>1. r = Refused(UNION {rs[i].new : i \in DOMAIN rs},
                        ({w.a} \cup (UNION {rs[i].old : i \in DOMAIN rs})) \cup DroppedParts(t, w, rs, DOMAIN rs))
        BY <3>1, <3>8 DEF DecodeVecElements, RefuseVisited, News, Olds
      <4>2. {w.a} \subseteq Here(w) BY <3>3 DEF Here, Owning
      <4>3. w.x \notin {"ref", "mut"} BY <3>3
      <4>6. \A i \in DOMAIN w.s : Moved(w.s[i], Append(p, i), rs[i]) BY <3>6
      <4>7. Moved(w, p, Refused(UNION {rs[i].new : i \in DOMAIN rs},
                        ({w.a} \cup (UNION {rs[i].old : i \in DOMAIN rs})) \cup DroppedParts(t, w, rs, DOMAIN rs)))
        BY <3>3, <3>4, <3>6, <4>2, <4>3, <4>6, RefusedPartsMoved DEF Setting
      <4>4. Moved(w, p, r) BY <4>1, <4>7
      <4>5. ~r.ok BY <4>1, Answers
      <4> QED BY <4>4, <4>5 DEF DecodedAs
    <3>9. CASE ~Fails(rs)
      <4> DEFINE v == Node(w.x, Home(p), Nodes(rs))
      <4>1. r = Answer(v, News(rs) \cup {Home(p)}, Olds(rs) \cup {w.a}, Within("seq", Stores(rs)))
        BY <3>1, <3>9 DEF DecodeVecElements
      <4>2. \A i \in DOMAIN rs : rs[i].ok BY <3>9 DEF Fails
      <4>3. w.x \in Owning BY <3>3 DEF Owning
      <4>4. Moved(w, p, r) BY <3>3, <3>4, <3>6, <4>1, <4>2, <4>3, BoxMoved DEF Setting
      <4>5. v.x = "vec" /\ v.a = Home(p) /\ v.s = Nodes(rs) BY <3>3, Nodes1
      <4>6. Home(p) # NoAddr BY HomeApart, 1 \in Nat
      <4>7. Tuple(Nodes(rs)) BY <3>3, <3>4, NodesTuple
      <4>8. r.n = v BY <4>1, Answers
      <4>9. Buffered("vec", v) BY <3>3, <4>5, <4>6, <4>7 DEF Buffered
      <4>10. DOMAIN v.s = DOMAIN w.s /\ \A i \in DOMAIN w.s : v.s[i] = rs[i].n BY <3>4, <4>5 DEF Nodes
      <4> HIDE DEF v
      <4>11. ValueLayer(t, v) BY <4>9, ValueLayers
      <4>12. \A i \in DOMAIN v.s : IsValue(Part(t, v, i), v.s[i]) BY <3>4, <3>6, <4>2, <4>10, PartsOf
      <4>13. IsValue(t, v) BY <4>11, <4>12, MakesValue
      <4> QED BY <4>4, <4>8, <4>13 DEF DecodedAs
    <3> QED BY <3>8, <3>9
  <2> QED BY <2>2, <2>3
<1> QED BY <1>6, <1>7, <1>8

(* A payload's answer put under a tag keeps what the payload's does. *)
LEMMA WrappedDecoded ==
  ASSUME Setting, NEW t, NEW w, NEW p, NEW c, NEW x, NEW s, x \notin Marks, Moved(w, p, c),
         c.ok => IsValue(t, Node(x, NoAddr, <<c.n>>)), NEW r, r = Wrapped(c, Node(x, NoAddr, <<c.n>>), s)
  PROVE  DecodedAs(t, w, p, r)
<1>1. CASE c.ok
  <2> DEFINE v == Node(x, NoAddr, <<c.n>>)
  <2>1. r = Answer(v, c.new, c.old, s) BY <1>1 DEF Wrapped
  <2>2. Sole(c.n) BY <1>1 DEF Moved
  <2>3. Allocs(v) = Allocs(c.n) /\ Sole(v) BY <2>2, Around1 DEF Setting
  <2>4. IsValue(t, v) BY <1>1
  <2> HIDE DEF v
  <2>6. r.ok /\ r.n = v /\ r.new = c.new /\ r.old = c.old BY <2>1, Answers
  <2>7. Allocs(c.n) = (Allocs(w) \cup c.new) \ c.old /\ c.new \subseteq Under(p) /\ c.old \subseteq Allocs(w) \cup c.new
    BY <1>1 DEF Moved
  <2>8. Allocs(r.n) = (Allocs(w) \cup r.new) \ r.old /\ Sole(r.n) BY <2>3, <2>6, <2>7
  <2>5. Moved(w, p, r) BY <2>6, <2>7, <2>8 DEF Moved
  <2> QED BY <2>1, <2>4, <2>5, Answers DEF DecodedAs
<1>2. CASE ~c.ok
  <2>1. r = c BY <1>2 DEF Wrapped
  <2> QED BY <1>2, <2>1 DEF DecodedAs
<1> QED BY <1>1, <1>2

(* What a payload's conversion moves, the conversion of the option or result *)
(* around it moves.                                                          *)
LEMMA PayloadMoved ==
  ASSUME NEW w, NEW p \in Seq(Nat), NEW i \in Nat, NEW n, NEW c, Moved(n, Append(p, i), c), Allocs(n) = Allocs(w)
  PROVE  Moved(w, p, c)
<1>1. Under(Append(p, i)) \subseteq Under(p) BY UnderAppend
<1> QED BY <1>1 DEF Moved

(* An option or result owns what its payload owns. *)
LEMMA PayloadAllocs ==
  ASSUME Setting, NEW w, DOMAIN w.s = {1}, w.x \notin Marks
  PROVE  Allocs(w) = Allocs(w.s[1])
<1>1. Here(w) = {} /\ w.x \notin {"ref", "mut"} BY DEF Here, Marks
<1>2. {Allocs(w.s[i]) : i \in DOMAIN w.s} = {Allocs(w.s[1])} OBVIOUS
<1>3. Below(w) = Allocs(w.s[1]) BY <1>2 DEF Below
<1> QED BY <1>1, <1>3 DEF Setting, Reading, AllocsRule

(* A tag of the type around a value of the payload is a value. *)
LEMMA OneValue ==
  ASSUME Setting, NEW t \in Universe, t.k \in {"opt", "copt", "res", "cres"}, NEW x, NEW n,
         ValueLayer(t, Node(x, NoAddr, <<n>>)),
         IsValue(IF t.k \in {"res", "cres"} /\ x \in {"Err", "1"} THEN t.s[2] ELSE t.s[1], n)
  PROVE  IsValue(t, Node(x, NoAddr, <<n>>))
<1> DEFINE v == Node(x, NoAddr, <<n>>)
<1>1. v.x = x /\ DOMAIN v.s = {1} /\ v.s[1] = n BY Nodes1
<1> HIDE DEF v
<1>2. Part(t, v, 1) = IF t.k \in {"res", "cres"} /\ x \in {"Err", "1"} THEN t.s[2] ELSE t.s[1]
  BY <1>1, PartsOf
<1>3. ValueLayer(t, v) BY DEF v
<1>4. IsValue(t, v) BY <1>1, <1>2, <1>3, MakesValue
<1> QED BY <1>4 DEF v

(* A node of one component is that component with a tag around it. *)
LEMMA AroundNode ==
  ASSUME NEW x, NEW n
  PROVE  Around(x, NoAddr, Node(x, NoAddr, <<n>>))
  BY Nodes1 DEF Around

(* Options and results sent with a tag byte decode to values; an unknown tag *)
(* is refused.                                                               *)
LEMMA TaggedDecodes ==
  ASSUME Setting, NEW t \in Universe, ~Borrowing(t), t.k \in {"opt", "copt", "res", "cres"},
         \A j \in DOMAIN t.s : Decodes(t.s[j])
  PROVE  Decodes(t)
<1> SUFFICES ASSUME NEW w, NEW st, NEW p \in Seq(Nat), IsCarrier(t, w), Sole(w), Avoids(w, p),
                    NEW r, r = Decode(t, w, p, st)
             PROVE  DecodedAs(t, w, p, r)
  BY DEF Decodes
<1> DEFINE c == DecodePart(t, w, p, 1)
<1>1. r = DecodeRule(t, w, p, st) BY DecodesByRule
<1>2. CarrierLayer(t, w) BY CarrierIs
<1>3. /\ t.k = "opt" => ~NicheOption(t)
      /\ t.k = "res" => ~OkNiche(t) /\ ~ErrNiche(t)
  BY DEF Borrowing
<1>4. /\ t.k = "opt" => r = OptionTaggedDecode(w, c)
      /\ t.k = "copt" => r = COptionDecode(w, c)
      /\ t.k = "res" => r = ResultTaggedDecode(w, c)
      /\ t.k = "cres" => r = CResultDecode(w, c)
  BY <1>1, <1>3 DEF DecodeRule, Structs, DataEnums, Fieldless
<1>5. /\ t.k \in {"opt", "copt"} => (Scalar(w) /\ w.x # "1") \/ Around("1", NoAddr, w)
      /\ t.k \in {"res", "cres"} => TagAndPayload({"0", "1"}, w)
  BY <1>2, <1>3, CarrierLayers
<1>6. c = Decode(Part(t, w, 1), w.s[1], Append(p, 1), DefaultDecodeStore(Part(t, w, 1)))
  BY DEF DecodePart
<1> HIDE DEF c
<1>7. ASSUME DOMAIN w.s = {1}, w.x \notin Marks, Readable(t, w)
      PROVE  Moved(w, p, c) /\ (c.ok => IsValue(Part(t, w, 1), c.n))
  <2>1. DecodedAs(Part(t, w, 1), w.s[1], Append(p, 1), c)
    BY <1>6, <1>7, PartGiven
  <2>2. Allocs(w.s[1]) = Allocs(w) BY <1>7, PayloadAllocs
  <2> QED BY <2>1, <2>2, PayloadMoved, 1 \in Nat DEF DecodedAs
<1>8. CASE t.k \in {"opt", "copt"} /\ w.x = "1"
  <2>1. DOMAIN w.s = {1} /\ w.x \notin Marks BY <1>5, <1>8, Shapes1 DEF Marks, Owning
  <2>2. Readable(t, w) BY <1>8 DEF Readable, DataEnums
  <2>3. Moved(w, p, c) /\ (c.ok => IsValue(t.s[1], c.n)) BY <1>7, <1>8, <2>1, <2>2, PartsOf
  <2>4. CASE t.k = "opt"
    <3>1. r = Wrapped(c, Node("Some", NoAddr, <<c.n>>), Within("opt", <<c.st>>))
      BY <1>4, <1>8, <2>4 DEF OptionTaggedDecode, SomeV
    <3>2. ValueLayer(t, Node("Some", NoAddr, <<c.n>>)) BY <2>4, ValueLayers, AroundNode
    <3>3. c.ok => IsValue(t, Node("Some", NoAddr, <<c.n>>)) BY <2>3, <2>4, <3>2, OneValue
    <3>4. "Some" \notin Marks BY DEF Marks, Owning
    <3> QED BY <2>3, <3>1, <3>3, <3>4, WrappedDecoded
  <2>5. CASE t.k = "copt"
    <3>1. r = Wrapped(c, Node("1", NoAddr, <<c.n>>), Within("opt", <<c.st>>))
      BY <1>4, <1>8, <2>5 DEF COptionDecode
    <3>2. ValueLayer(t, Node("1", NoAddr, <<c.n>>)) BY <2>5, ValueLayers, AroundNode
    <3>3. c.ok => IsValue(t, Node("1", NoAddr, <<c.n>>)) BY <2>3, <2>5, <3>2, OneValue
    <3>4. "1" \notin Marks BY DEF Marks, Owning
    <3> QED BY <2>3, <3>1, <3>3, <3>4, WrappedDecoded
  <2> QED BY <1>8, <2>4, <2>5
<1>9. CASE t.k \in {"opt", "copt"} /\ w.x # "1"
  <2>1. Scalar(w) /\ w = Atom(w.x) /\ DOMAIN w.s = {} /\ w.x \notin Marks BY <1>5, <1>9, Shapes1
  <2>2. CASE w.x # "0"
    <3>1. r = Refused({}, {}) BY <1>4, <1>9, <2>2 DEF OptionTaggedDecode, COptionDecode
    <3> QED BY <3>1, RefusedDecoded
  <2>3. CASE w.x = "0" /\ t.k = "copt"
    <3>1. r = Kept(w) BY <1>4, <2>3 DEF COptionDecode
    <3>2. w = Zeroed BY <2>1, <2>3 DEF Zeroed
    <3>3. ValueLayer(t, w) BY <2>3, <3>2, ValueLayers
    <3>4. IsValue(t, w) BY <2>1, <3>3, MakesValue
    <3> QED BY <3>1, <3>4, KeptDecoded
  <2>4. CASE w.x = "0" /\ t.k = "opt"
    <3>1. r = Kept(NoneV) BY <1>4, <2>4 DEF OptionTaggedDecode
    <3>2. DOMAIN NoneV.s = {} /\ NoneV.x \notin Marks BY Shapes1 DEF Marks, Owning
    <3>3. ValueLayer(t, NoneV) BY <2>4, ValueLayers
    <3>4. IsValue(t, NoneV) BY <3>2, <3>3, MakesValue
    <3>5. Allocs(NoneV) = {} /\ Sole(NoneV) /\ Allocs(w) = {} BY <2>1, <3>2, ScalarOwnsNothing
    <3>6. Moved(w, p, r) BY <3>1, <3>5, Answers DEF Moved
    <3> QED BY <3>1, <3>4, <3>6, Answers DEF DecodedAs
  <2> QED BY <1>9, <2>2, <2>3, <2>4
<1>10. CASE t.k \in {"res", "cres"} /\ w.x \in {"0", "1"}
  <2>1. DOMAIN w.s = {1} /\ w.x \notin Marks BY <1>5, <1>10, TaggedShape
  <2>2. Readable(t, w) BY <1>10 DEF Readable, DataEnums
  <2>3. Moved(w, p, c) /\ (c.ok => IsValue(IF w.x = "1" THEN t.s[2] ELSE t.s[1], c.n))
    BY <1>7, <1>10, <2>1, <2>2, PartsOf
  <2>4. CASE t.k = "res"
    <3> DEFINE x == IF w.x = "1" THEN "Err" ELSE "Ok"
    <3>1. r = Wrapped(c, Node(x, NoAddr, <<c.n>>), Within("opt", <<c.st>>))
      BY <1>4, <1>10, <2>4 DEF ResultTaggedDecode, OkV, ErrV
    <3>2. ValueLayer(t, Node(x, NoAddr, <<c.n>>)) BY <2>4, ValueLayers, AroundNode
    <3>4. x \notin Marks /\ (x \in {"Err", "1"} <=> w.x = "1") BY DEF Marks, Owning
    <3> HIDE DEF x
    <3>3. c.ok => IsValue(t, Node(x, NoAddr, <<c.n>>)) BY <2>3, <2>4, <3>2, <3>4, OneValue
    <3> QED BY <2>3, <3>1, <3>3, <3>4, WrappedDecoded
  <2>5. CASE t.k = "cres"
    <3>1. r = Wrapped(c, Node(w.x, NoAddr, <<c.n>>), Within("opt", <<c.st>>))
      BY <1>4, <1>10, <2>5 DEF CResultDecode
    <3>2. ValueLayer(t, Node(w.x, NoAddr, <<c.n>>)) BY <1>10, <2>5, ValueLayers, AroundNode
    <3>4. w.x \in {"Err", "1"} <=> w.x = "1" BY <1>10
    <3>3. c.ok => IsValue(t, Node(w.x, NoAddr, <<c.n>>)) BY <2>3, <2>5, <3>2, <3>4, OneValue
    <3> QED BY <2>1, <2>3, <3>1, <3>3, WrappedDecoded
  <2> QED BY <1>10, <2>4, <2>5
<1>11. CASE t.k \in {"res", "cres"} /\ w.x \notin {"0", "1"}
  <2>1. r = Refused({}, {}) BY <1>4, <1>11 DEF ResultTaggedDecode, CResultDecode
  <2> QED BY <2>1, RefusedDecoded
<1> QED BY <1>8, <1>9, <1>10, <1>11

(* Options and results sent as their payload's carrier decode to values: the *)
(* niche to the side without payload, anything else by the payload's         *)
(* decoder.                                                                  *)
LEMMA NicheDecodes ==
  ASSUME Setting, NEW t \in Universe, Borrowing(t), t.k \notin Transparent,
         \A j \in DOMAIN t.s : Decodes(t.s[j])
  PROVE  Decodes(t)
<1> SUFFICES ASSUME NEW w, NEW st, NEW p \in Seq(Nat), IsCarrier(t, w), Sole(w), Avoids(w, p),
                    NEW r, r = Decode(t, w, p, st)
             PROVE  DecodedAs(t, w, p, r)
  BY DEF Decodes
<1>1. r = DecodeRule(t, w, p, st) BY DecodesByRule
<1>2. CarrierLayer(t, w) BY CarrierIs
<1>3. (t.k = "opt" /\ NicheOption(t)) \/ (t.k = "res" /\ (OkNiche(t) \/ ErrNiche(t))) BY DEF Borrowing
<1>4. \A u, s : u \in {t.s[j] : j \in DOMAIN t.s} /\ IsCarrier(u, w) => DecodedAs(u, w, p, Decode(u, w, p, s))
  BY DEF Decodes
<1>5. ASSUME NEW n, n.x \notin Marks, Allocs(w) = {}, NEW s, r = Answer(n, {}, {}, s), IsValue(t, n), Allocs(n) = {} /\ Sole(n)
      PROVE  DecodedAs(t, w, p, r)
  BY <1>5, Answers DEF DecodedAs, Moved
<1>6. CASE t.k = "opt" /\ NicheOption(t)
  <2> DEFINE c == Decode(t.s[1], w, p, DefaultDecodeStore(t.s[1]))
  <2>1. r = OptionNicheDecode(t, w, c)
    BY <1>1, <1>6 DEF DecodeRule, Structs, DataEnums, Fieldless, Elem
  <2>2. NicheCarrier(t.s[1], w) BY <1>2, <1>6, CarrierLayers DEF Elem
  <2>3. CASE IsNiche(t.s[1], w)
    <3>1. r = Answer(NoneV, {}, {}, NoStore) BY <2>1, <2>3 DEF OptionNicheDecode, Elem, Kept
    <3>2. DOMAIN NoneV.s = {} /\ NoneV.x \notin Marks BY Shapes1 DEF Marks, Owning
    <3>3. ValueLayer(t, NoneV) BY <1>6, ValueLayers
    <3>4. IsValue(t, NoneV) BY <3>2, <3>3, MakesValue
    <3>5. Allocs(w) = {} BY <2>2, <2>3 DEF NicheCarrier
    <3> QED BY <1>5, <3>1, <3>2, <3>4, <3>5, ScalarOwnsNothing
  <2>4. CASE ~IsNiche(t.s[1], w)
    <3>1. IsCarrier(t.s[1], w) BY <2>2, <2>4 DEF NicheCarrier
    <3>2. 1 \in DOMAIN t.s BY <1>6, Kind
    <3>3. DecodedAs(t.s[1], w, p, c) BY <1>4, <3>1, <3>2
    <3> HIDE DEF c
    <3>4. r = Wrapped(c, Node("Some", NoAddr, <<c.n>>), Within("opt", <<c.st>>))
      BY <2>1, <2>4 DEF OptionNicheDecode, Elem, SomeV
    <3>5. ValueLayer(t, Node("Some", NoAddr, <<c.n>>)) BY <1>6, ValueLayers, AroundNode
    <3>6. c.ok => IsValue(t, Node("Some", NoAddr, <<c.n>>)) BY <1>6, <3>3, <3>5, OneValue DEF DecodedAs
    <3>7. "Some" \notin Marks BY DEF Marks, Owning
    <3>8. Moved(w, p, c) BY <3>3 DEF DecodedAs
    <3> QED BY <3>4, <3>6, <3>7, <3>8, WrappedDecoded
  <2> QED BY <2>3, <2>4
<1>7. ASSUME t.k = "res", NEW x \in {"Ok", "Err"}, NEW u, NEW o, NEW s,
             t.s = (IF x = "Ok" THEN <<u, o>> ELSE <<o, u>>), o = Unit, NicheCarrier(u, w),
             IsNiche(u, w) => r = Answer(Node(IF x = "Ok" THEN "Err" ELSE "Ok", NoAddr, <<UnitV>>), {}, {}, s),
             ~IsNiche(u, w) => r = Wrapped(Decode(u, w, p, s), Node(x, NoAddr, <<Decode(u, w, p, s).n>>), Decode(u, w, p, s).st)
      PROVE  DecodedAs(t, w, p, r)
  <2>0. DOMAIN t.s = {1, 2} /\ t.s[1] \in Universe /\ t.s[2] \in Universe BY <1>7, Kind
  <2>1. u \in {t.s[j] : j \in DOMAIN t.s} /\ (x = "Ok" => t.s[1] = u /\ t.s[2] = o) /\ (x = "Err" => t.s[1] = o /\ t.s[2] = u)
        /\ o \in Universe
    BY <1>7, <2>0
  <2>2. CASE IsNiche(u, w)
    <3> DEFINE y == IF x = "Ok" THEN "Err" ELSE "Ok"
               n == Node(y, NoAddr, <<UnitV>>)
    <3>1. r = Answer(n, {}, {}, s) BY <1>7, <2>2
    <3>2. o.k = "unit" BY <1>7 DEF Unit, Ty
    <3>3. ValueLayer(o, UnitV) BY <2>1, <3>2, ValueLayers
    <3>4. DOMAIN UnitV.s = {} /\ UnitV.x \notin Marks BY Shapes1 DEF Marks, Owning
    <3>5. IsValue(o, UnitV) BY <2>1, <3>3, <3>4, MakesValue
    <3>6. ValueLayer(t, n) BY <1>7, ValueLayers, AroundNode
    <3>7. y \in {"Err", "1"} <=> x = "Ok" BY <1>7
    <3>8. IsValue(t, n)
      <4> HIDE DEF y
      <4>1. IsValue(IF t.k \in {"res", "cres"} /\ y \in {"Err", "1"} THEN t.s[2] ELSE t.s[1], UnitV)
        BY <1>7, <2>1, <3>5, <3>7
      <4> QED BY <1>7, <3>6, <4>1, OneValue
    <3>9. Allocs(UnitV) = {} /\ Sole(UnitV) BY <3>4, ScalarOwnsNothing
    <3>10. y \notin Marks BY DEF Marks, Owning
    <3>11. Allocs(n) = {} /\ Sole(n) /\ n.x = y
      <4> HIDE DEF y
      <4>1. Kept(UnitV).n = UnitV BY Answers
      <4>2. Allocs(Node(y, NoAddr, <<Kept(UnitV).n>>)) = Allocs(Kept(UnitV).n) /\ Sole(Node(y, NoAddr, <<Kept(UnitV).n>>))
        BY <3>9, <3>10, <4>1, Around1 DEF Setting
      <4> QED BY <3>9, <4>1, <4>2, Nodes1
    <3>12. Allocs(w) = {} BY <1>7, <2>2 DEF NicheCarrier
    <3> HIDE DEF n
    <3> QED BY <1>5, <3>1, <3>8, <3>10, <3>11, <3>12
  <2>3. CASE ~IsNiche(u, w)
    <3> DEFINE c == Decode(u, w, p, s)
    <3>1. IsCarrier(u, w) BY <1>7, <2>3 DEF NicheCarrier
    <3>2. DecodedAs(u, w, p, c) BY <1>4, <2>1, <3>1
    <3>3. r = Wrapped(c, Node(x, NoAddr, <<c.n>>), c.st) BY <1>7, <2>3
    <3> HIDE DEF c
    <3>4. ValueLayer(t, Node(x, NoAddr, <<c.n>>)) BY <1>7, ValueLayers, AroundNode
    <3>5. c.ok => IsValue(t, Node(x, NoAddr, <<c.n>>))
      <4>1. c.ok => IsValue(IF t.k \in {"res", "cres"} /\ x \in {"Err", "1"} THEN t.s[2] ELSE t.s[1], c.n)
        BY <1>7, <2>1, <3>2 DEF DecodedAs
      <4> QED BY <1>7, <3>4, <4>1, OneValue
    <3>6. x \notin Marks BY <1>7 DEF Marks, Owning
    <3>7. Moved(w, p, c) BY <3>2 DEF DecodedAs
    <3> QED BY <3>3, <3>5, <3>6, <3>7, WrappedDecoded
  <2> QED BY <2>2, <2>3
<1>8. CASE t.k = "res" /\ (OkNiche(t) \/ ErrNiche(t))
  <2>0. t.s = <<t.s[1], t.s[2]>>
    BY <1>8 DEF Setting, Closed, OwnedShape, Leaves, Singles, Doubles, Fieldless, Transparent, Structs, DataEnums
  <2>1. CASE OkNiche(t)
    <3>0. ~ErrNiche(t) BY <2>1 DEF OkNiche, ErrNiche
    <3>1. r = OkNicheDecode(t, w, Decode(t.s[1], w, p, st), st)
      BY <1>1, <1>8, <2>1, <3>0 DEF DecodeRule, Structs, DataEnums, Fieldless
    <3>2. t.s[2] = Unit BY <2>1 DEF OkNiche, ZeroSized
    <3>3. NicheCarrier(t.s[1], w) BY <1>2, <1>8, <2>1, <3>0, CarrierLayers
    <3>4. IsNiche(t.s[1], w) => r = Answer(Node("Err", NoAddr, <<UnitV>>), {}, {}, st)
      BY <3>1 DEF OkNicheDecode, ErrV
    <3>5. ~IsNiche(t.s[1], w) => r = Wrapped(Decode(t.s[1], w, p, st), Node("Ok", NoAddr, <<Decode(t.s[1], w, p, st).n>>),
                                              Decode(t.s[1], w, p, st).st)
      BY <3>1 DEF OkNicheDecode, OkV
    <3>6. "Ok" \in {"Ok", "Err"} /\ t.s = (IF "Ok" = "Ok" THEN <<t.s[1], t.s[2]>> ELSE <<t.s[2], t.s[1]>>) BY <2>0
    <3> QED BY <1>7, <1>8, <3>2, <3>3, <3>4, <3>5, <3>6
  <2>2. CASE ~OkNiche(t) /\ ErrNiche(t)
    <3>1. r = ErrNicheDecode(t, w, Decode(t.s[2], w, p, st), st)
      BY <1>1, <1>8, <2>2 DEF DecodeRule, Structs, DataEnums, Fieldless
    <3>2. t.s[1] = Unit BY <2>2 DEF ErrNiche, ZeroSized
    <3>3. NicheCarrier(t.s[2], w) BY <1>2, <1>8, <2>2, CarrierLayers
    <3>4. IsNiche(t.s[2], w) => r = Answer(Node("Ok", NoAddr, <<UnitV>>), {}, {}, st)
      BY <3>1 DEF ErrNicheDecode, OkV
    <3>5. ~IsNiche(t.s[2], w) => r = Wrapped(Decode(t.s[2], w, p, st), Node("Err", NoAddr, <<Decode(t.s[2], w, p, st).n>>),
                                              Decode(t.s[2], w, p, st).st)
      BY <3>1 DEF ErrNicheDecode, ErrV
    <3>6. "Err" \in {"Ok", "Err"} /\ "Err" # "Ok" /\ t.s = (IF "Err" = "Ok" THEN <<t.s[2], t.s[1]>> ELSE <<t.s[1], t.s[2]>>) BY <2>0
    <3> QED BY <1>7, <1>8, <3>2, <3>3, <3>4, <3>5, <3>6
  <2> QED BY <1>8, <2>1, <2>2
<1> QED BY <1>3, <1>6, <1>8

(* The refusals of structures, tuples and arrays free what was decoded. *)
LEMMA RefusedParts ==
  ASSUME Setting, NEW t, NEW w, NEW p \in Seq(Nat), NEW rs,
         DOMAIN rs = DOMAIN w.s, DOMAIN w.s \subseteq Nat \ {0}, w.x \notin Marks, Sole(w), Avoids(w, p),
         \A i \in DOMAIN w.s : Moved(w.s[i], Append(p, i), rs[i]), Reclaims(t, w, rs),
         NEW r, r = RefuseAtFirst(t, w, rs) \/ r = RefuseVisited(t, w, rs, {})
  PROVE  DecodedAs(t, w, p, r)
<1>1. w.x \notin {"ref", "mut"} BY DEF Marks
<1>2. ASSUME NEW I, I \subseteq DOMAIN rs,
             r = Refused(UNION {rs[i].new : i \in I}, (UNION {rs[i].old : i \in I}) \cup DroppedParts(t, w, rs, I))
      PROVE  DecodedAs(t, w, p, r)
  <2> DEFINE O == UNION {rs[i].old : i \in I}
  <2>1. Moved(w, p, Refused(UNION {rs[i].new : i \in I}, ({} \cup O) \cup DroppedParts(t, w, rs, I)))
    BY <1>1, <1>2, RefusedPartsMoved DEF Setting
  <2>2. {} \cup O = O OBVIOUS
  <2>3. r = Refused(UNION {rs[i].new : i \in I}, ({} \cup O) \cup DroppedParts(t, w, rs, I)) BY <1>2, <2>2
  <2>4. ~r.ok BY <1>2, Answers
  <2> QED BY <2>1, <2>3, <2>4 DEF DecodedAs
<1>3. CASE r = RefuseAtFirst(t, w, rs)
  <2>1. Visited(rs) \subseteq DOMAIN rs BY DEF Visited
  <2> QED BY <1>2, <1>3, <2>1 DEF RefuseAtFirst
<1>4. CASE r = RefuseVisited(t, w, rs, {})
  <2>1. r = Refused(UNION {rs[i].new : i \in DOMAIN rs}, ({} \cup (UNION {rs[i].old : i \in DOMAIN rs})) \cup DroppedParts(t, w, rs, DOMAIN rs))
    BY <1>4 DEF RefuseVisited, News, Olds
  <2>2. {} \cup (UNION {rs[i].old : i \in DOMAIN rs}) = UNION {rs[i].old : i \in DOMAIN rs} OBVIOUS
  <2>3. DOMAIN rs \subseteq DOMAIN rs OBVIOUS
  <2> QED BY <1>2, <2>1, <2>2, <2>3
<1> QED BY <1>3, <1>4

(* Two answers make a node of two components. *)
LEMMA PairOfNodes ==
  ASSUME NEW rs, DOMAIN rs = {1, 2}
  PROVE  Pair(Compound(Nodes(rs)))
<1>1. Nodes(rs) = <<rs[1].n, rs[2].n>> BY DEF Nodes
<1>2. DOMAIN <<rs[1].n, rs[2].n>> = {1, 2} /\ <<rs[1].n, rs[2].n>>[1] = rs[1].n /\ <<rs[1].n, rs[2].n>>[2] = rs[2].n
  OBVIOUS
<1>3. Compound(Nodes(rs)).s = <<rs[1].n, rs[2].n>> BY <1>1, Nodes1
<1> QED BY <1>1, <1>2, <1>3 DEF Pair

(* Tuples, arrays and structs decode field by field to values; the first *)
(* field that is refused, or the closure of the struct, ends it.         *)
LEMMA PairDecodes ==
  ASSUME Setting, NEW t \in Universe, t.k \in {"tup", "arr", "onevariant"} \cup Structs,
         \A j \in DOMAIN t.s : Decodes(t.s[j])
  PROVE  Decodes(t)
<1> SUFFICES ASSUME NEW w, NEW st, NEW p \in Seq(Nat), IsCarrier(t, w), Sole(w), Avoids(w, p),
                    NEW r, r = Decode(t, w, p, st)
             PROVE  DecodedAs(t, w, p, r)
  BY DEF Decodes
<1> DEFINE rs == DecodeKept(t, w, p, st)
<1>1. r = DecodeRule(t, w, p, st) BY DecodesByRule
<1>2. Pair(w) /\ DOMAIN w.s = {1, 2} /\ w.x \notin Marks
  <2>1. CarrierLayer(t, w) BY CarrierIs
  <2>2. Pair(w) BY <2>1, CarrierLayers DEF Structs
  <2> QED BY <2>2, Shapes1 DEF Marks, Owning
<1>3. ~Borrowing(t) /\ Readable(t, w) BY DEF Borrowing, Transparent, Readable, DataEnums, Structs
<1>4. DOMAIN t.s = {1, 2} /\ t.s[1] \in Universe /\ t.s[2] \in Universe /\ t.k \in PairKinds BY Kind DEF Structs, PairKinds
<1>5. /\ t.k = "tup" => r = TupleDecode(t, w, rs)
      /\ t.k = "arr" => r = ArrayDecode(t, w, rs, Robust(t.s[1]))
      /\ t.k \in {"onevariant"} \cup Structs => r = StructDecode(t, w, rs)
  BY <1>1 DEF DecodeRule, Structs, DataEnums, Fieldless, Elem, OneVariantDecode
<1>6. DOMAIN rs = DOMAIN w.s /\ \A i \in DOMAIN w.s : rs[i] = Decode(Part(t, w, i), w.s[i], Append(p, i), Sub(st, i))
  BY DEF DecodeKept, Kids
<1> HIDE DEF rs
<1>7. /\ \A i \in DOMAIN w.s : Moved(w.s[i], Append(p, i), rs[i])
      /\ \A i \in DOMAIN w.s : rs[i].ok => IsValue(Part(t, w, i), rs[i].n)
      /\ Reclaims(t, w, rs)
  <2>1. \A i \in DOMAIN w.s : \E s : rs[i] = Decode(Part(t, w, i), w.s[i], Append(p, i), s) BY <1>6
  <2> QED BY <1>3, <1>6, <2>1, PartsGiven
<1>8. CASE t.k = "arr" /\ Robust(t.s[1])
  <2>1. r = Kept(w) BY <1>5, <1>8 DEF ArrayDecode
  <2>2. t.s[1] = t.s[2] BY <1>8, Kind
  <2>3. Robust(t) = RobustRule(t) BY DEF Setting, Tied
  <2>4. Robust(t) BY <1>4, <1>8, <2>2, <2>3 DEF RobustRule
  <2>5. IsValue(t, w) BY <2>4, ValidValues DEF ValidAre
  <2> QED BY <2>1, <2>5, KeptDecoded
<1>9. CASE ~(t.k = "arr" /\ Robust(t.s[1]))
  <2> DEFINE v == Compound(Nodes(rs))
  <2>1. ASSUME r = RefuseAtFirst(t, w, rs) \/ r = RefuseVisited(t, w, rs, {}) PROVE DecodedAs(t, w, p, r)
    <3>1. DOMAIN w.s \subseteq Nat \ {0} BY <1>2
    <3> QED BY <1>2, <1>6, <1>7, <2>1, <3>1, RefusedParts
  <2>2. CASE Fails(rs)
    BY <1>5, <1>9, <2>1, <2>2 DEF TupleDecode, ArrayDecode, DecodeArrayElements, StructDecode
  <2>3. CASE ~Fails(rs) /\ t.k \in {"onevariant"} \cup Structs /\ ~Satisfies(t, v)
    BY <1>5, <2>1, <2>3 DEF StructDecode
  <2>4. CASE ~Fails(rs) /\ (t.k \in {"onevariant"} \cup Structs => Satisfies(t, v))
    <3>1. \E s : r = Answer(v, News(rs), Olds(rs), s)
      BY <1>5, <1>9, <2>4 DEF TupleDecode, ArrayDecode, DecodeArrayElements, StructDecode
    <3>2. PICK s : r = Answer(v, News(rs), Olds(rs), s) BY <3>1
    <3>3. \A i \in DOMAIN rs : rs[i].ok BY <2>4 DEF Fails
    <3>4. "compound" \notin Marks /\ DOMAIN w.s \subseteq Nat \ {0} BY <1>2 DEF Marks, Owning
    <3>5. Moved(w, p, Answer(Node("compound", NoAddr, Nodes(rs)), News(rs), Olds(rs), s))
      BY <1>2, <1>6, <1>7, <3>3, <3>4, PartsMoved DEF Setting
    <3>6. Moved(w, p, r) BY <3>2, <3>5 DEF Compound
    <3>7. Pair(v) BY <1>2, <1>6, PairOfNodes
    <3>8. Satisfies(t, v) BY <2>4 DEF Satisfies, Structs
    <3>9. ValueLayer(t, v) BY <1>4, <3>7, <3>8, ValueLayers DEF PairKinds
    <3>10. \A i \in DOMAIN v.s : IsValue(Part(t, v, i), v.s[i])
      <4>1. DOMAIN v.s = {1, 2} /\ v.s = Nodes(rs) BY <3>7, Shapes1, Nodes1
      <4>2. \A i \in {1, 2} : v.s[i] = rs[i].n BY <1>2, <1>6, <4>1 DEF Nodes
      <4>3. \A i \in {1, 2} : Part(t, w, i) = t.s[i] /\ Part(t, v, i) = t.s[i] BY <1>4, PartsOf
      <4>4. \A i \in {1, 2} : IsValue(t.s[i], rs[i].n) BY <1>2, <1>6, <1>7, <3>3, <4>3
      <4> HIDE DEF v
      <4> QED BY <4>1, <4>2, <4>3, <4>4
    <3>11. IsValue(t, v) BY <3>9, <3>10, MakesValue
    <3>12. r.n = v BY <3>2, Answers
    <3> QED BY <3>6, <3>11, <3>12 DEF DecodedAs
  <2> QED BY <2>2, <2>3, <2>4
<1> QED BY <1>8, <1>9

(* Data enums decode to the variant of their tag; an unknown tag is refused. *)
LEMMA EnumDecodes ==
  ASSUME Setting, NEW t \in Universe, t.k \in DataEnums, \A j \in DOMAIN t.s : Decodes(t.s[j])
  PROVE  Decodes(t)
<1> SUFFICES ASSUME NEW w, NEW st, NEW p \in Seq(Nat), IsCarrier(t, w), Sole(w), Avoids(w, p),
                    NEW r, r = Decode(t, w, p, st)
             PROVE  DecodedAs(t, w, p, r)
  BY DEF Decodes
<1> DEFINE rs == DecodeParts(t, w, p)
           i0 == VariantIn(VariantTags(t), w.x)
<1>1. r = DecodeRule(t, w, p, st) BY DecodesByRule
<1>2. EnumCarrier(t, w)
  <2>1. CarrierLayer(t, w) BY CarrierIs
  <2> QED BY <2>1, CarrierLayers DEF DataEnums
<1>3. w.x \notin Marks /\ DOMAIN w.s \subseteq {1} /\ (KnownTag(t, w) => DOMAIN w.s = IF i0 \in DOMAIN t.s THEN {1} ELSE {})
  BY <1>2, EnumShape
<1>4. ~Borrowing(t) /\ DOMAIN t.s = {1, 2} /\ t.k \in Tagged BY Kind DEF Borrowing, Transparent, DataEnums, Tagged
<1>5. r = EnumDecode(t, w, rs)
  BY <1>1 DEF DecodeRule, Structs, DataEnums, Fieldless
<1>6. DOMAIN rs = DOMAIN w.s
      /\ \A i \in DOMAIN w.s : rs[i] = Decode(Part(t, w, i), w.s[i], Append(p, i), DefaultDecodeStore(Part(t, w, i)))
  BY DEF DecodeParts, DecodePart, Kids
<1> HIDE DEF rs
<1>7. CASE ~KnownTag(t, w)
  <2>1. r = Refused({}, {}) BY <1>5, <1>7 DEF EnumDecode
  <2> QED BY <2>1, RefusedDecoded
<1>8. CASE KnownTag(t, w)
  <2>1. Readable(t, w) BY <1>8 DEF Readable, DataEnums
  <2>2. /\ \A i \in DOMAIN w.s : Moved(w.s[i], Append(p, i), rs[i])
        /\ \A i \in DOMAIN w.s : rs[i].ok => IsValue(Part(t, w, i), rs[i].n)
        /\ Reclaims(t, w, rs)
    <3>1. \A i \in DOMAIN w.s : \E s : rs[i] = Decode(Part(t, w, i), w.s[i], Append(p, i), s) BY <1>6
    <3> QED BY <1>4, <1>6, <2>1, <3>1, PartsGiven
  <2>3. DOMAIN w.s \subseteq Nat \ {0} BY <1>3
  <2>4. CASE Fails(rs)
    <3>1. r = RefuseAtFirst(t, w, rs) BY <1>5, <1>8, <2>4 DEF EnumDecode
    <3> QED BY <1>3, <1>6, <2>2, <2>3, <3>1, RefusedParts
  <2>5. CASE ~Fails(rs)
    <3> DEFINE x == Selected(t, w)
               v == Node(x, NoAddr, Nodes(rs))
    <3>1. PICK s : r = Answer(v, News(rs), Olds(rs), s) BY <1>5, <1>8, <2>5 DEF EnumDecode
    <3>2. \A i \in DOMAIN rs : rs[i].ok BY <2>5 DEF Fails
    <3>3. /\ i0 \in DOMAIN Names(t) /\ x = Names(t)[i0] /\ x \notin Marks
          /\ \A u : u.x = x => VariantOf(t, u) = i0
      BY <1>4, <1>8, SelectedNames
    <3>4. VariantOf(t, w) = i0 BY <1>8 DEF VariantOf, KnownTag
    <3> HIDE DEF x
    <3>5. Moved(w, p, r)
      <4>1. Moved(w, p, Answer(Node(x, NoAddr, Nodes(rs)), News(rs), Olds(rs), s))
        BY <1>3, <1>6, <2>2, <2>3, <3>2, <3>3, PartsMoved DEF Setting
      <4> QED BY <3>1, <4>1
    <3>6. v.x = x /\ v.s = Nodes(rs) /\ DOMAIN v.s = DOMAIN w.s BY <1>6, Nodes1 DEF Nodes
    <3>7. \A i \in DOMAIN w.s : v.s[i] = rs[i].n BY <1>6, <3>6 DEF Nodes
    <3>8. IF i0 \in DOMAIN t.s THEN Around(x, NoAddr, v) ELSE v = Atom(x)
      <4>1. CASE i0 \in DOMAIN t.s
        <5>1. DOMAIN Nodes(rs) = {1} BY <1>3, <1>8, <3>6, <4>1
        <5>2. Nodes(rs) = <<Nodes(rs)[1]>>
          <6>1. Nodes(rs) = [i \in {1} |-> rs[i].n] BY <5>1 DEF Nodes
          <6> QED BY <6>1
        <5> QED BY <3>6, <4>1, <5>1, <5>2 DEF Around
      <4>2. CASE i0 \notin DOMAIN t.s
        <5>1. Nodes(rs) = [i \in {} |-> rs[i].n] BY <1>3, <1>6, <1>8, <4>2 DEF Nodes
        <5>2. Nodes(rs) = <<>> BY <5>1
        <5> QED BY <4>2, <5>2 DEF Atom
      <4> QED BY <4>1, <4>2
    <3>9. Part(t, w, 1) = Payload(t, w) /\ Part(t, v, 1) = Payload(t, v) BY PartsOf
    <3>10. Payload(t, v) = Payload(t, w)
      <4>1. VariantOf(t, v) = i0 BY <3>3, <3>6
      <4> QED BY <3>4, <4>1 DEF Payload
    <3> HIDE DEF v
    <3>11. ValueLayer(t, v)
      <4>1. \E i \in DOMAIN Names(t) : IF i \in DOMAIN t.s THEN Around(Names(t)[i], NoAddr, v) ELSE v = Atom(Names(t)[i])
        BY <3>3, <3>8
      <4> QED BY <4>1, ValueLayers DEF DataEnums
    <3>12. \A i \in DOMAIN v.s : IsValue(Part(t, v, i), v.s[i])
      <4>1. \A i \in DOMAIN w.s : IsValue(Part(t, w, i), rs[i].n) BY <1>6, <2>2, <3>2
      <4>2. \A i \in DOMAIN w.s : i = 1 BY <1>3
      <4> QED BY <3>6, <3>7, <3>9, <3>10, <4>1, <4>2
    <3>13. IsValue(t, v) BY <3>11, <3>12, MakesValue
    <3>14. r.n = v BY <3>1, Answers
    <3> QED BY <3>5, <3>13, <3>14 DEF DecodedAs
  <2> QED BY <2>4, <2>5
<1> QED BY <1>7, <1>8

(* Every decoder, of every owned type, given any carrier, moves the *)
(* allocations and accepts only values.                             *)
THEOREM AllDecode ==
  ASSUME Setting
  PROVE  \A t \in Universe : Decodes(t)
<1> DEFINE G == {t \in Universe : Decodes(t)}
<1>1. ASSUME NEW t \in Universe, \A i \in DOMAIN t.s : t.s[i] \in G PROVE t \in G
  <2>1. \A j \in DOMAIN t.s : Decodes(t.s[j]) BY <1>1
  <2>2. CASE t.k \in {"int", "bool", "nz", "unit", "single", "identity"} \cup Fieldless BY <2>2, LeafDecodes
  <2>3. CASE t.k \in Transparent BY <2>1, <2>3, TransparentDecodes
  <2>4. CASE t.k = "box" BY <2>1, <2>4, BoxDecodes
  <2>5. CASE t.k \in {"slice", "vec"} BY <2>1, <2>5, BufferDecodes
  <2>6. CASE t.k \in {"opt", "copt", "res", "cres"} /\ ~Borrowing(t) BY <2>1, <2>6, TaggedDecodes
  <2>7. CASE t.k \in {"opt", "copt", "res", "cres"} /\ Borrowing(t)
    <3>1. t.k \notin Transparent BY <2>7 DEF Transparent
    <3> QED BY <2>1, <2>7, <3>1, NicheDecodes
  <2>8. CASE t.k \in {"tup", "arr", "onevariant"} \cup Structs BY <2>1, <2>8, PairDecodes
  <2>9. CASE t.k \in DataEnums BY <2>1, <2>9, EnumDecodes
  <2> QED BY <2>2, <2>3, <2>4, <2>5, <2>6, <2>7, <2>8, <2>9, Kind DEF Fieldless, Transparent, Structs, DataEnums
<1> HIDE DEF G
<1>2. Universe \subseteq G BY <1>1, RankInduction DEF Setting
<1> QED BY <1>2 DEF G

-----------------------------------------------------------------------------
(* What an encoder may send: a carrier that is not mistaken for a niche. *)

(* The type reaches a struct that declares a niche of its own. *)
Declares(t) == Mentions({"trap"}, t)

(* A struct that declares its own NICHE does not compare with it on   *)
(* decoding: its author has to see to it that no value looks like it. *)
(* Options and results that use that niche are left out.              *)
Distinct ==
  \A t \in Universe :
    /\ Declares(t) = MentionsRule({"trap"}, t)
    /\ t.k \notin Transparent /\ Borrowing(t) => ~Declares(t)

(* A type reaches no such struct when none of its parameters does and it is *)
(* none.                                                                    *)
LEMMA DeclaresNot ==
  ASSUME Distinct, NEW t \in Universe, ~Declares(t)
  PROVE  t.k # "trap" /\ \A i \in DOMAIN t.s : ~Declares(t.s[i])
  BY DEF Distinct, MentionsRule, Declares

(* A node of the right shape around carriers is a carrier. *)
LEMMA MakesCarrier ==
  ASSUME Setting, NEW t \in Universe, NEW w, CarrierLayer(t, w),
         ~Borrowing(t) /\ Readable(t, w) => \A i \in DOMAIN w.s : IsCarrier(Part(t, w, i), w.s[i])
  PROVE  IsCarrier(t, w)
  BY DEF Setting, Tied, IsCarrierRule

(* A type whose every bit pattern is a value has the layout of its carrier. *)
LEMMA RobustStable ==
  ASSUME Setting
  PROVE  \A t \in Universe : Robust(t) => Stable(t)
<1> DEFINE G == {t \in Universe : Robust(t) => Stable(t)}
<1>1. ASSUME NEW t \in Universe, \A i \in DOMAIN t.s : t.s[i] \in G PROVE t \in G
  <2> SUFFICES ASSUME Robust(t) PROVE Stable(t) OBVIOUS
  <2>1. Robust(t) = RobustRule(t) /\ Stable(t) = StableRule(t) BY DEF Setting, Tied
  <2>2. CASE t.k \in {"int", "unit"} BY <2>1, <2>2 DEF StableRule
  <2>3. CASE t.k \notin {"int", "unit"}
    <3>1. t.k \in {"arr", "md", "cell", "newtype", "cstruct", "identity"} /\ \A i \in DOMAIN t.s : Robust(t.s[i])
      BY <2>1, <2>3 DEF RobustRule
    <3>2. \A i \in DOMAIN t.s : Stable(t.s[i]) BY <1>1, <3>1
    <3> QED BY <2>1, <3>1, <3>2 DEF StableRule
  <2> QED BY <2>2, <2>3
<1> HIDE DEF G
<1>2. Universe \subseteq G BY <1>1, RankInduction DEF Setting
<1> QED BY <1>2 DEF G

(* The tag the derive picks as the niche of an enum. *)
LEMMA NicheTags ==
  ASSUME NEW t, t.k \in Tagged
  PROVE  EnumNicheTag(t) = IF t.k \in {"cenum", "tags"} THEN "0" ELSE "3"
<1>1. CASE t.k \in {"cenum", "tags"}
  <2>1. \A x : VariantIn(VariantTags(t), x) = CASE x = "1" -> 1 [] x = "2" -> 2 [] OTHER -> 0
    BY <1>1, TagsOf
  <2> DEFINE down == <<"0", "3", "2", "1">>
             First(i) == VariantIn(VariantTags(t), down[i]) = 0 /\ \A j \in 1..(i - 1) : VariantIn(VariantTags(t), down[j]) # 0
  <2>2. VariantIn(VariantTags(t), down[1]) = 0 BY <2>1
  <2>3. First(1) BY <2>2
  <2>4. \A i \in 1..4 : First(i) => i = 1
    <3> SUFFICES ASSUME NEW i \in 1..4, First(i), i # 1 PROVE FALSE OBVIOUS
    <3>1. 1 \in 1..(i - 1) OBVIOUS
    <3> QED BY <2>2, <3>1
  <2>5. (CHOOSE i \in 1..4 : First(i)) = 1
    <3> HIDE DEF First
    <3> QED BY <2>3, <2>4
  <2>6. EnumNicheTag(t) = down[CHOOSE i \in 1..4 : First(i)] BY <1>1, Zenon DEF EnumNicheTag
  <2>7. down[1] = "0" OBVIOUS
  <2> HIDE DEF First, down
  <2> QED BY <1>1, <2>5, <2>6, <2>7
<1>2. CASE t.k \notin {"cenum", "tags"} BY <1>2 DEF EnumNicheTag
<1> QED BY <1>1, <1>2

(* Two components side by side look like the niche only when the first of *)
(* them that has a niche does.                                            *)
LEMMA PairNiche ==
  ASSUME Setting, NEW t \in Universe, HasNiche(t), t.k # "trap", t.k \in PairKinds, NEW w, DOMAIN w.s = {1, 2},
         \A i \in {1, 2} : HasNiche(t.s[i]) => ~IsNiche(t.s[i], w.s[i])
  PROVE  ~IsNiche(t, w)
<1>1. HasNiche(t) = HasNicheRule(t) /\ IsNiche(t, w) = IsNicheRule(t, w) BY DEF Setting, Tied
<1>2. CASE t.k = "arr"
  <2>1. HasNiche(t.s[1]) BY <1>1, <1>2 DEF HasNicheRule, Pointers, Elem
  <2>2. IsNiche(t, w) => IsNiche(t.s[1], w.s[1])
    <3>1. IsNiche(t, w) => \A i \in DOMAIN w.s : IsNiche(t.s[1], w.s[i])
      BY <1>1, <1>2 DEF IsNicheRule, ArrayIsNiche, Elem, Records, Structs, Tagged, DataEnums, Fieldless
    <3>2. 1 \in DOMAIN w.s OBVIOUS
    <3> QED BY <3>1, <3>2
  <2> QED BY <2>1, <2>2
<1>3. CASE t.k \in {"tup", "struct", "cstruct", "vstruct", "vcstruct", "onevariant"}
  <2>1. HasNiche(t.s[1]) \/ HasNiche(t.s[2]) BY <1>1, <1>3 DEF HasNicheRule, Pointers
  <2>2. IsNiche(t, w) = TupleIsNiche(t, w)
    BY <1>1, <1>3 DEF IsNicheRule, StructIsNiche, Records, Structs, Tagged, DataEnums, Fieldless
  <2> QED BY <2>1, <2>2 DEF TupleIsNiche
<1>4. t.k # "identity" BY <1>1 DEF HasNicheRule, Pointers
<1> QED BY <1>2, <1>3, <1>4 DEF PairKinds

(* When a carrier is recognized as the niche, by kind of type. *)
LEMMA NicheLayers ==
  ASSUME Setting, NEW t \in Universe, NEW w, HasNiche(t)
  PROVE  /\ t.k \notin {"int", "unit", "single", "exhaustive", "cell", "identity"}
         /\ t.k \in {"bool", "nz"} => IsNiche(t, w) = (w = IF t.k = "bool" THEN Atom("2") ELSE Atom("0"))
         /\ t.k \in Buffers => IsNiche(t, w) = (w.a = NoAddr)
         /\ t.k = "opt" => IF NicheOption(t) THEN t \in {Opt(Bool), Opt(Opt(Bool))} /\ IsNiche(t, w) = (w = NicheOf(t))
                           ELSE IsNiche(t, w) = (w.x = "2")
         /\ t.k \in {"copt", "res", "cres"} => IsNiche(t, w) = (w.x = "2")
         /\ t.k \in {"md", "newtype"} => HasNiche(t.s[1]) /\ IsNiche(t, w) = IsNiche(t.s[1], w)
         /\ t.k \in {"tags", "cenum"} => IsNiche(t, w) = (w.x = "0")
         /\ t.k \in {"inferred", "enum"} => IsNiche(t, w) = (w.x = "3")
<1>1. HasNicheRule(t) /\ IsNiche(t, w) = IsNicheRule(t, w) /\ NicheOf(t) = NicheOfRule(t) BY DEF Setting, Tied
<1>2. t.k \notin {"int", "unit", "single", "exhaustive", "cell", "identity"}
  BY <1>1 DEF HasNicheRule, Pointers
<1>3. t.k \in {"bool", "nz"} => IsNiche(t, w) = (w = IF t.k = "bool" THEN Atom("2") ELSE Atom("0"))
  BY <1>1 DEF IsNicheRule, NicheOfRule, BoolNiche, NonZeroNiche, Records, Structs, Tagged, DataEnums, Fieldless, Pointers
<1>4. t.k \in Buffers => IsNiche(t, w) = (w.a = NoAddr)
  BY <1>1 DEF IsNicheRule, BoxIsNiche, VecIsNiche, Buffers, Records, Structs, Tagged, DataEnums, Fieldless
<1>5. t.k = "opt" => IF NicheOption(t) THEN t \in {Opt(Bool), Opt(Opt(Bool))} /\ IsNiche(t, w) = (w = NicheOf(t))
                     ELSE IsNiche(t, w) = (w.x = "2")
  <2>1. t.k = "opt" => ~NicheOption(t) \/ t \in {Opt(Bool), Opt(Opt(Bool))} BY <1>1 DEF HasNicheRule, Pointers
  <2>2. t.k = "opt" => IsNiche(t, w) = IF NicheOption(t) THEN w = NicheOf(t) ELSE w.x = "2"
    BY <1>1 DEF IsNicheRule, OptionIsNiche, Records, Structs, Tagged, DataEnums, Fieldless
  <2> QED BY <2>1, <2>2
<1>6. t.k \in {"copt", "res", "cres"} => IsNiche(t, w) = (w.x = "2")
  BY <1>1 DEF IsNicheRule, OptionIsNiche, ResultIsNiche, Records, Structs, Tagged, DataEnums, Fieldless
<1>7. t.k \in {"md", "newtype"} => HasNiche(t.s[1]) /\ IsNiche(t, w) = IsNiche(t.s[1], w)
  BY <1>1 DEF HasNicheRule, Pointers, IsNicheRule, ManualIsNiche, NewtypeIsNiche, Elem, Records, Structs, Tagged, DataEnums, Fieldless
<1>8. t.k \in {"tags", "cenum", "inferred", "enum"} => IsNiche(t, w) = (w.x = IF t.k \in {"cenum", "tags"} THEN "0" ELSE "3")
  BY <1>1, NicheTags DEF IsNicheRule, EnumIsNiche, Records, Structs, Tagged, DataEnums, Fieldless
<1> QED BY <1>2, <1>3, <1>4, <1>5, <1>6, <1>7, <1>8

(* A carrier of the type that nobody takes for its niche. *)
Carries(t, w) == IsCarrier(t, w) /\ (HasNiche(t) /\ ~Declares(t) => ~IsNiche(t, w))

(* Scalars are sent as carriers that are not the niche. *)
LEMMA CarriesScalar ==
  ASSUME Setting, NEW t \in Universe, t.k \in {"int", "bool", "nz", "unit"}, NEW v, IsValue(t, v)
  PROVE  Carries(t, v)
<1>1. ValueLayer(t, v) BY ValueIs
<1>2. DOMAIN v.s = {}
  <2>1. Scalar(v) \/ v = UnitV BY <1>1, ValueLayers
  <2> QED BY <2>1, Shapes1
<1>3. CarrierLayer(t, v) BY <1>1, CarrierLayers, ValueLayers
<1>4. IsCarrier(t, v) BY <1>2, <1>3, MakesCarrier
<1>5. t.k = "bool" => v # Atom("2")
  <2>1. t.k = "bool" => v.x \in {"0", "1"} BY <1>1, ValueLayers
  <2> QED BY <2>1, Nodes1
<1>6. t.k = "nz" => v # Atom("0")
  <2>1. t.k = "nz" => v.x # "0" BY <1>1, ValueLayers
  <2> QED BY <2>1, Nodes1
<1> QED BY <1>4, <1>5, <1>6, NicheLayers DEF Carries

(* So is what wraps a content that is sent so ... *)
LEMMA CarriesTransparent ==
  ASSUME Setting, Distinct, NEW t \in Universe, t.k \in Transparent, NEW w, Carries(t.s[1], w)
  PROVE  Carries(t, w)
<1>1. DOMAIN t.s = {1} BY Kind DEF Transparent
<1>2. CarrierLayer(t, w) BY CarrierLayers DEF Transparent, Elem, Carries
<1>3. IsCarrier(t, w) BY <1>2, MakesCarrier DEF Borrowing
<1>4. ~Declares(t) => ~Declares(t.s[1]) BY <1>1, DeclaresNot
<1> QED BY <1>3, <1>4, NicheLayers DEF Transparent, Carries

(* ... a box, whose pointer is not null ... *)
LEMMA CarriesBox ==
  ASSUME Setting, NEW t \in Universe, t.k = "box", NEW w, Pointing("box", w), IsCarrier(t.s[1], w.s[1])
  PROVE  Carries(t, w)
<1>1. DOMAIN w.s = {1} /\ w.a # NoAddr BY Shapes1
<1>2. CarrierLayer(t, w) BY CarrierLayers
<1>3. \A i \in DOMAIN w.s : IsCarrier(Part(t, w, i), w.s[i]) BY <1>1, PartsOf
<1>4. IsCarrier(t, w) BY <1>2, <1>3, MakesCarrier
<1> QED BY <1>1, <1>4, NicheLayers DEF Carries, Buffers

(* ... a slice or vector, whose buffer is not null ... *)
LEMMA CarriesBuffer ==
  ASSUME Setting, NEW t \in Universe, t.k \in {"slice", "vec"}, NEW w, Buffered("vec", w),
         \A i \in DOMAIN w.s : IsCarrier(t.s[1], w.s[i])
  PROVE  Carries(t, w)
<1>1. w.a # NoAddr BY Shapes1
<1>2. CarrierLayer(t, w) BY CarrierLayers
<1>3. \A i \in DOMAIN w.s : IsCarrier(Part(t, w, i), w.s[i]) BY PartsOf
<1>4. IsCarrier(t, w) BY <1>2, <1>3, MakesCarrier
<1> QED BY <1>1, <1>4, NicheLayers DEF Carries, Buffers

(* ... two components side by side ... *)
LEMMA CarriesPair ==
  ASSUME Setting, Distinct, NEW t \in Universe, t.k \in PairKinds, NEW w, Pair(w),
         Carries(t.s[1], w.s[1]), Carries(t.s[2], w.s[2])
  PROVE  Carries(t, w)
<1>1. DOMAIN w.s = {1, 2} /\ DOMAIN t.s = {1, 2} BY Shapes1, Kind DEF PairKinds
<1>2. CarrierLayer(t, w) BY CarrierLayers DEF PairKinds
<1>3. \A i \in DOMAIN w.s : IsCarrier(Part(t, w, i), w.s[i]) BY <1>1, PartsOf DEF Carries
<1>4. IsCarrier(t, w) BY <1>2, <1>3, MakesCarrier
<1>5. ASSUME HasNiche(t), ~Declares(t) PROVE ~IsNiche(t, w)
  <2>1. t.k # "trap" /\ ~Declares(t.s[1]) /\ ~Declares(t.s[2]) BY <1>1, <1>5, DeclaresNot
  <2>2. \A i \in {1, 2} : HasNiche(t.s[i]) => ~IsNiche(t.s[i], w.s[i]) BY <2>1 DEF Carries
  <2> QED BY <1>1, <1>5, <2>1, <2>2, PairNiche
<1> QED BY <1>4, <1>5 DEF Carries

(* ... an option with a tag byte ... *)
LEMMA CarriesOption ==
  ASSUME Setting, NEW t \in Universe, t.k \in {"opt", "copt"}, t.k = "opt" => ~NicheOption(t), NEW w,
         w = Zeroed \/ (Around("1", NoAddr, w) /\ IsCarrier(t.s[1], w.s[1]))
  PROVE  Carries(t, w)
<1>1. CASE w = Zeroed
  <2>1. w.x = "0" /\ w.a = NoAddr /\ DOMAIN w.s = {} BY <1>1, Shapes1
  <2>2. Scalar(w) BY <1>1, <2>1 DEF Scalar, Zeroed, Marks, Owning
  <2>3. CarrierLayer(t, w) BY <2>1, <2>2, CarrierLayers
  <2>4. IsCarrier(t, w) BY <2>1, <2>3, MakesCarrier
  <2> QED BY <2>1, <2>4, NicheLayers DEF Carries
<1>2. CASE Around("1", NoAddr, w) /\ IsCarrier(t.s[1], w.s[1])
  <2>1. w.x = "1" /\ DOMAIN w.s = {1} BY <1>2, Shapes1
  <2>2. CarrierLayer(t, w) BY <1>2, CarrierLayers
  <2>3. \A i \in DOMAIN w.s : IsCarrier(Part(t, w, i), w.s[i]) BY <1>2, <2>1, PartsOf
  <2>4. IsCarrier(t, w) BY <2>2, <2>3, MakesCarrier
  <2> QED BY <2>1, <2>4, NicheLayers DEF Carries
<1> QED BY <1>1, <1>2

(* ... a result with a tag byte ... *)
LEMMA CarriesResult ==
  ASSUME Setting, NEW t \in Universe, t.k \in {"res", "cres"}, t.k = "res" => ~OkNiche(t) /\ ~ErrNiche(t), NEW w,
         w.x \in {"0", "1"}, Around(w.x, NoAddr, w), IsCarrier(IF w.x = "1" THEN t.s[2] ELSE t.s[1], w.s[1])
  PROVE  Carries(t, w)
<1>1. DOMAIN w.s = {1} /\ w.x \notin Marks BY Shapes1 DEF Marks, Owning
<1>2. TagAndPayload({"0", "1"}, w) BY <1>1 DEF TagAndPayload
<1>3. CarrierLayer(t, w) BY <1>2, CarrierLayers
<1>4. \A i \in DOMAIN w.s : IsCarrier(Part(t, w, i), w.s[i])
  <2>1. \A i : Part(t, w, i) = IF w.x = "1" THEN t.s[2] ELSE t.s[1] BY PartsOf
  <2> QED BY <1>1, <2>1
<1>5. IsCarrier(t, w) BY <1>3, <1>4, MakesCarrier
<1> QED BY <1>5, NicheLayers DEF Carries

(* ... a fieldless enum ... *)
LEMMA CarriesTag ==
  ASSUME Setting, NEW t \in Universe, t.k \in Fieldless, NEW w, w = Atom(w.x), VariantIn(VariantTags(t), w.x) # 0
  PROVE  Carries(t, w)
<1>1. w.x \in (CASE t.k = "tags" -> {"1", "2"} [] t.k = "inferred" -> {"0", "1"} [] OTHER -> {"0", "1", "2", "3"})
  BY TagsOf DEF Tagged, DataEnums, Fieldless
<1>2. Scalar(w) BY <1>1 DEF Scalar, Marks, Owning, Fieldless
<1>3. CarrierLayer(t, w) BY <1>2, CarrierLayers DEF Fieldless
<1>4. DOMAIN w.s = {} BY <1>2, Shapes1
<1>5. IsCarrier(t, w) BY <1>3, <1>4, MakesCarrier
<1> QED BY <1>1, <1>5, NicheLayers DEF Carries, Fieldless

(* ... and a data enum. *)
LEMMA CarriesEnum ==
  ASSUME Setting, NEW t \in Universe, t.k \in DataEnums, NEW w, NEW i, i = VariantIn(VariantTags(t), w.x), i # 0,
         IF i \in DOMAIN t.s THEN Around(w.x, NoAddr, w) /\ IsCarrier(t.s[i], w.s[1]) ELSE w = Atom(w.x)
  PROVE  Carries(t, w)
<1>1. w.x \in IF t.k = "cenum" THEN {"1", "2"} ELSE {"0", "1", "2"}
  BY TagsOf DEF Tagged, DataEnums
<1>2. w.x \notin Marks BY <1>1 DEF Marks, Owning
<1>3. EnumCarrier(t, w)
  <2>1. CASE i \in DOMAIN t.s
    <3>1. TagAndPayload({w.x}, w) BY <1>2, <2>1 DEF TagAndPayload
    <3> QED BY <2>1, <3>1 DEF EnumCarrier
  <2>2. CASE i \notin DOMAIN t.s
    <3>1. Scalar(w) BY <1>2, <2>2 DEF Scalar
    <3> QED BY <2>2, <3>1 DEF EnumCarrier
  <2> QED BY <2>1, <2>2
<1>4. CarrierLayer(t, w) BY <1>3, CarrierLayers DEF DataEnums
<1>5. \A j \in DOMAIN w.s : IsCarrier(Part(t, w, j), w.s[j])
  <2>1. VariantOf(t, w) = i BY DEF VariantOf
  <2>2. CASE i \in DOMAIN t.s
    <3>1. DOMAIN w.s = {1} BY <2>2, Shapes1
    <3>2. Payload(t, w) = t.s[i] BY <2>1, <2>2 DEF Payload
    <3>3. Part(t, w, 1) = t.s[i] BY <3>2, PartsOf
    <3> QED BY <2>2, <3>1, <3>3
  <2>3. CASE i \notin DOMAIN t.s
    <3>1. w = Atom(w.x) BY <2>3
    <3> QED BY <3>1, Nodes1
  <2> QED BY <2>2, <2>3
<1>6. IsCarrier(t, w) BY <1>4, <1>5, MakesCarrier
<1> QED BY <1>1, <1>6, NicheLayers DEF Carries, DataEnums

(* A value of a Stable type may be sent as it is. *)
Direct(t) == \A v : Stable(t) /\ IsValue(t, v) => Carries(t, v)

(* A value of any Stable type is a carrier of the type, and not the niche. *)
LEMMA StableCarries ==
  ASSUME Setting, Distinct
  PROVE  \A t \in Universe : Direct(t)
<1> DEFINE G == {t \in Universe : Direct(t)}
<1>1. ASSUME NEW t \in Universe, \A i \in DOMAIN t.s : t.s[i] \in G PROVE t \in G
  <2> SUFFICES ASSUME NEW v, Stable(t), IsValue(t, v) PROVE Carries(t, v) BY DEF Direct
  <2>1. StableRule(t) BY DEF Setting, Tied
  <2>2. \A i \in DOMAIN t.s : Direct(t.s[i]) BY <1>1
  <2>3. ValueLayer(t, v) /\ (t.k \notin Transparent => \A i \in DOMAIN v.s : IsValue(Part(t, v, i), v.s[i])) BY ValueIs
  <2>4. CASE t.k \in {"int", "bool", "nz", "unit"} BY <2>4, CarriesScalar
  <2>5. CASE t.k \in {"slice", "opt", "res", "tup", "struct", "vstruct", "onevariant", "enum", "inferred", "single"}
    BY <2>1, <2>5 DEF StableRule
  <2>6. CASE t.k \in {"tags", "exhaustive"}
    <3>1. Scalar(v) /\ \E i \in DOMAIN Names(t) : v.x = Names(t)[i] BY <2>3, <2>6, ValueLayers
    <3>2. VariantIn(VariantTags(t), v.x) # 0
      <4>1. CASE t.k = "tags"
        <5>1. v.x \in {"1", "2"} BY <3>1, <4>1, NamesOf
        <5>2. VariantIn(VariantTags(t), v.x) = CASE v.x = "1" -> 1 [] v.x = "2" -> 2 [] OTHER -> 0
          BY <4>1, TagsOf DEF Tagged, Fieldless
        <5> QED BY <5>1, <5>2
      <4>2. CASE t.k = "exhaustive"
        <5>1. v.x \in {"0", "1", "2", "3"} BY <3>1, <4>2, NamesOf
        <5>2. VariantIn(VariantTags(t), v.x) = CASE v.x = "0" -> 1 [] v.x = "1" -> 2 [] v.x = "2" -> 3 [] v.x = "3" -> 4 [] OTHER -> 0
          BY <4>2, TagsOf DEF Tagged, Fieldless
        <5> QED BY <5>1, <5>2
      <4> QED BY <2>6, <4>1, <4>2
    <3>3. t.k \in Fieldless /\ v = Atom(v.x) BY <2>6, <3>1, Shapes1 DEF Fieldless
    <3> QED BY <3>2, <3>3, CarriesTag
  <2>7. CASE t.k \in Transparent
    <3>1. DOMAIN t.s = {1} BY <2>7, Kind DEF Transparent
    <3>2. Stable(t.s[1]) BY <2>1, <2>7, <3>1 DEF StableRule, Transparent
    <3>3. IsValue(t.s[1], v) BY <2>3, <2>7, ValueLayers DEF Transparent, Elem
    <3>4. Direct(t.s[1]) BY <2>2, <3>1
    <3>5. Carries(t.s[1], v) BY <3>2, <3>3, <3>4 DEF Direct
    <3> QED BY <2>7, <3>5, CarriesTransparent
  <2>8. CASE t.k \in {"box", "vec", "copt", "cres", "arr", "cstruct", "vcstruct", "trap", "identity", "cenum"}
    <3>1. \A i \in DOMAIN t.s : Stable(t.s[i]) BY <2>1, <2>8 DEF StableRule
    <3>2. ASSUME NEW j \in DOMAIN t.s, NEW n, IsValue(t.s[j], n) PROVE Carries(t.s[j], n)
      <4>1. Direct(t.s[j]) BY <2>2
      <4> QED BY <3>1, <3>2, <4>1 DEF Direct
    <3>0. t.k \notin Transparent BY <2>8 DEF Transparent
    <3>3. \A i \in DOMAIN v.s : IsValue(Part(t, v, i), v.s[i]) BY <2>3, <3>0
    <3>4. CASE t.k = "box"
      <4>1. Pointing("box", v) /\ DOMAIN v.s = {1} /\ DOMAIN t.s = {1} BY <2>3, <3>4, ValueLayers, Shapes1, Kind
      <4>2. IsValue(t.s[1], v.s[1]) BY <3>3, <3>4, <4>1, PartsOf
      <4>3. Carries(t.s[1], v.s[1]) BY <3>2, <4>1, <4>2
      <4> QED BY <3>4, <4>1, <4>3, CarriesBox DEF Carries
    <3>5. CASE t.k = "vec"
      <4>1. Buffered("vec", v) /\ DOMAIN t.s = {1} BY <2>3, <3>5, ValueLayers, Kind
      <4>2. \A i \in DOMAIN v.s : IsValue(t.s[1], v.s[i]) BY <3>3, <3>5, PartsOf
      <4>3. \A i \in DOMAIN v.s : Carries(t.s[1], v.s[i]) BY <3>2, <4>1, <4>2
      <4> QED BY <3>5, <4>1, <4>3, CarriesBuffer DEF Carries
    <3>6. CASE t.k = "copt"
      <4>1. (v = Zeroed \/ Around("1", NoAddr, v)) /\ DOMAIN t.s = {1} BY <2>3, <3>6, ValueLayers, Kind
      <4>2. CASE Around("1", NoAddr, v)
        <5>1. DOMAIN v.s = {1} BY <4>2, Shapes1
        <5>2. IsValue(t.s[1], v.s[1]) BY <3>3, <3>6, <5>1, PartsOf
        <5>3. Carries(t.s[1], v.s[1]) BY <3>2, <4>1, <5>2
        <5> QED BY <3>6, <4>2, <5>3, CarriesOption DEF Carries
      <4> QED BY <3>6, <4>1, <4>2, CarriesOption
    <3>7. CASE t.k = "cres"
      <4>1. (Around("0", NoAddr, v) \/ Around("1", NoAddr, v)) /\ DOMAIN t.s = {1, 2} BY <2>3, <3>7, ValueLayers, Kind
      <4>2. v.x \in {"0", "1"} /\ DOMAIN v.s = {1} /\ Around(v.x, NoAddr, v) BY <4>1, Shapes1
      <4>3. Part(t, v, 1) = IF v.x = "1" THEN t.s[2] ELSE t.s[1] BY <3>7, <4>2, PartsOf
      <4>4. IsValue(IF v.x = "1" THEN t.s[2] ELSE t.s[1], v.s[1]) BY <3>3, <4>2, <4>3
      <4>5. IsCarrier(IF v.x = "1" THEN t.s[2] ELSE t.s[1], v.s[1]) BY <3>2, <4>1, <4>4 DEF Carries
      <4> QED BY <3>7, <4>2, <4>5, CarriesResult
    <3>8. CASE t.k \in {"arr", "cstruct", "vcstruct", "trap", "identity"}
      <4>1. Pair(v) /\ DOMAIN v.s = {1, 2} /\ DOMAIN t.s = {1, 2} BY <2>3, <3>8, ValueLayers, Shapes1, Kind
      <4>2. \A i \in {1, 2} : IsValue(t.s[i], v.s[i]) BY <3>3, <3>8, <4>1, PartsOf DEF PairKinds
      <4>3. Carries(t.s[1], v.s[1]) /\ Carries(t.s[2], v.s[2]) BY <3>2, <4>1, <4>2
      <4> QED BY <3>8, <4>1, <4>3, CarriesPair DEF PairKinds
    <3>9. CASE t.k = "cenum"
      <4>1. PICK i \in DOMAIN Names(t) : IF i \in DOMAIN t.s THEN Around(Names(t)[i], NoAddr, v) ELSE v = Atom(Names(t)[i])
        BY <2>3, <3>9, ValueLayers
      <4>2. DOMAIN t.s = {1, 2} /\ i \in {1, 2} /\ Names(t)[i] = (IF i = 1 THEN "1" ELSE "2") BY <3>9, Kind, NamesOf
      <4>3. Around(Names(t)[i], NoAddr, v) /\ v.x = Names(t)[i] /\ DOMAIN v.s = {1} BY <4>1, <4>2, Shapes1
      <4>4. VariantIn(VariantTags(t), v.x) = i
        <5>1. VariantIn(VariantTags(t), v.x) = CASE v.x = "1" -> 1 [] v.x = "2" -> 2 [] OTHER -> 0
          BY <3>9, TagsOf DEF Tagged, DataEnums
        <5> QED BY <4>2, <4>3, <5>1
      <4>5. Part(t, v, 1) = t.s[i]
        <5>1. VariantOf(t, v) = i BY <4>2, <4>4 DEF VariantOf
        <5>2. Payload(t, v) = t.s[i] BY <4>2, <5>1 DEF Payload
        <5> QED BY <3>9, <5>2, PartsOf DEF DataEnums
      <4>6. IsValue(t.s[i], v.s[1]) BY <3>3, <4>3, <4>5
      <4>7. Carries(t.s[i], v.s[1]) BY <3>2, <4>2, <4>6
      <4> QED BY <3>9, <4>2, <4>3, <4>4, <4>7, CarriesEnum DEF DataEnums, Carries
    <3> QED BY <2>8, <3>4, <3>5, <3>6, <3>7, <3>8, <3>9
  <2> QED BY <2>4, <2>5, <2>6, <2>7, <2>8, Kind DEF Transparent
<1> HIDE DEF G
<1>2. Universe \subseteq G BY <1>1, RankInduction DEF Setting
<1> QED BY <1>2 DEF G

-----------------------------------------------------------------------------
(* Encoding. *)

(* What an encoder owes: it never fails, moves the allocations, and sends a *)
(* carrier of the type.                                                     *)
EncodedAs(t, v, p, r) == r.ok /\ Carries(t, r.n) /\ Moved(v, p, r)

(* The type's encoders, checked and unchecked, do so for whatever value and *)
(* whatever store.                                                          *)
Encodes(t) ==
  \A m, v, st, r : \A p \in Seq(Nat) :
    IsValue(t, v) /\ Sole(v) /\ Avoids(v, p) /\ r = Encode(m, t, v, p, st) => EncodedAs(t, v, p, r)

(* Every value of a type is encoded by the type's rule. *)
LEMMA EncodesByRule ==
  ASSUME Setting, NEW t \in Universe, NEW v, IsValue(t, v), NEW m, NEW p, NEW st
  PROVE  Encode(m, t, v, p, st) = IF m = "checked" THEN EncodeChecked(t, v, p, st) ELSE EncodeUnchecked(t, v, p, st)
  BY DEF Setting, Tied, EncodeRule

(* Sending the value as it is is right when it is a carrier. *)
LEMMA KeptEncoded ==
  ASSUME Setting, Distinct, NEW t \in Universe, NEW v, IsValue(t, v), Sole(v), NEW p, Carries(t, v) \/ Stable(t),
         NEW r, r = Kept(v)
  PROVE  EncodedAs(t, v, p, r)
<1>1. Moved(v, p, r) BY KeptMoved
<1>2. r.n = v /\ r.ok BY Answers
<1>3. Carries(t, v) BY StableCarries DEF Direct
<1> QED BY <1>1, <1>2, <1>3 DEF EncodedAs

(* Encoding a component, when encoders of parameters do what they owe. *)
LEMMA PartEncoded ==
  ASSUME Setting, NEW t \in Universe, t.k \notin Transparent, NEW v, IsValue(t, v), Sole(v),
         NEW p \in Seq(Nat), Avoids(v, p), \A j \in DOMAIN t.s : Encodes(t.s[j]),
         NEW i \in DOMAIN v.s, NEW m, NEW st, NEW r, r = Encode(m, Part(t, v, i), v.s[i], Append(p, i), st)
  PROVE  EncodedAs(Part(t, v, i), v.s[i], Append(p, i), r)
<1>1. PICK j \in DOMAIN t.s : Part(t, v, i) = t.s[j] /\ t.s[j] \in Universe BY ValueParts
<1>2. IsValue(Part(t, v, i), v.s[i]) /\ i \in Nat /\ v.x \notin {"ref", "mut"} BY ValueShape
<1>3. Allocs(v) = Here(v) \cup Below(v) /\ Sole(v.s[i])
  BY <1>2 DEF Setting, Reading, AllocsRule, SoleRule
<1>4. Allocs(v.s[i]) \subseteq Allocs(v) BY <1>3 DEF Below
<1>5. Append(p, i) \in Seq(Nat) /\ Avoids(v.s[i], Append(p, i))
  BY <1>2, <1>4, UnderAppend DEF Avoids
<1>6. Encodes(Part(t, v, i)) BY <1>1
<1> QED BY <1>2, <1>3, <1>5, <1>6 DEF Encodes

(* Encoding all components, when encoders of parameters do what they owe. *)
LEMMA PartsEncoded ==
  ASSUME Setting, NEW t \in Universe, t.k \notin Transparent, NEW v, IsValue(t, v), Sole(v),
         NEW p \in Seq(Nat), Avoids(v, p), \A j \in DOMAIN t.s : Encodes(t.s[j]),
         NEW rs, DOMAIN rs = DOMAIN v.s,
         \A i \in DOMAIN v.s : \E m, st : rs[i] = Encode(m, Part(t, v, i), v.s[i], Append(p, i), st)
  PROVE  /\ \A i \in DOMAIN v.s : Moved(v.s[i], Append(p, i), rs[i])
         /\ \A i \in DOMAIN v.s : Carries(Part(t, v, i), rs[i].n)
         /\ \A i \in DOMAIN rs : rs[i].ok
<1>1. ASSUME NEW i \in DOMAIN v.s PROVE EncodedAs(Part(t, v, i), v.s[i], Append(p, i), rs[i])
  <2>1. PICK m, st : rs[i] = Encode(m, Part(t, v, i), v.s[i], Append(p, i), st) OBVIOUS
  <2> QED BY <2>1, PartEncoded
<1> QED BY <1>1 DEF EncodedAs

(* The answers of the components, into no store and into the store given. *)
LEMMA EncodeSequences ==
  ASSUME NEW m, NEW t, NEW v, NEW p, NEW st
  PROVE  /\ DOMAIN EncodeParts(m, t, v, p) = DOMAIN v.s
         /\ \A i \in DOMAIN v.s : EncodeParts(m, t, v, p)[i] = Encode(m, Part(t, v, i), v.s[i], Append(p, i), NoStore)
         /\ DOMAIN EncodeKept(t, v, p, st) = DOMAIN v.s
         /\ \A i \in DOMAIN v.s : EncodeKept(t, v, p, st)[i] = Encode("checked", Part(t, v, i), v.s[i], Append(p, i), Sub(st, i))
  BY DEF EncodeParts, EncodeKept, EncodePart, Kids

(* Scalars, the unit, fieldless enums and structs that are their own carrier *)
(* are sent as carriers.                                                     *)
LEMMA LeafEncodes ==
  ASSUME Setting, Distinct, NEW t \in Universe,
         t.k \in {"int", "bool", "nz", "unit", "single", "identity"} \cup Fieldless
  PROVE  Encodes(t)
<1> SUFFICES ASSUME NEW m, NEW v, NEW st, NEW p \in Seq(Nat), IsValue(t, v), Sole(v), Avoids(v, p),
                    NEW r, r = Encode(m, t, v, p, st)
             PROVE  EncodedAs(t, v, p, r)
  BY DEF Encodes
<1>1. ValueLayer(t, v) BY ValueIs
<1>2. r = IF m = "checked" THEN EncodeChecked(t, v, p, st) ELSE EncodeUnchecked(t, v, p, st) BY EncodesByRule
<1>3. CASE t.k \in {"int", "unit", "bool", "nz"}
  <2>1. r = Kept(v)
    BY <1>2, <1>3 DEF EncodeChecked, EncodeUnchecked, Structs, DataEnums, Fieldless, IntEncode, UnitEncode, BoolEncode, NonZeroEncode
  <2> QED BY <1>3, <2>1, CarriesScalar, KeptEncoded
<1>4. CASE t.k = "identity"
  <2>1. r = Kept(v)
    BY <1>2, <1>4 DEF EncodeChecked, EncodeUnchecked, Structs, DataEnums, Fieldless, IdentityEncode
  <2>2. t.s[1] = Integer /\ t.s[2] = Integer /\ Integer \in Universe /\ DOMAIN t.s = {1, 2} BY <1>4, Kind
  <2>3. Stable(Integer) = StableRule(Integer) /\ Stable(t) = StableRule(t) BY <2>2 DEF Setting, Tied
  <2>4. Integer.k = "int" BY DEF Integer, Ty
  <2>5. StableRule(Integer) BY <2>4 DEF StableRule
  <2>6. Stable(t) BY <1>4, <2>2, <2>3, <2>5 DEF StableRule
  <2> QED BY <2>1, <2>6, KeptEncoded
<1>5. CASE t.k = "single"
  <2>1. r = Kept(UnitV)
    BY <1>2, <1>5 DEF EncodeChecked, EncodeUnchecked, Structs, DataEnums, Fieldless, SingleEncode
  <2>2. v = UnitV BY <1>1, <1>5, ValueLayers
  <2>3. CarrierLayer(t, v) BY <1>5, <2>2, CarrierLayers
  <2>4. IsCarrier(t, v) BY <2>2, <2>3, Shapes1, MakesCarrier
  <2>5. Carries(t, v) BY <1>5, <2>4, NicheLayers DEF Carries
  <2> QED BY <2>1, <2>2, <2>5, KeptEncoded
<1>6. CASE t.k \in Fieldless
  <2> DEFINE n == Atom(VariantTag(t, v))
  <2>1. r = Kept(n)
    BY <1>2, <1>6 DEF EncodeChecked, EncodeUnchecked, Structs, DataEnums, Fieldless, FieldlessEncode
  <2>2. Scalar(v) /\ \E i \in DOMAIN Names(t) : v.x = Names(t)[i] BY <1>1, <1>6, ValueLayers DEF Fieldless
  <2>3. VariantIn(VariantTags(t), VariantTag(t, v)) # 0 /\ VariantTag(t, v) \notin Marks
    <3>1. CASE t.k = "tags"
      <4>1. v.x \in {"1", "2"} BY <2>2, <3>1, NamesOf
      <4>2. \A x : VariantIn(VariantTags(t), x) = CASE x = "1" -> 1 [] x = "2" -> 2 [] OTHER -> 0
        BY <3>1, TagsOf DEF Tagged, Fieldless
      <4>3. VariantOf(t, v) = IF v.x = "1" THEN 1 ELSE 2 BY <4>1, <4>2 DEF VariantOf
      <4>4. VariantTag(t, v) \in {"1", "2"} BY <3>1, <4>3 DEF VariantTag, VariantTags
      <4> QED BY <4>2, <4>4 DEF Marks, Owning
    <3>2. CASE t.k = "inferred"
      <4>1. v.x \in {"A", "B"} BY <2>2, <3>2, NamesOf
      <4>2. \A x : VariantIn(VariantTags(t), x) = CASE x = "0" -> 1 [] x = "1" -> 2 [] OTHER -> 0
        BY <3>2, TagsOf DEF Tagged, Fieldless
      <4>3. VariantOf(t, v) = IF v.x = "A" THEN 1 ELSE 2 BY <4>1, <4>2, VariantByName DEF VariantOf
      <4>4. VariantTag(t, v) \in {"0", "1"} BY <3>2, <4>3 DEF VariantTag, VariantTags
      <4> QED BY <4>2, <4>4 DEF Marks, Owning
    <3>3. CASE t.k = "exhaustive"
      <4>1. v.x \in {"0", "1", "2", "3"} BY <2>2, <3>3, NamesOf
      <4>2. \A x : VariantIn(VariantTags(t), x) = CASE x = "0" -> 1 [] x = "1" -> 2 [] x = "2" -> 3 [] x = "3" -> 4 [] OTHER -> 0
        BY <3>3, TagsOf DEF Tagged, Fieldless
      <4>3. VariantOf(t, v) \in {1, 2, 3, 4} BY <4>1, <4>2 DEF VariantOf
      <4>4. VariantTag(t, v) \in {"0", "1", "2", "3"} BY <3>3, <4>3 DEF VariantTag, VariantTags, TagBytes
      <4> QED BY <4>2, <4>4 DEF Marks, Owning
    <3> QED BY <1>6, <3>1, <3>2, <3>3 DEF Fieldless
  <2>4. n.x = VariantTag(t, v) /\ DOMAIN n.s = {} /\ n = Atom(n.x) BY Nodes1
  <2> HIDE DEF n
  <2>5. Carries(t, n) BY <1>6, <2>3, <2>4, CarriesTag
  <2>6. Allocs(n) = {} /\ Sole(n) BY <2>3, <2>4, ScalarOwnsNothing
  <2>7. Allocs(v) = {} BY <2>2, Shapes1, ScalarOwnsNothing
  <2>8. r.ok /\ r.n = n /\ r.new = {} /\ r.old = {} BY <2>1, Answers
  <2>9. Moved(v, p, r) BY <2>6, <2>7, <2>8 DEF Moved
  <2> QED BY <2>5, <2>8, <2>9 DEF EncodedAs
<1> QED BY <1>3, <1>4, <1>5, <1>6

(* A transparent type sends its field's encoding, or the value itself when *)
(* the field is Stable.                                                    *)
LEMMA TransparentSends ==
  ASSUME Setting, NEW t \in Universe, t.k \in Transparent,
         NEW m, NEW v, NEW st, NEW p, IsValue(t, v), NEW r, r = Encode(m, t, v, p, st)
  PROVE  (r = Kept(v) /\ Stable(t.s[1])) \/ \E q : r = Encode(q, t.s[1], v, p, st)
<1>1. r = IF m = "checked" THEN EncodeChecked(t, v, p, st) ELSE EncodeUnchecked(t, v, p, st) BY EncodesByRule
<1>2. DOMAIN t.s = {1} /\ t.s[1] \in Universe BY Kind DEF Transparent
<1>3. Robust(t.s[1]) => Stable(t.s[1]) BY <1>2, RobustStable
<1>4. CASE m = "checked"
  <2>1. \/ r = Kept(v) /\ Robust(t.s[1])
        \/ r = Encode("checked", t.s[1], v, p, st)
    BY <1>1, <1>4 DEF EncodeChecked, Transparent, Structs, DataEnums, Fieldless, ManualEncode, NewtypeEncode, CellEncode, UnsafeCellEncode, Elem
  <2> QED BY <1>3, <2>1
<1>5. CASE m # "checked"
  <2>1. \/ r = Kept(v) /\ Stable(t.s[1])
        \/ r = Encode("unchecked", t.s[1], v, p, st)
    BY <1>1, <1>5 DEF EncodeUnchecked, Transparent, Structs, DataEnums, Fieldless, ManualUnchecked, ManualStableUnchecked,
                      NewtypeEncodeUnchecked, CellUnchecked, UnsafeCellUnchecked, Elem
  <2> QED BY <2>1
<1> QED BY <1>4, <1>5

(* ManuallyDrop, the cells and newtypes are sent as their content is. *)
LEMMA TransparentEncodes ==
  ASSUME Setting, Distinct, NEW t \in Universe, t.k \in Transparent, \A j \in DOMAIN t.s : Encodes(t.s[j])
  PROVE  Encodes(t)
<1> SUFFICES ASSUME NEW m, NEW v, NEW st, NEW p \in Seq(Nat), IsValue(t, v), Sole(v), Avoids(v, p),
                    NEW r, r = Encode(m, t, v, p, st)
             PROVE  EncodedAs(t, v, p, r)
  BY DEF Encodes
<1>1. r = IF m = "checked" THEN EncodeChecked(t, v, p, st) ELSE EncodeUnchecked(t, v, p, st) BY EncodesByRule
<1>2. DOMAIN t.s = {1} /\ t.s[1] \in Universe BY Kind DEF Transparent
<1>3. IsValue(t.s[1], v)
  <2>1. ValueLayer(t, v) BY ValueIs
  <2> QED BY <2>1, ValueLayers DEF Transparent, Elem
<1>4. ASSUME NEW c, \E q : c = Encode(q, t.s[1], v, p, st) PROVE EncodedAs(t, v, p, c)
  <2>1. Encodes(t.s[1]) BY <1>2
  <2>2. EncodedAs(t.s[1], v, p, c) BY <1>3, <1>4, <2>1 DEF Encodes
  <2>3. Carries(t, c.n) BY <2>2, CarriesTransparent DEF EncodedAs
  <2> QED BY <2>2, <2>3 DEF EncodedAs
<1>5. (r = Kept(v) /\ Stable(t.s[1])) \/ \E q : r = Encode(q, t.s[1], v, p, st)
  BY TransparentSends
<1>6. CASE r = Kept(v) /\ Stable(t.s[1])
  <2>1. Stable(t) = StableRule(t) BY DEF Setting, Tied
  <2>2. Stable(t) BY <1>2, <1>6, <2>1 DEF StableRule, Transparent
  <2> QED BY <1>6, <2>2, KeptEncoded
<1> QED BY <1>4, <1>5, <1>6

(* How a box is sent: as it is when Stable, else as a box around the carrier *)
(* of its content.                                                           *)
BoxSent(t, v, p, r) ==
  \E q, s, c : /\ c = Encode(q, Part(t, v, 1), v.s[1], Append(p, 1), s)
              /\ r = Answer(Node("box", Home(p), <<c.n>>), c.new \cup {Home(p)}, c.old \cup {v.a}, Within("box", <<c.st>>))

(* Both encode functions send a box in one of the ways of BoxSent. *)
LEMMA BoxSends ==
  ASSUME Setting, NEW t \in Universe, t.k = "box",
         NEW m, NEW v, NEW st, NEW p, IsValue(t, v), NEW r, r = Encode(m, t, v, p, st)
  PROVE  \/ r = Kept(v) /\ Stable(t.s[1])
         \/ BoxSent(t, v, p, r)
<1>1. r = IF m = "checked" THEN EncodeChecked(t, v, p, st) ELSE EncodeUnchecked(t, v, p, st) BY EncodesByRule
<1>2. CASE m = "checked"
  <2>1. \/ r = Kept(v) /\ Stable(t.s[1])
        \/ LET c == EncodePart("checked", t, v, p, 1, Sub(st, 1))
           IN r = Answer(Node("box", Home(p), <<c.n>>), c.new \cup {Home(p)}, c.old \cup {v.a}, Within("box", <<c.st>>))
    BY <1>1, <1>2 DEF EncodeChecked, Structs, DataEnums, Fieldless, Elem, BoxStableRobust, BoxStableUnchecked,
                      BoxStableNonRobust, BoxUnstable
  <2> QED BY <2>1 DEF EncodePart, BoxSent
<1>3. CASE m # "checked"
  <2>1. \/ r = Kept(v) /\ Stable(t.s[1])
        \/ LET c == EncodePart("unchecked", t, v, p, 1, NoStore)
           IN r = Answer(Node("box", Home(p), <<c.n>>), c.new \cup {Home(p)}, c.old \cup {v.a}, Within("box", <<c.st>>))
    BY <1>1, <1>3 DEF EncodeUnchecked, Structs, DataEnums, Fieldless, Elem, BoxStableUnchecked, BoxUnstableUnchecked
  <2> QED BY <2>1 DEF EncodePart, BoxSent
<1> QED BY <1>2, <1>3

(* A box is given away, or its content encoded into a new allocation while *)
(* the old one is freed.                                                   *)
LEMMA BoxEncodes ==
  ASSUME Setting, Distinct, NEW t \in Universe, t.k = "box", \A j \in DOMAIN t.s : Encodes(t.s[j])
  PROVE  Encodes(t)
<1> SUFFICES ASSUME NEW m, NEW v, NEW st, NEW p \in Seq(Nat), IsValue(t, v), Sole(v), Avoids(v, p),
                    NEW r, r = Encode(m, t, v, p, st)
             PROVE  EncodedAs(t, v, p, r)
  BY DEF Encodes
<1>2. DOMAIN t.s = {1} /\ t.s[1] \in Universe BY Kind
<1>3. Pointing("box", v) /\ v.x = "box" /\ DOMAIN v.s = {1}
  <2>1. ValueLayer(t, v) BY ValueIs
  <2>2. Pointing("box", v) BY <2>1, ValueLayers
  <2> QED BY <2>2, Shapes1
<1>4. \/ r = Kept(v) /\ Stable(t.s[1])
      \/ BoxSent(t, v, p, r)
  BY BoxSends
<1>5. CASE r = Kept(v) /\ Stable(t.s[1])
  <2>1. Stable(t) = StableRule(t) BY DEF Setting, Tied
  <2>2. Stable(t) BY <1>2, <1>5, <2>1 DEF StableRule
  <2> QED BY <1>5, <2>2, KeptEncoded
<1>6. ASSUME NEW q, NEW s, NEW c, c = Encode(q, Part(t, v, 1), v.s[1], Append(p, 1), s),
             r = Answer(Node("box", Home(p), <<c.n>>), c.new \cup {Home(p)}, c.old \cup {v.a}, Within("box", <<c.st>>))
      PROVE  EncodedAs(t, v, p, r)
  <2> DEFINE w == Node("box", Home(p), <<c.n>>)
  <2>1. EncodedAs(t.s[1], v.s[1], Append(p, 1), c)
    <3>1. t.k \notin Transparent /\ 1 \in DOMAIN v.s BY <1>3 DEF Transparent
    <3>2. Part(t, v, 1) = t.s[1] BY PartsOf
    <3> QED BY <1>6, <3>1, <3>2, PartEncoded
  <2>2. Moved(v, p, Answer(Node("box", Home(p), Nodes(<<c>>)), News(<<c>>) \cup {Home(p)}, Olds(<<c>>) \cup {v.a},
                           Within("box", <<c.st>>)))
    <3>1. DOMAIN <<c>> = DOMAIN v.s /\ DOMAIN v.s \subseteq Nat \ {0} BY <1>3, Alone
    <3>2. \A i \in DOMAIN v.s : Moved(v.s[i], Append(p, i), <<c>>[i]) BY <1>3, <2>1, Alone DEF EncodedAs
    <3>3. \A i \in DOMAIN <<c>> : <<c>>[i].ok BY <2>1, Alone DEF EncodedAs
    <3>4. "box" \in Owning /\ v.x \in Owning BY <1>3 DEF Owning
    <3> QED BY <3>1, <3>2, <3>3, <3>4, BoxMoved DEF Setting
  <2>3. Moved(v, p, r) BY <1>6, <2>2, Alone
  <2>4. Home(p) # NoAddr BY HomeApart, 1 \in Nat
  <2>5. w.x = "box" /\ w.a = Home(p) /\ w.s = <<c.n>> /\ DOMAIN w.s = {1} /\ w.s[1] = c.n
    BY Nodes1
  <2>6. r.n = w /\ r.ok BY <1>6, Answers
  <2>7. Pointing("box", w) BY <2>4, <2>5 DEF Pointing, Around
  <2> HIDE DEF w
  <2>8. Carries(t, w) BY <2>1, <2>5, <2>7, CarriesBox DEF EncodedAs, Carries
  <2> QED BY <2>3, <2>6, <2>8 DEF EncodedAs
<1> QED BY <1>4, <1>5, <1>6 DEF BoxSent

(* A vector or boxed slice is sent as it is when its elements are Stable, *)
(* else as a buffer of their carriers.                                    *)
LEMMA BufferSends ==
  ASSUME Setting, NEW t \in Universe, t.k \in {"slice", "vec"},
         NEW m, NEW v, NEW st, NEW p, IsValue(t, v), NEW r, r = Encode(m, t, v, p, st)
  PROVE  \/ r = Kept(v) /\ Stable(t.s[1])
         \/ \E q : r = EncodeVecElements(v, p, EncodeParts(q, t, v, p))
<1>1. r = IF m = "checked" THEN EncodeChecked(t, v, p, st) ELSE EncodeUnchecked(t, v, p, st) BY EncodesByRule
<1>2. CASE m = "checked"
  <2>1. \/ r = Kept(v) /\ Stable(t.s[1])
        \/ r = EncodeVecElements(v, p, EncodeParts("checked", t, v, p))
    BY <1>1, <1>2 DEF EncodeChecked, Structs, DataEnums, Fieldless, Elem, BoxWideRobust, BoxWideUnchecked,
                      BoxWideNonRobust, BoxDst, EncodeBoxOwned, VecEncode, StdVecEncode
  <2> QED BY <2>1
<1>3. CASE m # "checked"
  <2>1. \/ r = Kept(v) /\ Stable(t.s[1])
        \/ r = EncodeVecElements(v, p, EncodeParts("unchecked", t, v, p))
    BY <1>1, <1>3 DEF EncodeUnchecked, Structs, DataEnums, Fieldless, Elem, BoxWideUnchecked, BoxDstUnchecked,
                      VecStableUnchecked, VecUnstableUnchecked, StdVecUnchecked, EncodeVecElements, EncodeVecElementsUnchecked
  <2> QED BY <2>1
<1> QED BY <1>2, <1>3

(* A boxed slice or vector is given away, or encoded element by element into *)
(* a new allocation while the old one is freed.                              *)
LEMMA BufferEncodes ==
  ASSUME Setting, Distinct, NEW t \in Universe, t.k \in {"slice", "vec"}, \A j \in DOMAIN t.s : Encodes(t.s[j])
  PROVE  Encodes(t)
<1> SUFFICES ASSUME NEW m, NEW v, NEW st, NEW p \in Seq(Nat), IsValue(t, v), Sole(v), Avoids(v, p),
                    NEW r, r = Encode(m, t, v, p, st)
             PROVE  EncodedAs(t, v, p, r)
  BY DEF Encodes
<1>2. DOMAIN t.s = {1} /\ t.s[1] \in Universe /\ t.k \notin Transparent BY Kind DEF Transparent
<1>3. Buffered("vec", v) /\ v.x = "vec" /\ DOMAIN v.s \subseteq Nat \ {0} /\ Tuple(v.s)
  <2>1. ValueLayer(t, v) BY ValueIs
  <2>2. Buffered("vec", v) BY <2>1, ValueLayers
  <2> QED BY <2>2, Shapes1 DEF Buffered
<1>4. \/ r = Kept(v) /\ Stable(t.s[1])
      \/ \E q : r = EncodeVecElements(v, p, EncodeParts(q, t, v, p))
  BY BufferSends
<1>5. CASE r = Kept(v) /\ Stable(t.s[1])
  <2>1. \A i \in DOMAIN v.s : IsValue(t.s[1], v.s[i]) BY <1>2, ValueIs, PartsOf
  <2>2. \A i \in DOMAIN v.s : IsCarrier(t.s[1], v.s[i]) BY <1>2, <1>5, <2>1, StableCarries DEF Direct, Carries
  <2>3. Carries(t, v) BY <1>3, <2>2, CarriesBuffer
  <2> QED BY <1>5, <2>3, KeptEncoded
<1>6. ASSUME NEW q, NEW rs, rs = EncodeParts(q, t, v, p), r = EncodeVecElements(v, p, rs)
      PROVE  EncodedAs(t, v, p, r)
  <2> DEFINE w == Node("vec", Home(p), Nodes(rs))
  <2>1. DOMAIN rs = DOMAIN v.s /\ \A i \in DOMAIN v.s : rs[i] = Encode(q, Part(t, v, i), v.s[i], Append(p, i), NoStore)
    <3> HIDE DEF w
    <3>1. DOMAIN rs = DOMAIN v.s BY <1>6 DEF EncodeParts, Kids
    <3>2. \A i \in DOMAIN v.s : rs[i] = Encode(q, Part(t, v, i), v.s[i], Append(p, i), NoStore)
      BY <1>6 DEF EncodeParts, EncodePart, Kids
    <3> QED BY <3>1, <3>2
  <2>2. /\ \A i \in DOMAIN v.s : Moved(v.s[i], Append(p, i), rs[i])
        /\ \A i \in DOMAIN v.s : Carries(Part(t, v, i), rs[i].n)
        /\ \A i \in DOMAIN rs : rs[i].ok
    <3> HIDE DEF w
    <3>1. ASSUME NEW i \in DOMAIN v.s PROVE EncodedAs(Part(t, v, i), v.s[i], Append(p, i), rs[i])
      <4>1. rs[i] = Encode(q, Part(t, v, i), v.s[i], Append(p, i), NoStore) BY <2>1
      <4> QED BY <1>2, <4>1, PartEncoded
    <3> QED BY <2>1, <3>1 DEF EncodedAs
  <2>3. PICK s : r = Answer(w, News(rs) \cup {Home(p)}, Olds(rs) \cup {v.a}, s) BY <1>3, <1>6 DEF EncodeVecElements
  <2>4. "vec" \in Owning /\ v.x \in Owning BY <1>3 DEF Owning
  <2>5. Moved(v, p, Answer(Node("vec", Home(p), Nodes(rs)), News(rs) \cup {Home(p)}, Olds(rs) \cup {v.a}, s))
    BY <1>3, <2>1, <2>2, <2>4, BoxMoved DEF Setting
  <2>6. Moved(v, p, r) BY <2>3, <2>5
  <2>7. r.n = w /\ r.ok BY <2>3, Answers
  <2>8. Home(p) # NoAddr BY HomeApart, 1 \in Nat
  <2>9. Tuple(Nodes(rs)) BY <1>3, <2>1, NodesTuple
  <2>10. w.x = "vec" /\ w.a = Home(p) /\ w.s = Nodes(rs) BY Nodes1
  <2>11. Buffered("vec", w) BY <2>8, <2>9, <2>10 DEF Buffered
  <2>12. DOMAIN w.s = DOMAIN rs /\ \A i \in DOMAIN rs : w.s[i] = rs[i].n BY <2>10 DEF Nodes
  <2> HIDE DEF w
  <2>13. \A i \in DOMAIN w.s : IsCarrier(t.s[1], w.s[i])
    <3>1. \A i \in DOMAIN v.s : IsCarrier(t.s[1], rs[i].n) BY <2>2, PartsOf DEF Carries
    <3> QED BY <2>1, <2>12, <3>1
  <2>14. Carries(t, w) BY <2>11, <2>13, CarriesBuffer
  <2> QED BY <2>6, <2>7, <2>14 DEF EncodedAs
<1> QED BY <1>4, <1>5, <1>6

(* A payload's answer put under a tag keeps what the payload's does. *)
LEMMA WrappedEncoded ==
  ASSUME Setting, NEW t, NEW v, NEW p, NEW c, NEW x, NEW s, x \notin Marks, Moved(v, p, c),
         c.ok, Carries(t, Node(x, NoAddr, <<c.n>>)), NEW r, r = Wrapped(c, Node(x, NoAddr, <<c.n>>), s)
  PROVE  EncodedAs(t, v, p, r)
<1> DEFINE w == Node(x, NoAddr, <<c.n>>)
<1>1. r = Answer(w, c.new, c.old, s) BY DEF Wrapped
<1>2. Sole(c.n) BY DEF Moved
<1>3. Allocs(w) = Allocs(c.n) /\ Sole(w) BY <1>2, Around1 DEF Setting
<1>4. Carries(t, w) OBVIOUS
<1> HIDE DEF w
<1>5. r.ok /\ r.n = w /\ r.new = c.new /\ r.old = c.old BY <1>1, Answers
<1>6. Allocs(c.n) = (Allocs(v) \cup c.new) \ c.old /\ c.new \subseteq Under(p) /\ c.old \subseteq Allocs(v) \cup c.new
  BY DEF Moved
<1>7. Allocs(r.n) = (Allocs(v) \cup r.new) \ r.old /\ Sole(r.n) BY <1>3, <1>5, <1>6
<1>8. Moved(v, p, r) BY <1>5, <1>6, <1>7 DEF Moved
<1> QED BY <1>4, <1>5, <1>8 DEF EncodedAs

(* Encoding a payload moves what the option or result owns. *)
LEMMA PayloadEncoded ==
  ASSUME Setting, NEW t \in Universe, t.k \in {"opt", "copt", "res", "cres"}, NEW v, IsValue(t, v), Sole(v),
         NEW p \in Seq(Nat), Avoids(v, p), \A j \in DOMAIN t.s : Encodes(t.s[j]),
         DOMAIN v.s = {1}, NEW m, NEW s, NEW c, c = Encode(m, Part(t, v, 1), v.s[1], Append(p, 1), s)
  PROVE  c.ok /\ Carries(Part(t, v, 1), c.n) /\ Moved(v, p, c)
<1>1. t.k \notin Transparent /\ t.k \notin Buffers BY DEF Transparent, Buffers
<1>2. EncodedAs(Part(t, v, 1), v.s[1], Append(p, 1), c) BY <1>1, PartEncoded
<1>3. v.x \notin Marks BY <1>1, ValueShape DEF Marks
<1>4. Allocs(v) = Allocs(v.s[1]) BY <1>3, PayloadAllocs
<1> QED BY <1>2, <1>4, PayloadMoved, 1 \in Nat DEF EncodedAs

(* A carrier that owns nothing may be sent for a value that owns nothing. *)
LEMMA EmptyEncoded ==
  ASSUME NEW t, NEW v, NEW p, NEW n, Carries(t, n), Allocs(n) = {}, Sole(n), Allocs(v) = {},
         NEW s, NEW r, r = Answer(n, {}, {}, s)
  PROVE  EncodedAs(t, v, p, r)
<1>1. r.ok /\ r.n = n /\ r.new = {} /\ r.old = {} BY Answers
<1>2. Moved(v, p, r) BY <1>1 DEF Moved
<1> QED BY <1>1, <1>2 DEF EncodedAs

(* Options and results with a tag byte are sent as carriers. *)
LEMMA TaggedEncodes ==
  ASSUME Setting, Distinct, NEW t \in Universe, ~Borrowing(t), t.k \in {"opt", "copt", "res", "cres"},
         \A j \in DOMAIN t.s : Encodes(t.s[j])
  PROVE  Encodes(t)
<1> SUFFICES ASSUME NEW m, NEW v, NEW st, NEW p \in Seq(Nat), IsValue(t, v), Sole(v), Avoids(v, p),
                    NEW r, r = Encode(m, t, v, p, st)
             PROVE  EncodedAs(t, v, p, r)
  BY DEF Encodes
<1> DEFINE c == EncodePart(IF m = "checked" THEN "checked" ELSE "unchecked", t, v, p, 1, NoStore)
<1>1. r = IF m = "checked" THEN EncodeChecked(t, v, p, st) ELSE EncodeUnchecked(t, v, p, st) BY EncodesByRule
<1>2. ValueLayer(t, v) BY ValueIs
<1>3. /\ t.k = "opt" => ~NicheOption(t)
      /\ t.k = "res" => ~OkNiche(t) /\ ~ErrNiche(t)
  BY DEF Borrowing
<1>4. /\ t.k = "opt" => r = OptionTagged(v, c)
      /\ t.k = "copt" => r = IF v.x = "0" THEN OptionTagged(NoneV, v) ELSE OptionTagged(v, c)
      /\ t.k \in {"res", "cres"} => r = ResultTagged(v, c)
  <2>1. CASE m = "checked"
    BY <1>1, <1>3, <2>1 DEF EncodeChecked, Structs, DataEnums, Fieldless, StdOptionTagged, StdResultTagged
  <2>2. CASE m # "checked"
    BY <1>1, <1>3, <2>2 DEF EncodeUnchecked, Structs, DataEnums, Fieldless, StdOptionTaggedUnchecked, StdResultTaggedUnchecked,
                            OptionTaggedUnchecked, OptionTagged, ResultTaggedUnchecked, ResultTagged
  <2> QED BY <2>1, <2>2
<1>5. \E q : c = Encode(q, Part(t, v, 1), v.s[1], Append(p, 1), NoStore) BY DEF EncodePart
<1> HIDE DEF c
<1>6. ASSUME DOMAIN v.s = {1} PROVE c.ok /\ Carries(Part(t, v, 1), c.n) /\ Moved(v, p, c)
  BY <1>5, <1>6, PayloadEncoded
<1>7. DOMAIN t.s = {1} \/ DOMAIN t.s = {1, 2} BY Kind
<1>8. CASE v \in {NoneV, Zeroed}
  <2>1. t.k \in {"opt", "copt"} /\ (t.k = "opt" => v = NoneV) /\ (t.k = "copt" => v = Zeroed)
    <3>1. ~Around("Ok", NoAddr, v) /\ ~Around("Err", NoAddr, v) /\ ~Around("0", NoAddr, v) /\ ~Around("1", NoAddr, v)
          /\ ~Around("Some", NoAddr, v)
      BY <1>8, Shapes1
    <3> QED BY <1>2, <3>1, ValueLayers
  <2>2. r = Kept(Zeroed)
    <3>1. v.x = IF t.k = "opt" THEN "None" ELSE "0" BY <2>1, Shapes1
    <3>2. NoneV.x = "None" BY Shapes1
    <3> QED BY <1>4, <2>1, <3>1, <3>2 DEF OptionTagged
  <2>3. Carries(t, Zeroed) BY <1>3, <2>1, CarriesOption
  <2>4. DOMAIN v.s = {} /\ v.x \notin Marks /\ DOMAIN Zeroed.s = {} /\ Zeroed.x \notin Marks
    BY <1>8, Shapes1 DEF Marks, Owning
  <2>5. Allocs(v) = {} /\ Allocs(Zeroed) = {} /\ Sole(Zeroed) BY <2>4, ScalarOwnsNothing
  <2>6. r = Answer(Zeroed, {}, {}, NoStore) BY <2>2 DEF Kept
  <2> QED BY <2>3, <2>5, <2>6, EmptyEncoded
<1>9. CASE v \notin {NoneV, Zeroed}
  <2>1. /\ t.k = "opt" => Around("Some", NoAddr, v)
        /\ t.k = "copt" => Around("1", NoAddr, v)
        /\ t.k = "res" => Around("Ok", NoAddr, v) \/ Around("Err", NoAddr, v)
        /\ t.k = "cres" => Around("0", NoAddr, v) \/ Around("1", NoAddr, v)
    BY <1>2, <1>9, ValueLayers
  <2>2. DOMAIN v.s = {1} /\ v.x \in (CASE t.k = "opt" -> {"Some"} [] t.k = "copt" -> {"1"} [] t.k = "res" -> {"Ok", "Err"} [] OTHER -> {"0", "1"})
    BY <2>1, Shapes1
  <2>3. c.ok /\ Carries(Part(t, v, 1), c.n) /\ Moved(v, p, c) BY <1>6, <2>2
  <2> DEFINE x == IF t.k \in {"opt", "copt"} THEN "1" ELSE ResultTag(v)
             w == Node(x, NoAddr, <<c.n>>)
  <2>4. x \in {"0", "1"} /\ (t.k \in {"res", "cres"} => (x = "1" <=> v.x \in {"Err", "1"})) /\ (t.k \in {"opt", "copt"} => x = "1")
    BY DEF ResultTag, ErrSide
  <2>5. \E s : r = Wrapped(c, w, s)
    <3>1. CASE t.k \in {"opt", "copt"}
      <4>1. r = OptionTagged(v, c) /\ v.x # "None" BY <1>4, <2>2, <3>1
      <4>2. r = Wrapped(c, Node("1", NoAddr, <<c.n>>), Within("opt", <<c.st>>)) BY <4>1 DEF OptionTagged
      <4> QED BY <3>1, <4>2
    <3>2. CASE t.k \in {"res", "cres"}
      <4>1. r = Wrapped(c, Node(ResultTag(v), NoAddr, <<c.n>>), Within("opt", <<c.st>>)) BY <1>4, <3>2 DEF ResultTagged
      <4> QED BY <3>2, <4>1
    <3> QED BY <3>1, <3>2
  <2>6. w.x = x /\ w.s = <<c.n>> /\ w.s[1] = c.n /\ Around(x, NoAddr, w) BY Nodes1, AroundNode
  <2> HIDE DEF x
  <2>7. Carries(t, w)
    <3> HIDE DEF w
    <3>1. CASE t.k \in {"opt", "copt"}
      <4>1. Part(t, v, 1) = t.s[1] BY <3>1, PartsOf
      <4>2. IsCarrier(t.s[1], w.s[1]) BY <2>3, <2>6, <4>1 DEF Carries
      <4> QED BY <1>3, <2>4, <2>6, <3>1, <4>2, CarriesOption
    <3>2. CASE t.k \in {"res", "cres"}
      <4>1. Part(t, v, 1) = IF w.x = "1" THEN t.s[2] ELSE t.s[1] BY <2>4, <2>6, <3>2, PartsOf
      <4>2. IsCarrier(IF w.x = "1" THEN t.s[2] ELSE t.s[1], w.s[1]) BY <2>3, <2>6, <4>1 DEF Carries
      <4> QED BY <1>3, <2>4, <2>6, <3>2, <4>2, CarriesResult
    <3> QED BY <3>1, <3>2
  <2>8. x \notin Marks BY <2>4 DEF Marks, Owning
  <2> QED BY <2>3, <2>5, <2>7, <2>8, WrappedEncoded
<1> QED BY <1>8, <1>9

(* The node owns nothing. *)
Empty(n) == Allocs(n) = {} /\ Sole(n)
(* The niche of a type that has one is recognized as it, and owns nothing. *)
NicheKnown(t) == HasNiche(t) => IsNiche(t, NicheOf(t)) /\ Empty(NicheOf(t))

(* Two nodes that own nothing side by side own nothing. *)
LEMMA EmptyPair ==
  ASSUME Setting, NEW a, NEW b, Empty(a), Empty(b)
  PROVE  /\ Empty(Compound(<<a, b>>)) /\ DOMAIN Compound(<<a, b>>).s = {1, 2}
         /\ Compound(<<a, b>>).s[1] = a /\ Compound(<<a, b>>).s[2] = b
<1> DEFINE n == Compound(<<a, b>>)
<1>1. n.x = "compound" /\ n.s = <<a, b>> BY Nodes1
<1>2. DOMAIN <<a, b>> = {1, 2} /\ <<a, b>>[1] = a /\ <<a, b>>[2] = b OBVIOUS
<1>3. DOMAIN n.s = {1, 2} /\ n.s[1] = a /\ n.s[2] = b BY <1>1, <1>2
<1> HIDE DEF n
<1>4. \A i \in DOMAIN n.s : Allocs(n.s[i]) = {} /\ Sole(n.s[i]) BY <1>3 DEF Empty
<1>5. Here(n) = {} /\ n.x \notin {"ref", "mut"} BY <1>1 DEF Here, Owning
<1>6. Below(n) = {} BY <1>4 DEF Below
<1>7. Allocs(n) = AllocsRule(n) /\ Sole(n) = SoleRule(n) BY DEF Setting, Reading
<1>8. Allocs(n) = {} BY <1>5, <1>6, <1>7 DEF AllocsRule
<1>9. Sole(n) BY <1>4, <1>5, <1>7 DEF SoleRule
<1> QED BY <1>3, <1>8, <1>9 DEF n, Empty

(* Atoms that are no pointer own nothing, nor do the niches of options and *)
(* results, nor the null pointer.                                          *)
LEMMA EmptyAtom ==
  ASSUME Setting
  PROVE  /\ \A x : x \notin Marks => Empty(Atom(x))
         /\ Empty(Null) /\ Empty(Zeroed) /\ Empty(OptionNiche) /\ Empty(ResultNiche)
         /\ OptionNiche.x = "2" /\ ResultNiche.x = "2" /\ Null.a = NoAddr
<1>1. \A x : x \notin Marks => Empty(Atom(x))
  <2> TAKE x
  <2>1. Atom(x).x = x /\ DOMAIN Atom(x).s = {} BY Nodes1
  <2> HIDE DEF Atom
  <2> QED BY <2>1, ScalarOwnsNothing DEF Empty
<1>2. "null" \notin Marks /\ "0" \notin Marks /\ "2" \notin Marks BY DEF Marks, Owning
<1>3. OptionNiche = Atom("2") /\ ResultNiche = Atom("2") BY DEF OptionNiche, ResultNiche, Atom
<1>4. OptionNiche.x = "2" /\ ResultNiche.x = "2" BY <1>3, Nodes1
<1>5. Null.a = NoAddr BY Shapes1
<1> QED BY <1>1, <1>2, <1>3, <1>4, <1>5 DEF Null, Zeroed

(* The niche of a tuple, array or struct is recognized: it is made of the *)
(* niche of the component that is looked at.                              *)
LEMMA PairNicheKnown ==
  ASSUME Setting, NEW t \in Universe, t.k \in PairKinds, HasNiche(t), \A i \in DOMAIN t.s : NicheKnown(t.s[i])
  PROVE  IsNiche(t, NicheOf(t)) /\ Empty(NicheOf(t))
<1>1. HasNicheRule(t) /\ NicheOf(t) = NicheOfRule(t) /\ \A w : IsNiche(t, w) = IsNicheRule(t, w)
  BY DEF Setting, Tied
<1>2. DOMAIN t.s = {1, 2} BY Kind DEF PairKinds
<1>3. t.k # "identity" BY <1>1 DEF HasNicheRule, Pointers
<1>4. CASE t.k = "arr"
  <2>1. HasNiche(t.s[1]) BY <1>1, <1>4 DEF HasNicheRule, Pointers, Elem
  <2>2. NicheOf(t) = Compound(<<NicheOf(t.s[1]), NicheOf(t.s[1])>>)
    BY <1>1, <1>4 DEF NicheOfRule, ArrayNiche, Elem, Pointers, Records, Structs, Tagged, DataEnums, Fieldless
  <2>3. IsNiche(t.s[1], NicheOf(t.s[1])) /\ Empty(NicheOf(t.s[1])) BY <1>2, <2>1 DEF NicheKnown
  <2>4. /\ Empty(NicheOf(t)) /\ DOMAIN NicheOf(t).s = {1, 2}
        /\ NicheOf(t).s[1] = NicheOf(t.s[1]) /\ NicheOf(t).s[2] = NicheOf(t.s[1])
    BY <2>2, <2>3, EmptyPair
  <2>5. IsNiche(t, NicheOf(t)) = (NicheOf(t).s # <<>> /\ \A i \in DOMAIN NicheOf(t).s : IsNiche(t.s[1], NicheOf(t).s[i]))
    BY <1>1, <1>4 DEF IsNicheRule, ArrayIsNiche, Elem, Pointers, Records, Structs, Tagged, DataEnums, Fieldless
  <2>6. NicheOf(t).s # <<>> BY <2>4
  <2> QED BY <2>3, <2>4, <2>5, <2>6
<1>5. CASE t.k \in {"tup", "struct", "cstruct", "vstruct", "vcstruct", "onevariant"}
  <2>1. HasNiche(t.s[1]) \/ HasNiche(t.s[2]) BY <1>1, <1>5 DEF HasNicheRule, Pointers
  <2>2. \A w : IsNiche(t, w) = TupleIsNiche(t, w)
    BY <1>1, <1>5 DEF IsNicheRule, StructIsNiche, Pointers, Records, Structs, Tagged, DataEnums, Fieldless
  <2>3. NicheOf(t) = TupleNiche(t)
    BY <1>1, <1>5 DEF NicheOfRule, StructNiche, Pointers, Records, Structs, Tagged, DataEnums, Fieldless
  <2>4. \A i \in {1, 2} : HasNiche(t.s[i]) => IsNiche(t.s[i], NicheOf(t.s[i])) /\ Empty(NicheOf(t.s[i]))
    BY <1>2 DEF NicheKnown
  <2>5. Empty(Zeroed) BY EmptyAtom
  <2>6. CASE HasNiche(t.s[1])
    <3>1. NicheOf(t) = Compound(<<NicheOf(t.s[1]), Zeroed>>) BY <2>3, <2>6 DEF TupleNiche
    <3>2. Empty(NicheOf(t)) /\ NicheOf(t).s[1] = NicheOf(t.s[1]) BY <2>4, <2>5, <2>6, <3>1, EmptyPair
    <3> QED BY <2>2, <2>4, <2>6, <3>2 DEF TupleIsNiche
  <2>7. CASE ~HasNiche(t.s[1])
    <3>1. NicheOf(t) = Compound(<<Zeroed, NicheOf(t.s[2])>>) BY <2>3, <2>7 DEF TupleNiche
    <3>2. Empty(NicheOf(t)) /\ NicheOf(t).s[2] = NicheOf(t.s[2]) BY <2>1, <2>4, <2>5, <2>7, <3>1, EmptyPair
    <3> QED BY <2>1, <2>2, <2>4, <2>7, <3>2 DEF TupleIsNiche
  <2> QED BY <2>6, <2>7
<1>6. CASE t.k = "trap"
  <2>1. NicheOf(t) = Compound(<<Atom("0"), Atom("1")>>)
    BY <1>1, <1>6 DEF NicheOfRule, StructNiche, Pointers, Records, Structs, Tagged, DataEnums, Fieldless
  <2>2. IsNiche(t, NicheOf(t)) = (NicheOf(t) = Compound(<<Atom("0"), Atom("1")>>))
    BY <1>1, <1>6 DEF IsNicheRule, StructIsNiche, StructNiche, Pointers, Records, Structs, Tagged, DataEnums, Fieldless
  <2>3. Empty(Atom("0")) /\ Empty(Atom("1")) BY EmptyAtom DEF Marks, Owning
  <2>4. Empty(NicheOf(t)) BY <2>1, <2>3, EmptyPair
  <2> QED BY <2>1, <2>2, <2>4
<1> QED BY <1>3, <1>4, <1>5, <1>6 DEF PairKinds

(* For every type, is_niche recognizes NICHE. *)
LEMMA NichesKnown ==
  ASSUME Setting
  PROVE  \A t \in Universe : NicheKnown(t)
<1> DEFINE G == {t \in Universe : NicheKnown(t)}
<1>1. ASSUME NEW t \in Universe, \A i \in DOMAIN t.s : t.s[i] \in G, HasNiche(t)
      PROVE  IsNiche(t, NicheOf(t)) /\ Empty(NicheOf(t))
  <2>1. \A i \in DOMAIN t.s : NicheKnown(t.s[i]) BY <1>1
  <2> HIDE DEF G
  <2>2. HasNicheRule(t) /\ NicheOf(t) = NicheOfRule(t) BY <1>1 DEF Setting, Tied
  <2> DEFINE n == NicheOf(t)
  <2>4. CASE t.k \in {"bool", "nz"}
    <3>1. n = IF t.k = "bool" THEN Atom("2") ELSE Atom("0") BY <2>2, <2>4 DEF NicheOfRule, BoolNiche, NonZeroNiche, Pointers, Records, Structs, Tagged, DataEnums, Fieldless
    <3>2. "2" \notin Marks /\ "0" \notin Marks BY DEF Marks, Owning
    <3>3. Empty(n) BY <3>1, <3>2, EmptyAtom
    <3>4. IsNiche(t, n) BY <1>1, <2>4, <3>1, NicheLayers
    <3> QED BY <3>3, <3>4
  <2>5. CASE t.k \in Buffers
    <3>1. n = Null BY <2>2, <2>5 DEF NicheOfRule, Buffers, Pointers, Records, Structs, Tagged, DataEnums, Fieldless
    <3>2. Empty(n) /\ n.a = NoAddr BY <3>1, EmptyAtom
    <3>3. IsNiche(t, n) BY <1>1, <2>5, <3>2, NicheLayers
    <3> QED BY <3>2, <3>3
  <2>6. CASE t.k = "opt"
    <3>1. CASE NicheOption(t)
      <4>1. t \in {Opt(Bool), Opt(Opt(Bool))} /\ IsNiche(t, n) = (n = NicheOf(t)) BY <1>1, <2>6, <3>1, NicheLayers
      <4>2. n = Atom("3") \/ n = Atom("4")
        BY <2>2, <2>6, <4>1 DEF NicheOfRule, OptionBoolNiche, OptionOptionBoolNiche, Pointers, Records, Structs, Tagged, DataEnums, Fieldless
      <4>3. "3" \notin Marks /\ "4" \notin Marks BY DEF Marks, Owning
      <4>4. Empty(n) BY <4>2, <4>3, EmptyAtom
      <4> QED BY <4>1, <4>4
    <3>2. CASE ~NicheOption(t)
      <4>1. t # Opt(Bool)
        <5>1. SUFFICES ASSUME t = Opt(Bool) PROVE FALSE OBVIOUS
        <5>2. t.s[1] = Bool /\ DOMAIN t.s = {1} BY <5>1 DEF Opt, Ty
        <5>3. Bool \in Universe /\ Bool.k = "bool" BY <1>1, <5>2, Kind DEF Bool, Ty
        <5>4. HasNiche(Bool) BY <5>3 DEF Setting, Tied, HasNicheRule
        <5> QED BY <3>2, <5>2, <5>4 DEF NicheOption, Elem
      <4>2. t # Opt(Opt(Bool))
        <5>1. SUFFICES ASSUME t = Opt(Opt(Bool)) PROVE FALSE OBVIOUS
        <5>2. t.s[1] = Opt(Bool) /\ DOMAIN t.s = {1} BY <5>1 DEF Opt, Ty
        <5>3. Opt(Bool) \in Universe /\ Opt(Bool).k = "opt" BY <1>1, <5>2, Kind DEF Opt, Ty
        <5>4. HasNiche(Opt(Bool)) = HasNicheRule(Opt(Bool)) BY <5>3 DEF Setting, Tied
        <5>5. HasNiche(Opt(Bool)) BY <5>3, <5>4 DEF HasNicheRule, Pointers
        <5> QED BY <3>2, <5>2, <5>5 DEF NicheOption, Elem
      <4>3. n = OptionNiche BY <2>2, <2>6, <4>1, <4>2 DEF NicheOfRule, Pointers, Records, Structs, Tagged, DataEnums, Fieldless
      <4>4. Empty(n) /\ n.x = "2" BY <4>3, EmptyAtom
      <4>5. IsNiche(t, n) BY <1>1, <2>6, <3>2, <4>4, NicheLayers
      <4> QED BY <4>4, <4>5
    <3> QED BY <3>1, <3>2
  <2>7. CASE t.k \in {"copt", "res", "cres"}
    <3>1. n = OptionNiche \/ n = ResultNiche BY <2>2, <2>7 DEF NicheOfRule, Pointers, Records, Structs, Tagged, DataEnums, Fieldless
    <3>2. Empty(n) /\ n.x = "2" BY <3>1, EmptyAtom
    <3>3. IsNiche(t, n) BY <1>1, <2>7, <3>2, NicheLayers
    <3> QED BY <3>2, <3>3
  <2>8. CASE t.k \in {"md", "newtype"}
    <3>1. n = NicheOf(t.s[1]) BY <2>2, <2>8 DEF NicheOfRule, NewtypeNiche, Elem, Pointers, Records, Structs, Tagged, DataEnums, Fieldless
    <3>2. HasNiche(t.s[1]) /\ IsNiche(t, n) = IsNiche(t.s[1], n) BY <1>1, <2>8, NicheLayers
    <3>3. DOMAIN t.s = {1} BY <1>1, <2>8, Kind
    <3>4. IsNiche(t.s[1], NicheOf(t.s[1])) /\ Empty(NicheOf(t.s[1])) BY <2>1, <3>2, <3>3 DEF NicheKnown
    <3> QED BY <3>1, <3>2, <3>4
  <2>9. CASE t.k \in PairKinds BY <1>1, <2>1, <2>9, PairNicheKnown
  <2>10. CASE t.k \in {"tags", "inferred", "enum", "cenum"}
    <3>1. t.k \in Tagged BY <2>10 DEF Tagged, DataEnums, Fieldless
    <3>2. n = EnumNiche(t) BY <2>2, <2>10 DEF NicheOfRule, Pointers, Records, Structs, Tagged, DataEnums, Fieldless
    <3>3. n = Atom(IF t.k \in {"cenum", "tags"} THEN "0" ELSE "3") BY <3>1, <3>2, NicheTags DEF EnumNiche, Atom
    <3>4. "0" \notin Marks /\ "3" \notin Marks BY DEF Marks, Owning
    <3>5. Empty(n) /\ n.x = IF t.k \in {"cenum", "tags"} THEN "0" ELSE "3" BY <3>3, <3>4, EmptyAtom, Nodes1
    <3>6. IsNiche(t, n)
      <4> HIDE DEF n
      <4>1. CASE t.k \in {"tags", "cenum"} BY <1>1, <3>5, <4>1, NicheLayers, ZenonT(60)
      <4>2. CASE t.k \in {"inferred", "enum"} BY <1>1, <3>5, <4>2, NicheLayers, ZenonT(60)
      <4> QED BY <2>10, <4>1, <4>2
    <3> QED BY <3>5, <3>6
  <2>11. t.k \notin {"int", "unit", "single", "exhaustive", "cell", "identity"} BY <1>1, NicheLayers
  <2> HIDE DEF n
  <2> QED BY <1>1, <2>4, <2>5, <2>6, <2>7, <2>8, <2>9, <2>10, <2>11, Kind DEF n, Buffers, PairKinds
<1>2. \A t \in Universe : (\A i \in DOMAIN t.s : t.s[i] \in G) => t \in G
  BY <1>1 DEF NicheKnown
<1> HIDE DEF G
<1>3. Closed BY DEF Setting
<1>4. Universe \subseteq G BY <1>2, <1>3, RankInduction
<1> QED BY <1>4 DEF G

(* The parameter whose niche stands for the side without payload. *)
Niched(t) == IF t.k = "res" /\ ~OkNiche(t) THEN t.s[2] ELSE t.s[1]

(* An option or result sent as its payload's carrier has a payload with a *)
(* niche; a result has none itself.                                       *)
LEMMA NichedKnown ==
  ASSUME Setting, NEW t \in Universe, Borrowing(t), t.k \notin Transparent
  PROVE  /\ t.k \in {"opt", "res"} /\ Niched(t) \in Universe /\ HasNiche(Niched(t))
         /\ \E j \in DOMAIN t.s : Niched(t) = t.s[j]
         /\ t.k = "opt" => NicheOption(t) /\ Niched(t) = t.s[1]
         /\ t.k = "res" => ~HasNiche(t) /\ (OkNiche(t) \/ ErrNiche(t))
<1>1. (t.k = "opt" /\ NicheOption(t)) \/ (t.k = "res" /\ (OkNiche(t) \/ ErrNiche(t))) BY DEF Borrowing
<1>2. CASE t.k = "opt"
  <2>1. DOMAIN t.s = {1} /\ t.s[1] \in Universe BY <1>2, Kind
  <2> QED BY <1>1, <1>2, <2>1 DEF Niched, NicheOption, Elem
<1>3. CASE t.k = "res"
  <2>1. DOMAIN t.s = {1, 2} /\ t.s[1] \in Universe /\ t.s[2] \in Universe BY <1>3, Kind
  <2>2. HasNiche(t) = HasNicheRule(t) BY DEF Setting, Tied
  <2>3. ~HasNiche(t) BY <1>1, <1>3, <2>2 DEF HasNicheRule, Pointers
  <2>4. HasNiche(Niched(t)) BY <1>1, <1>3 DEF Niched, OkNiche, ErrNiche
  <2> QED BY <1>1, <1>3, <2>1, <2>3, <2>4 DEF Niched
<1> QED BY <1>1, <1>2, <1>3

(* What is sent for such a type is the payload's niche or a carrier of the *)
(* payload that is not it, and is not taken for its own niche.             *)
LEMMA CarriesNiche ==
  ASSUME Setting, Distinct, NEW t \in Universe, Borrowing(t), t.k \notin Transparent, NEW w,
         (IsNiche(Niched(t), w) /\ Allocs(w) = {}) \/ Carries(Niched(t), w), HasNiche(t) => ~IsNiche(t, w)
  PROVE  Carries(t, w)
<1>1. HasNiche(Niched(t)) /\ t.k \in {"opt", "res"} /\ \E j \in DOMAIN t.s : Niched(t) = t.s[j] BY NichedKnown
<1>2. ~Declares(Niched(t))
  <2>1. ~Declares(t) BY DEF Distinct
  <2> QED BY <1>1, <2>1, DeclaresNot
<1>3. NicheCarrier(Niched(t), w) BY <1>1, <1>2 DEF NicheCarrier, Carries
<1>4. CarrierLayer(t, w)
  <2>1. CASE t.k = "opt"
    <3>1. NicheOption(t) /\ Niched(t) = Elem(t) BY <2>1, NichedKnown DEF Elem
    <3> QED BY <1>3, <2>1, <3>1, CarrierLayers
  <2>2. CASE t.k = "res"
    <3>1. OkNiche(t) \/ ErrNiche(t) BY <2>2, NichedKnown
    <3>2. ~(OkNiche(t) /\ ErrNiche(t)) BY DEF OkNiche, ErrNiche
    <3>3. CarrierLayer(t, w) = CASE OkNiche(t) -> NicheCarrier(t.s[1], w) [] ErrNiche(t) -> NicheCarrier(t.s[2], w)
                                 [] OTHER -> TagAndPayload({"0", "1"}, w)
      BY <2>2, CarrierLayers
    <3> QED BY <1>3, <2>2, <3>1, <3>2, <3>3 DEF Niched
  <2> QED BY <1>1, <2>1, <2>2
<1>5. IsCarrier(t, w) BY <1>4, MakesCarrier
<1> QED BY <1>5 DEF Carries

(* bool, Option<bool> and Option<Option<bool>> use three consecutive values *)
(* of the byte as their niches.                                             *)
LEMMA BoolNiches ==
  ASSUME Setting, NEW t \in Universe
  PROVE  /\ t = Bool => HasNiche(t) /\ NicheOf(t) = Atom("2") /\ t.k = "bool"
         /\ t = Opt(Bool) => /\ t.k = "opt" /\ t.s[1] = Bool /\ Bool \in Universe
                             /\ Borrowing(t) /\ HasNiche(t) /\ NicheOf(t) = Atom("3")
         /\ t = Opt(Opt(Bool)) => /\ t.k = "opt" /\ t.s[1] = Opt(Bool) /\ Opt(Bool) \in Universe
                                  /\ Borrowing(t) /\ HasNiche(t) /\ NicheOf(t) = Atom("4")
<1>1. ASSUME NEW u \in Universe, u = Bool PROVE HasNiche(u) /\ NicheOf(u) = Atom("2") /\ u.k = "bool"
  <2>1. u.k = "bool" BY <1>1 DEF Bool, Ty
  <2>2. HasNiche(u) = HasNicheRule(u) /\ NicheOf(u) = NicheOfRule(u) BY DEF Setting, Tied
  <2>3. HasNiche(u) BY <2>1, <2>2 DEF HasNicheRule
  <2>4. NicheOf(u) = Atom("2")
    BY <2>1, <2>2 DEF NicheOfRule, BoolNiche, Pointers, Records, Structs, Tagged, DataEnums, Fieldless
  <2> QED BY <2>1, <2>3, <2>4
<1>2. ASSUME NEW u \in Universe, u = Opt(Bool)
      PROVE  u.k = "opt" /\ u.s[1] = Bool /\ Bool \in Universe /\ Borrowing(u) /\ HasNiche(u) /\ NicheOf(u) = Atom("3")
  <2>1. u.k = "opt" /\ u.s[1] = Bool /\ DOMAIN u.s = {1} BY <1>2 DEF Opt, Ty
  <2>2. HasNiche(u) = HasNicheRule(u) /\ NicheOf(u) = NicheOfRule(u) BY DEF Setting, Tied
  <2>3. Bool \in Universe BY <1>2, <2>1, Kind
  <2>4. HasNiche(Bool) BY <1>1, <2>3
  <2>5. NicheOption(u) BY <2>1, <2>4 DEF NicheOption, Elem
  <2>6. HasNiche(u) BY <1>2, <2>1, <2>2 DEF HasNicheRule, Pointers
  <2>9. u # Opt(Opt(Bool))
    <3>1. Opt(Opt(Bool)).s[1] = Opt(Bool) /\ Bool.k = "bool" /\ Opt(Bool).k = "opt" BY DEF Opt, Ty, Bool
    <3> QED BY <2>1, <3>1
  <2>7. NicheOf(u) = Atom("3")
    BY <1>2, <2>1, <2>2, <2>9 DEF NicheOfRule, OptionBoolNiche, Pointers, Records, Structs, Tagged, DataEnums, Fieldless
  <2>8. Borrowing(u) BY <2>1, <2>5 DEF Borrowing
  <2> QED BY <2>1, <2>3, <2>6, <2>7, <2>8
<1>3. ASSUME NEW u \in Universe, u = Opt(Opt(Bool))
      PROVE  u.k = "opt" /\ u.s[1] = Opt(Bool) /\ Opt(Bool) \in Universe /\ Borrowing(u) /\ HasNiche(u) /\ NicheOf(u) = Atom("4")
  <2>1. u.k = "opt" /\ u.s[1] = Opt(Bool) /\ DOMAIN u.s = {1} BY <1>3 DEF Opt, Ty
  <2>2. HasNiche(u) = HasNicheRule(u) /\ NicheOf(u) = NicheOfRule(u) BY DEF Setting, Tied
  <2>3. Opt(Bool) \in Universe BY <1>3, <2>1, Kind
  <2>4. HasNiche(Opt(Bool)) BY <1>2, <2>3
  <2>5. NicheOption(u) BY <2>1, <2>4 DEF NicheOption, Elem
  <2>6. HasNiche(u) BY <1>3, <2>1, <2>2 DEF HasNicheRule, Pointers
  <2>7. u # Opt(Bool)
    <3>1. Opt(Bool).s[1] = Bool /\ Bool.k = "bool" /\ Opt(Bool).k = "opt" BY DEF Opt, Ty, Bool
    <3> QED BY <2>1, <3>1
  <2>8. NicheOf(u) = Atom("4")
    BY <1>3, <2>1, <2>2, <2>7 DEF NicheOfRule, OptionOptionBoolNiche, Pointers, Records, Structs, Tagged, DataEnums, Fieldless
  <2>9. Borrowing(u) BY <2>1, <2>5 DEF Borrowing
  <2> QED BY <2>1, <2>3, <2>6, <2>8, <2>9
<1> QED BY <1>1, <1>2, <1>3

(* The payload is not sent: the variant is told by the niche of the other *)
(* side's carrier.                                                        *)
Elided(t, v) == v.x = IF t.k = "opt" THEN "None" ELSE IF OkNiche(t) THEN "Err" ELSE "Ok"

(* How such a type is encoded: the niche for the side without payload, the *)
(* payload's carrier otherwise.                                            *)
LEMMA NicheEncoding ==
  ASSUME Setting, NEW t \in Universe, Borrowing(t), t.k \notin Transparent, NEW v, IsValue(t, v),
         NEW m, NEW p, NEW st, NEW r, r = Encode(m, t, v, p, st)
  PROVE  \/ /\ Elided(t, v) /\ Allocs(v) = {} /\ (t.k = "res" => DOMAIN v.s = {1} /\ v.s[1] = UnitV)
            /\ \E s : r = Answer(NicheOf(Niched(t)), {}, {}, s)
         \/ /\ ~Elided(t, v) /\ DOMAIN v.s = {1} /\ Part(t, v, 1) = Niched(t)
            /\ \E q, s, c : c = Encode(q, Part(t, v, 1), v.s[1], Append(p, 1), NoStore) /\ r = Wrapped(c, c.n, s)
<1>1. r = IF m = "checked" THEN EncodeChecked(t, v, p, st) ELSE EncodeUnchecked(t, v, p, st) BY EncodesByRule
<1>2. ValueLayer(t, v) /\ \A i \in DOMAIN v.s : IsValue(Part(t, v, i), v.s[i]) BY ValueIs
<1> DEFINE q == IF m = "checked" THEN "checked" ELSE "unchecked"
           c == EncodePart(q, t, v, p, 1, NoStore)
<1>3. c = Encode(q, Part(t, v, 1), v.s[1], Append(p, 1), NoStore) BY DEF EncodePart
<1>4. CASE t.k = "opt"
  <2>1. NicheOption(t) /\ Niched(t) = t.s[1] BY <1>4, NichedKnown
  <2>2. r = IF v.x = "None" THEN Kept(NicheOf(t.s[1])) ELSE Wrapped(c, c.n, Within("opt", <<c.st>>))
    BY <1>1, <1>4, <2>1 DEF EncodeChecked, EncodeUnchecked, Structs, DataEnums, Fieldless, OptionNicheUnchecked, OptionNicheEncode, Elem
  <2> HIDE DEF c
  <2>3. v = NoneV \/ Around("Some", NoAddr, v) BY <1>2, <1>4, ValueLayers
  <2>4. CASE v = NoneV
    <3>1. v.x = "None" /\ DOMAIN v.s = {} /\ v.x \notin Marks BY <2>4, Shapes1 DEF Marks, Owning
    <3>2. Allocs(v) = {} BY <3>1, ScalarOwnsNothing
    <3>3. r = Answer(NicheOf(t.s[1]), {}, {}, NoStore) BY <2>2, <3>1 DEF Kept
    <3>4. Elided(t, v) BY <1>4, <3>1 DEF Elided
    <3> QED BY <1>4, <2>1, <3>2, <3>3, <3>4
  <2>5. CASE Around("Some", NoAddr, v)
    <3>1. v.x = "Some" /\ DOMAIN v.s = {1} BY <2>5, Shapes1
    <3>2. Part(t, v, 1) = t.s[1] BY <1>4, PartsOf
    <3>3. r = Wrapped(c, c.n, Within("opt", <<c.st>>)) BY <2>2, <3>1
    <3>4. ~Elided(t, v) BY <1>4, <3>1 DEF Elided
    <3> QED BY <1>3, <2>1, <3>1, <3>2, <3>3, <3>4
  <2> QED BY <2>3, <2>4, <2>5
<1>5. CASE t.k = "res"
  <2>1. (OkNiche(t) \/ ErrNiche(t)) /\ ~(OkNiche(t) /\ ErrNiche(t)) BY <1>5, NichedKnown DEF OkNiche, ErrNiche
  <2>2. \E s1, s2 : r = IF v.x = (IF OkNiche(t) THEN "Err" ELSE "Ok") THEN Answer(NicheOf(Niched(t)), {}, {}, s1)
                        ELSE Wrapped(c, c.n, s2)
    <3>1. CASE OkNiche(t)
      <4>1. Niched(t) = t.s[1] BY <3>1 DEF Niched
      <4>2. CASE m = "checked"
        <5>1. r = ResultOkNiche(t, v, c, st) BY <1>1, <1>5, <2>1, <3>1, <4>2 DEF EncodeChecked, Structs, DataEnums, Fieldless
        <5> QED BY <3>1, <4>1, <5>1 DEF ResultOkNiche
      <4>3. CASE m # "checked"
        <5>1. r = ResultOkNicheUnchecked(t, v, c) BY <1>1, <1>5, <2>1, <3>1, <4>3 DEF EncodeUnchecked, Structs, DataEnums, Fieldless
        <5> QED BY <3>1, <4>1, <5>1 DEF ResultOkNicheUnchecked, Kept
      <4> QED BY <4>2, <4>3
    <3>2. CASE ErrNiche(t)
      <4>1. Niched(t) = t.s[2] /\ ~OkNiche(t) BY <1>5, <2>1, <3>2 DEF Niched
      <4>2. CASE m = "checked"
        <5>1. r = ResultErrNiche(t, v, c, st) BY <1>1, <1>5, <3>2, <4>1, <4>2 DEF EncodeChecked, Structs, DataEnums, Fieldless
        <5> QED BY <3>2, <4>1, <5>1 DEF ResultErrNiche
      <4>3. CASE m # "checked"
        <5>1. r = ResultErrNicheUnchecked(t, v, c) BY <1>1, <1>5, <3>2, <4>1, <4>3 DEF EncodeUnchecked, Structs, DataEnums, Fieldless
        <5> QED BY <3>2, <4>1, <5>1 DEF ResultErrNicheUnchecked, Kept
      <4> QED BY <4>2, <4>3
    <3> QED BY <2>1, <3>1, <3>2
  <2> HIDE DEF c, q
  <2>3. Around("Ok", NoAddr, v) \/ Around("Err", NoAddr, v) BY <1>2, <1>5, ValueLayers
  <2>4. v.x \in {"Ok", "Err"} /\ DOMAIN v.s = {1} /\ v.x \notin Marks BY <2>3, Shapes1 DEF Marks, Owning
  <2>5. Part(t, v, 1) = IF v.x = "Err" THEN t.s[2] ELSE t.s[1] BY <1>5, <2>4, PartsOf
  <2>6. CASE v.x = IF OkNiche(t) THEN "Err" ELSE "Ok"
    <3>1. IsValue(Part(t, v, 1), v.s[1]) BY <1>2, <2>4
    <3>2. Part(t, v, 1) = Unit BY <2>1, <2>5, <2>6 DEF OkNiche, ErrNiche, ZeroSized
    <3>3. Unit \in Universe
      <4>1. t.s[1] \in Universe /\ t.s[2] \in Universe BY <1>5, Kind
      <4> QED BY <2>5, <3>2, <4>1
    <3>4. ValueLayer(Unit, v.s[1]) BY <3>1, <3>2, <3>3, ValueIs
    <3>5. Unit.k = "unit" BY DEF Unit, Ty
    <3>6. v.s[1] = UnitV BY <3>3, <3>4, <3>5, ValueLayers
    <3>7. "unit" \notin Marks BY DEF Marks, Owning
    <3>8. Allocs(v.s[1]) = {} BY <3>6, <3>7, Shapes1, ScalarOwnsNothing
    <3>9. Allocs(v) = {} BY <2>4, <3>8, PayloadAllocs
    <3>10. Elided(t, v) BY <1>5, <2>6 DEF Elided
    <3> QED BY <2>2, <2>4, <2>6, <3>6, <3>9, <3>10
  <2>7. CASE v.x # IF OkNiche(t) THEN "Err" ELSE "Ok"
    <3>1. Part(t, v, 1) = Niched(t) BY <1>5, <2>1, <2>4, <2>5, <2>7 DEF Niched
    <3>2. ~Elided(t, v) BY <1>5, <2>7 DEF Elided
    <3> QED BY <1>3, <2>2, <2>4, <2>7, <3>1, <3>2
  <2> QED BY <2>6, <2>7
<1> QED BY <1>4, <1>5, NichedKnown

(* A bool is sent as 0 or 1. *)
LEMMA BoolEncoded ==
  ASSUME Setting, Bool \in Universe, NEW v, IsValue(Bool, v), NEW m, NEW p, NEW st, NEW r, r = Encode(m, Bool, v, p, st)
  PROVE  r.ok /\ r.n.x \in {"0", "1"}
<1>1. Bool.k = "bool" BY DEF Bool, Ty
<1>2. r = IF m = "checked" THEN EncodeChecked(Bool, v, p, st) ELSE EncodeUnchecked(Bool, v, p, st) BY EncodesByRule
<1>3. r = Kept(v) BY <1>1, <1>2 DEF EncodeChecked, EncodeUnchecked, Structs, DataEnums, Fieldless, BoolEncode
<1>4. ValueLayer(Bool, v) BY ValueIs
<1>5. v.x \in {"0", "1"} BY <1>1, <1>4, ValueLayers
<1> QED BY <1>3, <1>5, Answers

(* An Option<bool> is sent as 0, 1 or 2. *)
LEMMA BoolOptionEncoded ==
  ASSUME Setting, Opt(Bool) \in Universe, NEW v, IsValue(Opt(Bool), v), NEW m, NEW p, NEW st,
         NEW r, r = Encode(m, Opt(Bool), v, p, st)
  PROVE  r.n.x \in {"0", "1", "2"}
<1>1. /\ Opt(Bool).k = "opt" /\ Opt(Bool).s[1] = Bool /\ Bool \in Universe /\ Borrowing(Opt(Bool))
      /\ NicheOf(Bool) = Atom("2")
  BY BoolNiches
<1>2. Opt(Bool).k \notin Transparent BY <1>1 DEF Transparent
<1>3. Niched(Opt(Bool)) = Bool BY <1>1 DEF Niched
<1>4. \/ Allocs(v) = {} /\ \E s : r = Answer(NicheOf(Bool), {}, {}, s)
      \/ /\ DOMAIN v.s = {1} /\ Part(Opt(Bool), v, 1) = Bool
         /\ \E q, s, c : c = Encode(q, Part(Opt(Bool), v, 1), v.s[1], Append(p, 1), NoStore) /\ r = Wrapped(c, c.n, s)
  BY <1>1, <1>2, <1>3, NicheEncoding
<1>5. \A i \in DOMAIN v.s : IsValue(Part(Opt(Bool), v, i), v.s[i]) BY <1>2, ValueIs
<1>6. CASE \E s : r = Answer(NicheOf(Bool), {}, {}, s) BY <1>1, <1>6, Answers, Nodes1
<1>7. CASE /\ DOMAIN v.s = {1} /\ Part(Opt(Bool), v, 1) = Bool
           /\ \E q, s, c : c = Encode(q, Part(Opt(Bool), v, 1), v.s[1], Append(p, 1), NoStore) /\ r = Wrapped(c, c.n, s)
  <2>1. PICK q, s, c : c = Encode(q, Bool, v.s[1], Append(p, 1), NoStore) /\ r = Wrapped(c, c.n, s) BY <1>7
  <2>2. IsValue(Bool, v.s[1]) BY <1>5, <1>7
  <2>3. c.ok /\ c.n.x \in {"0", "1"} BY <1>1, <2>1, <2>2, BoolEncoded
  <2>4. r.n = c.n BY <2>1, <2>3, Answers DEF Wrapped
  <2> QED BY <2>3, <2>4
<1> QED BY <1>4, <1>6, <1>7

(* Options and results sent as their payload's carrier are sent as carriers. *)
LEMMA NicheEncodes ==
  ASSUME Setting, Distinct, NEW t \in Universe, Borrowing(t), t.k \notin Transparent,
         \A j \in DOMAIN t.s : Encodes(t.s[j])
  PROVE  Encodes(t)
<1> SUFFICES ASSUME NEW m, NEW v, NEW st, NEW p \in Seq(Nat), IsValue(t, v), Sole(v), Avoids(v, p),
                    NEW r, r = Encode(m, t, v, p, st)
             PROVE  EncodedAs(t, v, p, r)
  BY DEF Encodes
<1> DEFINE u == Niched(t)
<1>1. /\ t.k \in {"opt", "res"} /\ u \in Universe /\ HasNiche(u)
      /\ t.k = "opt" => NicheOption(t) /\ u = t.s[1]
      /\ t.k = "res" => ~HasNiche(t)
  BY NichedKnown
<1>2. \/ Allocs(v) = {} /\ \E s : r = Answer(NicheOf(u), {}, {}, s)
      \/ /\ DOMAIN v.s = {1} /\ Part(t, v, 1) = u
         /\ \E q, s, c : c = Encode(q, Part(t, v, 1), v.s[1], Append(p, 1), NoStore) /\ r = Wrapped(c, c.n, s)
  <2>1. \/ Allocs(v) = {} /\ \E s : r = Answer(NicheOf(Niched(t)), {}, {}, s)
        \/ /\ DOMAIN v.s = {1} /\ Part(t, v, 1) = Niched(t)
           /\ \E q, s, c : c = Encode(q, Part(t, v, 1), v.s[1], Append(p, 1), NoStore) /\ r = Wrapped(c, c.n, s)
    <3> HIDE DEF u
    <3> QED BY NicheEncoding, SMTT(60)
  <2> QED BY <2>1
<1>3. HasNiche(t) => t \in {Opt(Bool), Opt(Opt(Bool))} /\ \A w : IsNiche(t, w) = (w = NicheOf(t))
  BY <1>1, NicheLayers
<1>4. \A i \in DOMAIN v.s : IsValue(Part(t, v, i), v.s[i]) BY ValueIs
<1> HIDE DEF u
<1>5. CASE Allocs(v) = {} /\ \E s : r = Answer(NicheOf(u), {}, {}, s)
  <2>1. PICK s : r = Answer(NicheOf(u), {}, {}, s) BY <1>5
  <2>2. IsNiche(u, NicheOf(u)) /\ Empty(NicheOf(u)) BY <1>1, NichesKnown DEF NicheKnown
  <2>3. HasNiche(t) => ~IsNiche(t, NicheOf(u))
    <3>1. CASE t = Opt(Bool)
      <4>1. u = Bool /\ Bool \in Universe /\ NicheOf(t) = Atom("3") BY <1>1, <3>1, BoolNiches
      <4>2. NicheOf(u) = Atom("2") BY <4>1, BoolNiches
      <4>3. NicheOf(t).x = "3" /\ NicheOf(u).x = "2" BY <4>1, <4>2, Nodes1
      <4> QED BY <1>3, <4>3
    <3>2. CASE t = Opt(Opt(Bool))
      <4>1. u = Opt(Bool) /\ Opt(Bool) \in Universe /\ NicheOf(t) = Atom("4") BY <1>1, <3>2, BoolNiches
      <4>2. NicheOf(u) = Atom("3") BY <4>1, BoolNiches
      <4>3. NicheOf(t).x = "4" /\ NicheOf(u).x = "3" BY <4>1, <4>2, Nodes1
      <4> QED BY <1>3, <4>3
    <3> QED BY <1>3, <3>1, <3>2
  <2>4. Carries(t, NicheOf(u)) BY <2>2, <2>3, CarriesNiche DEF u, Empty
  <2> QED BY <1>5, <2>1, <2>2, <2>4, EmptyEncoded DEF Empty
<1>6. CASE /\ DOMAIN v.s = {1} /\ Part(t, v, 1) = u
           /\ \E q, s, c : c = Encode(q, Part(t, v, 1), v.s[1], Append(p, 1), NoStore) /\ r = Wrapped(c, c.n, s)
  <2>1. PICK q, s, c : c = Encode(q, Part(t, v, 1), v.s[1], Append(p, 1), NoStore) /\ r = Wrapped(c, c.n, s) BY <1>6
  <2>2. c.ok /\ Carries(u, c.n) /\ Moved(v, p, c) BY <1>1, <1>6, <2>1, PayloadEncoded
  <2>3. HasNiche(t) => ~IsNiche(t, c.n)
    <3>1. IsValue(u, v.s[1]) BY <1>4, <1>6
    <3>2. CASE t = Opt(Bool)
      <4>1. u = Bool /\ Bool \in Universe /\ NicheOf(t) = Atom("3") BY <1>1, <3>2, BoolNiches
      <4>2. c.n.x \in {"0", "1"} BY <1>6, <2>1, <3>1, <4>1, BoolEncoded
      <4>3. NicheOf(t).x = "3" BY <4>1, Nodes1
      <4> QED BY <1>3, <4>2, <4>3
    <3>3. CASE t = Opt(Opt(Bool))
      <4>1. u = Opt(Bool) /\ Opt(Bool) \in Universe /\ NicheOf(t) = Atom("4") BY <1>1, <3>3, BoolNiches
      <4>2. c.n.x \in {"0", "1", "2"} BY <1>6, <2>1, <3>1, <4>1, BoolOptionEncoded
      <4>3. NicheOf(t).x = "4" BY <4>1, Nodes1
      <4> QED BY <1>3, <4>2, <4>3
    <3> QED BY <1>3, <3>2, <3>3
  <2>4. Carries(t, c.n) BY <2>2, <2>3, CarriesNiche DEF u
  <2>5. r = Answer(c.n, c.new, c.old, s) BY <2>1, <2>2 DEF Wrapped
  <2>6. r.ok /\ r.n = c.n /\ r.new = c.new /\ r.old = c.old BY <2>5, Answers
  <2>7. Moved(v, p, r) BY <2>2, <2>6 DEF Moved
  <2> QED BY <2>4, <2>6, <2>7 DEF EncodedAs
<1> QED BY <1>2, <1>5, <1>6

(* A pair of components is sent as the pair of their carriers, each encoded *)
(* into its own store.                                                      *)
LEMMA PairSends ==
  ASSUME Setting, NEW t \in Universe, t.k \in {"tup", "arr", "onevariant"} \cup Structs,
         NEW m, NEW v, NEW st, NEW p, IsValue(t, v), NEW r, r = Encode(m, t, v, p, st)
  PROVE  \/ r = Kept(v) /\ Stable(t)
         \/ \E rs, s : /\ rs = EncodeKept(t, v, p, st) \/ rs = EncodeParts("unchecked", t, v, p)
                       /\ r = Answer(Compound(Nodes(rs)), News(rs), Olds(rs), s)
<1>1. r = IF m = "checked" THEN EncodeChecked(t, v, p, st) ELSE EncodeUnchecked(t, v, p, st) BY EncodesByRule
<1>2. t.k \in PairKinds /\ t.k \notin Transparent /\ DOMAIN t.s = {1, 2}
  <2>1. t.k \in PairKinds /\ t.k \notin Transparent BY DEF PairKinds, Structs, Transparent
  <2> QED BY <2>1, Kind DEF PairKinds
<1>3. CASE m = "checked"
  <2> DEFINE rs == EncodeKept(t, v, p, st)
  <2>1. CASE t.k = "arr"
    <3>1. r = EncodeArrayElements(rs) BY <1>1, <1>3, <2>1 DEF EncodeChecked, ArrayEncode, Structs, DataEnums, Fieldless
    <3> QED BY <3>1 DEF EncodeArrayElements
  <2>2. CASE t.k = "tup"
    <3>1. r = TupleEncode(rs) BY <1>1, <1>3, <2>2 DEF EncodeChecked, Structs, DataEnums, Fieldless
    <3> QED BY <3>1 DEF TupleEncode
  <2>3. CASE t.k \in {"onevariant"} \cup Structs
    <3>1. r = StructEncode(rs) BY <1>1, <1>3, <2>3 DEF EncodeChecked, OneVariantEncode, Structs, DataEnums, Fieldless
    <3> QED BY <3>1 DEF StructEncode
  <2> QED BY <2>1, <2>2, <2>3
<1>4. CASE m # "checked"
  <2> DEFINE rs == EncodeParts("unchecked", t, v, p)
  <2>1. CASE t.k = "arr"
    <3>1. r = IF Stable(t.s[1]) THEN Kept(v) ELSE EncodeUncheckedArrayElements(rs)
      BY <1>1, <1>4, <2>1 DEF EncodeUnchecked, ArrayUnchecked, Structs, DataEnums, Fieldless, Elem
    <3>2. Stable(t) = StableRule(t) /\ t.s[1] = t.s[2] BY <2>1, Kind DEF Setting, Tied
    <3>3. Stable(t.s[1]) => Stable(t) BY <1>2, <2>1, <3>2 DEF StableRule
    <3> QED BY <3>1, <3>3 DEF EncodeUncheckedArrayElements
  <2>2. CASE t.k = "tup"
    <3>1. r = TupleUnchecked(rs) BY <1>1, <1>4, <2>2 DEF EncodeUnchecked, Structs, DataEnums, Fieldless
    <3> QED BY <3>1 DEF TupleUnchecked
  <2>3. CASE t.k \in {"onevariant"} \cup Structs
    <3>1. r = StructEncodeUnchecked(rs)
      BY <1>1, <1>4, <2>3 DEF EncodeUnchecked, OneVariantEncodeUnchecked, Structs, DataEnums, Fieldless
    <3> QED BY <3>1 DEF StructEncodeUnchecked
  <2> QED BY <2>1, <2>2, <2>3
<1> QED BY <1>3, <1>4

(* Tuples, arrays and structs are encoded field by field, or given as they *)
(* are.                                                                    *)
LEMMA PairEncodes ==
  ASSUME Setting, Distinct, NEW t \in Universe, t.k \in {"tup", "arr", "onevariant"} \cup Structs,
         \A j \in DOMAIN t.s : Encodes(t.s[j])
  PROVE  Encodes(t)
<1> SUFFICES ASSUME NEW m, NEW v, NEW st, NEW p \in Seq(Nat), IsValue(t, v), Sole(v), Avoids(v, p),
                    NEW r, r = Encode(m, t, v, p, st)
             PROVE  EncodedAs(t, v, p, r)
  BY DEF Encodes
<1>1. r = IF m = "checked" THEN EncodeChecked(t, v, p, st) ELSE EncodeUnchecked(t, v, p, st) BY EncodesByRule
<1>2. t.k \in PairKinds /\ t.k \notin Transparent /\ DOMAIN t.s = {1, 2}
  <2>1. t.k \in PairKinds /\ t.k \notin Transparent BY DEF PairKinds, Structs, Transparent
  <2> QED BY <2>1, Kind DEF PairKinds
<1>3. DOMAIN v.s = {1, 2} /\ v.x \notin Marks
  <2>1. ValueLayer(t, v) BY ValueIs
  <2>2. Pair(v) BY <1>2, <2>1, ValueLayers DEF PairKinds
  <2> QED BY <2>2, Shapes1 DEF Marks, Owning
<1>4. \/ r = Kept(v) /\ Stable(t)
      \/ \E rs, s : /\ rs = EncodeKept(t, v, p, st) \/ rs = EncodeParts("unchecked", t, v, p)
                    /\ r = Answer(Compound(Nodes(rs)), News(rs), Olds(rs), s)
  BY PairSends
<1>5. CASE r = Kept(v) /\ Stable(t) BY <1>5, KeptEncoded
<1>6. ASSUME NEW rs, NEW s, rs = EncodeKept(t, v, p, st) \/ rs = EncodeParts("unchecked", t, v, p),
             r = Answer(Compound(Nodes(rs)), News(rs), Olds(rs), s)
      PROVE  EncodedAs(t, v, p, r)
  <2>1. DOMAIN rs = DOMAIN v.s BY <1>6 DEF EncodeKept, EncodeParts, Kids
  <2>2. ASSUME NEW i \in DOMAIN v.s PROVE EncodedAs(Part(t, v, i), v.s[i], Append(p, i), rs[i])
    <3>1. \/ rs[i] = Encode("checked", Part(t, v, i), v.s[i], Append(p, i), Sub(st, i))
          \/ rs[i] = Encode("unchecked", Part(t, v, i), v.s[i], Append(p, i), NoStore)
      BY <1>6 DEF EncodeKept, EncodeParts, EncodePart, Kids
    <3> QED BY <1>2, <3>1, PartEncoded
  <2>3. /\ \A i \in DOMAIN v.s : Moved(v.s[i], Append(p, i), rs[i])
        /\ \A i \in DOMAIN rs : rs[i].ok
    BY <2>1, <2>2 DEF EncodedAs
  <2>4. Carries(t.s[1], rs[1].n) /\ Carries(t.s[2], rs[2].n)
    <3>1. Part(t, v, 1) = t.s[1] /\ Part(t, v, 2) = t.s[2] BY <1>2, PartsOf
    <3> QED BY <1>3, <2>2, <3>1 DEF EncodedAs
  <2>5. Moved(v, p, r)
    <3>1. "compound" \notin Marks BY DEF Marks, Owning
    <3>2. DOMAIN v.s \subseteq Nat \ {0} BY <1>3
    <3>3. Moved(v, p, Answer(Node("compound", NoAddr, Nodes(rs)), News(rs), Olds(rs), s))
      BY <1>3, <2>1, <2>3, <3>1, <3>2, PartsMoved DEF Setting
    <3> QED BY <1>6, <3>3 DEF Compound
  <2> DEFINE w == Compound(Nodes(rs))
  <2>6. Pair(w) BY <1>3, <2>1, PairOfNodes
  <2>7. w.s[1] = rs[1].n /\ w.s[2] = rs[2].n BY <1>3, <2>1, Nodes1 DEF Nodes
  <2>8. r.n = w /\ r.ok BY <1>6, Answers
  <2> HIDE DEF w
  <2>9. Carries(t, w) BY <1>2, <2>4, <2>6, <2>7, CarriesPair
  <2> QED BY <2>5, <2>8, <2>9 DEF EncodedAs
<1> QED BY <1>4, <1>5, <1>6

(* The tag that is sent for a variant selects it. *)
LEMMA VariantSent ==
  ASSUME Setting, NEW t \in Universe, t.k \in DataEnums, NEW v, ValueLayer(t, v)
  PROVE  \E i : /\ VariantOf(t, v) = i /\ i # 0 /\ VariantIn(VariantTags(t), VariantTag(t, v)) = i
                /\ VariantTag(t, v) \notin Marks /\ v.x \notin Marks
                /\ DOMAIN v.s = IF i \in DOMAIN t.s THEN {1} ELSE {}
<1>1. PICK i \in DOMAIN Names(t) : IF i \in DOMAIN t.s THEN Around(Names(t)[i], NoAddr, v) ELSE v = Atom(Names(t)[i])
  BY ValueLayers DEF DataEnums
<1>2. v.x = Names(t)[i] /\ DOMAIN v.s = IF i \in DOMAIN t.s THEN {1} ELSE {}
  <2>1. CASE i \in DOMAIN t.s
    <3>1. Around(Names(t)[i], NoAddr, v) BY <1>1, <2>1
    <3> QED BY <2>1, <3>1, Shapes1
  <2>2. CASE i \notin DOMAIN t.s
    <3>1. v = Atom(Names(t)[i]) BY <1>1, <2>2
    <3> QED BY <2>2, <3>1, Nodes1
  <2> QED BY <2>1, <2>2
<1>3. t.k \in Tagged BY DEF Tagged
<1>4. CASE t.k = "enum"
  <2>1. i \in {1, 2, 3} /\ v.x = (IF i = 1 THEN "A" ELSE IF i = 2 THEN "B" ELSE "C") BY <1>1, <1>2, <1>4, NamesOf
  <2>2. \A x : VariantIn(VariantTags(t), x) = CASE x = "0" -> 1 [] x = "1" -> 2 [] x = "2" -> 3 [] OTHER -> 0
    BY <1>3, <1>4, TagsOf
  <2>3. VariantOf(t, v) = i BY <2>1, <2>2, VariantByName DEF VariantOf
  <2>4. VariantTag(t, v) = (IF i = 1 THEN "0" ELSE IF i = 2 THEN "1" ELSE "2")
    BY <1>4, <2>1, <2>3 DEF VariantTag, VariantTags
  <2>5. VariantIn(VariantTags(t), VariantTag(t, v)) = i BY <2>1, <2>2, <2>4
  <2>6. VariantTag(t, v) \notin Marks /\ v.x \notin Marks BY <2>1, <2>4 DEF Marks, Owning
  <2> QED BY <1>2, <2>1, <2>3, <2>5, <2>6
<1>5. CASE t.k = "cenum"
  <2>1. i \in {1, 2} /\ v.x = (IF i = 1 THEN "1" ELSE "2") BY <1>1, <1>2, <1>5, NamesOf
  <2>2. \A x : VariantIn(VariantTags(t), x) = CASE x = "1" -> 1 [] x = "2" -> 2 [] OTHER -> 0
    BY <1>3, <1>5, TagsOf
  <2>3. VariantOf(t, v) = i BY <2>1, <2>2 DEF VariantOf
  <2>4. VariantTag(t, v) = (IF i = 1 THEN "1" ELSE "2") BY <1>5, <2>1, <2>3 DEF VariantTag, VariantTags
  <2>5. VariantIn(VariantTags(t), VariantTag(t, v)) = i BY <2>1, <2>2, <2>4
  <2>6. VariantTag(t, v) \notin Marks /\ v.x \notin Marks BY <2>1, <2>4 DEF Marks, Owning
  <2> QED BY <1>2, <2>1, <2>3, <2>5, <2>6
<1> QED BY <1>4, <1>5 DEF DataEnums

(* Data enums are sent as their tag and the payload's carrier. *)
LEMMA EnumEncodes ==
  ASSUME Setting, Distinct, NEW t \in Universe, t.k \in DataEnums, \A j \in DOMAIN t.s : Encodes(t.s[j])
  PROVE  Encodes(t)
<1> SUFFICES ASSUME NEW m, NEW v, NEW st, NEW p \in Seq(Nat), IsValue(t, v), Sole(v), Avoids(v, p),
                    NEW r, r = Encode(m, t, v, p, st)
             PROVE  EncodedAs(t, v, p, r)
  BY DEF Encodes
<1>1. r = IF m = "checked" THEN EncodeChecked(t, v, p, st) ELSE EncodeUnchecked(t, v, p, st) BY EncodesByRule
<1>2. t.k \notin Transparent BY DEF Transparent, DataEnums
<1> DEFINE x == VariantTag(t, v)
<1>3. ValueLayer(t, v) BY ValueIs
<1>4. PICK i : /\ VariantOf(t, v) = i /\ i # 0 /\ VariantIn(VariantTags(t), x) = i
               /\ x \notin Marks /\ v.x \notin Marks
               /\ DOMAIN v.s = IF i \in DOMAIN t.s THEN {1} ELSE {}
  BY <1>3, VariantSent
<1>5. \E q : r = EnumEncode(t, v, EncodeParts(q, t, v, p))
  BY <1>1 DEF EncodeChecked, EncodeUnchecked, EnumEncodeUnchecked, Structs, DataEnums, Fieldless
<1>6. PICK q : r = EnumEncode(t, v, EncodeParts(q, t, v, p)) BY <1>5
<1> DEFINE rs == EncodeParts(q, t, v, p)
           w == Node(x, NoAddr, Nodes(rs))
<1>7. PICK s : r = Answer(w, News(rs), Olds(rs), s) BY <1>6 DEF EnumEncode
<1>8. DOMAIN rs = DOMAIN v.s /\ \A j \in DOMAIN v.s : rs[j] = Encode(q, Part(t, v, j), v.s[j], Append(p, j), NoStore)
  <2>1. DOMAIN rs = DOMAIN v.s BY DEF EncodeParts, Kids
  <2>2. \A j \in DOMAIN v.s : rs[j] = Encode(q, Part(t, v, j), v.s[j], Append(p, j), NoStore)
    BY DEF EncodeParts, EncodePart, Kids
  <2> QED BY <2>1, <2>2
<1> HIDE DEF rs, x
<1>9. ASSUME NEW j \in DOMAIN v.s PROVE EncodedAs(Part(t, v, j), v.s[j], Append(p, j), rs[j])
  <2>1. rs[j] = Encode(q, Part(t, v, j), v.s[j], Append(p, j), NoStore) BY <1>8
  <2> HIDE DEF w
  <2> QED BY <1>2, <2>1, PartEncoded
<1>10. /\ \A j \in DOMAIN v.s : Moved(v.s[j], Append(p, j), rs[j])
       /\ \A j \in DOMAIN rs : rs[j].ok
  BY <1>8, <1>9 DEF EncodedAs
<1>11. Moved(v, p, r)
  <2>1. DOMAIN v.s \subseteq Nat \ {0} BY <1>4
  <2>2. Moved(v, p, Answer(Node(x, NoAddr, Nodes(rs)), News(rs), Olds(rs), s))
    BY <1>4, <1>8, <1>10, <2>1, PartsMoved DEF Setting
  <2> QED BY <1>7, <2>2
<1>12. w.x = x /\ w.s = Nodes(rs) /\ DOMAIN w.s = DOMAIN v.s BY <1>8, Nodes1 DEF Nodes
<1>13. IF i \in DOMAIN t.s THEN Around(x, NoAddr, w) ELSE w = Atom(x)
  <2>1. CASE i \in DOMAIN t.s
    <3>1. DOMAIN Nodes(rs) = {1} BY <1>4, <1>12, <2>1
    <3>2. Nodes(rs) = <<Nodes(rs)[1]>>
      <4>1. Nodes(rs) = [j \in {1} |-> rs[j].n] BY <3>1 DEF Nodes
      <4> QED BY <4>1
    <3> QED BY <1>12, <2>1, <3>1, <3>2 DEF Around
  <2>2. CASE i \notin DOMAIN t.s
    <3>1. Nodes(rs) = [j \in {} |-> rs[j].n] BY <1>4, <1>8, <2>2 DEF Nodes
    <3>2. Nodes(rs) = <<>> BY <3>1
    <3> QED BY <2>2, <3>2 DEF Atom
  <2> QED BY <2>1, <2>2
<1>14. i \in DOMAIN t.s => IsCarrier(t.s[i], w.s[1])
  <2>1. SUFFICES ASSUME i \in DOMAIN t.s PROVE IsCarrier(t.s[i], w.s[1]) OBVIOUS
  <2>2. DOMAIN v.s = {1} BY <1>4, <2>1
  <2>3. Part(t, v, 1) = t.s[i] BY <1>4, <2>1, PartsOf DEF Payload
  <2>4. w.s[1] = rs[1].n BY <1>8, <1>12, <2>2 DEF Nodes
  <2> HIDE DEF w
  <2> QED BY <1>9, <2>2, <2>3, <2>4 DEF EncodedAs, Carries
<1>15. r.n = w /\ r.ok BY <1>7, Answers
<1> HIDE DEF w
<1>16. Carries(t, w) BY <1>4, <1>12, <1>13, <1>14, CarriesEnum
<1> QED BY <1>11, <1>15, <1>16 DEF EncodedAs

(* Every encoder, checked or unchecked, of every owned type, given any      *)
(* value, moves the allocations and sends a carrier of the type that is not *)
(* taken for its niche.                                                     *)
THEOREM AllEncode ==
  ASSUME Setting, Distinct
  PROVE  \A t \in Universe : Encodes(t)
<1> DEFINE G == {t \in Universe : Encodes(t)}
<1>1. ASSUME NEW t \in Universe, \A i \in DOMAIN t.s : t.s[i] \in G PROVE Encodes(t)
  <2>1. \A i \in DOMAIN t.s : Encodes(t.s[i]) BY <1>1
  <2> HIDE DEF G
  <2>2. CASE t.k \in {"int", "bool", "nz", "unit", "single", "identity"} \cup Fieldless BY <2>2, LeafEncodes
  <2>3. CASE t.k \in Transparent BY <2>1, <2>3, TransparentEncodes
  <2>4. CASE t.k = "box" BY <2>1, <2>4, BoxEncodes
  <2>5. CASE t.k \in {"slice", "vec"} BY <2>1, <2>5, BufferEncodes
  <2>6. CASE t.k \in {"opt", "copt", "res", "cres"}
    <3>1. t.k \notin Transparent BY <2>6 DEF Transparent
    <3> QED BY <2>1, <2>6, <3>1, TaggedEncodes, NicheEncodes
  <2>7. CASE t.k \in {"tup", "arr", "onevariant"} \cup Structs BY <2>1, <2>7, PairEncodes
  <2>8. CASE t.k \in DataEnums BY <2>1, <2>8, EnumEncodes
  <2> QED BY <2>2, <2>3, <2>4, <2>5, <2>6, <2>7, <2>8, Kind DEF Fieldless, Transparent, Structs, DataEnums
<1>2. \A t \in Universe : (\A i \in DOMAIN t.s : t.s[i] \in G) => t \in G BY <1>1
<1> HIDE DEF G
<1>3. Closed BY DEF Setting
<1>4. Universe \subseteq G BY <1>2, <1>3, RankInduction
<1> QED BY <1>4 DEF G

-----------------------------------------------------------------------------
(* The exchange. *)

(* The values exchanged are values of their types, each owned alone, their *)
(* allocations named after the address they were made at.                  *)
Supplied ==
  \A t \in Universe : \A p \in {CallerAt, AgainAt} :
    \A v \in Values(t, p) : IsValue(t, v) /\ Sole(v) /\ Allocs(v) \subseteq Under(p)

(* The value and the conversions that follow are at addresses apart. *)
LEMMA Addresses ==
  /\ CallerAt \in Seq(Nat) /\ AgainAt \in Seq(Nat) /\ EncAt \in Seq(Nat) /\ EncAgainAt \in Seq(Nat) /\ DecAt \in Seq(Nat)
  /\ Under(CallerAt) \cap Under(EncAt) = {} /\ Under(AgainAt) \cap Under(EncAgainAt) = {}
  /\ Under(CallerAt) \cap Under(DecAt) = {} /\ Under(AgainAt) \cap Under(DecAt) = {}
  /\ Under(EncAt) \cap Under(DecAt) = {} /\ Under(EncAgainAt) \cap Under(DecAt) = {}
<1>1. ASSUME NEW i \in Nat PROVE <<i>> \in Seq(Nat) /\ \A a \in Under(<<i>>) : a[1] = i
  <2>1. <<i>> \in Seq(Nat) /\ Len(<<i>>) = 1 /\ <<i>>[1] = i OBVIOUS
  <2>2. ASSUME NEW a \in Under(<<i>>) PROVE a[1] = i
    <3>1. \A j \in 1..1 : a[j] = <<i>>[j] BY <2>1 DEF Under
    <3> QED BY <2>1, <3>1
  <2> QED BY <2>1, <2>2
<1>2. /\ \A a \in Under(CallerAt) : a[1] = 11
      /\ \A a \in Under(AgainAt) : a[1] = 12
      /\ \A a \in Under(EncAt) : a[1] = 13
      /\ \A a \in Under(EncAgainAt) : a[1] = 14
      /\ \A a \in Under(DecAt) : a[1] = 15
  BY <1>1 DEF CallerAt, AgainAt, EncAt, EncAgainAt, DecAt
<1>3. CallerAt \in Seq(Nat) /\ AgainAt \in Seq(Nat) /\ EncAt \in Seq(Nat) /\ EncAgainAt \in Seq(Nat) /\ DecAt \in Seq(Nat)
  BY <1>1 DEF CallerAt, AgainAt, EncAt, EncAgainAt, DecAt
<1>5. Under(CallerAt) \cap Under(EncAt) = {} /\ Under(AgainAt) \cap Under(EncAgainAt) = {} BY <1>2
<1>6. Under(CallerAt) \cap Under(DecAt) = {} /\ Under(AgainAt) \cap Under(DecAt) = {} BY <1>2
<1>7. Under(EncAt) \cap Under(DecAt) = {} /\ Under(EncAgainAt) \cap Under(DecAt) = {} BY <1>2
<1> QED BY <1>3, <1>5, <1>6, <1>7

(* A caller sends a carrier of the type, which owns what the value owned. *)
LEMMA SendsCarrier ==
  ASSUME Setting, Distinct, Supplied, NEW t \in Universe, NEW m, NEW st,
         NEW at, NEW to, (at = CallerAt /\ to = EncAt) \/ (at = AgainAt /\ to = EncAgainAt),
         NEW v, IsValue(t, v), Sole(v), Allocs(v) \subseteq Under(at),
         NEW r, r = Encode(m, t, v, to, st)
  PROVE  /\ r.ok /\ Sent(t, r.n)
         /\ Allocs(r.n) = (Allocs(v) \cup r.new) \ r.old /\ r.old \subseteq Allocs(v) \cup r.new
<1>1. to \in Seq(Nat) /\ Under(at) \cap Under(to) = {} BY Addresses
<1>2. Avoids(v, to) BY <1>1 DEF Avoids
<1>3. EncodedAs(t, v, to, r) BY <1>1, <1>2, AllEncode DEF Encodes
<1>4. Moved(v, to, r) /\ r.ok /\ Carries(t, r.n) BY <1>3 DEF EncodedAs
<1>5. /\ Allocs(r.n) = (Allocs(v) \cup r.new) \ r.old /\ Sole(r.n) /\ r.new \subseteq Under(to)
      /\ r.old \subseteq Allocs(v) \cup r.new
  BY <1>4 DEF Moved
<1>6. Under(at) \cap Under(DecAt) = {} /\ Under(to) \cap Under(DecAt) = {} BY Addresses
<1>7. Avoids(r.n, DecAt) BY <1>5, <1>6 DEF Avoids
<1> QED BY <1>4, <1>5, <1>7 DEF Sent, Carries

(* Where the exchange is. *)
Progress ==
  /\ ty \in Types /\ mode \in {"checked", "unchecked"}
  /\ phase \in {"start", "sent", "held", "refused", "edited", "returned", "done"}
  /\ foreign \in {"none", "caller", "callee"}

(* What the sides hold where they are: a value at first, then a carrier that *)
(* owns what the value did, then what decoding it answered.                  *)
Carried ==
  /\ phase = "start" => IsValue(ty, val) /\ Sole(val) /\ Allocs(val) \subseteq Under(CallerAt)
  /\ phase = "sent" => Sent(ty, wire)
  /\ phase = "sent" /\ foreign = "none" =>
       /\ IsValue(ty, val)
       /\ Allocs(wire) = (Allocs(val) \cup enc.new) \ enc.old
       /\ enc.old \subseteq Allocs(val) \cup enc.new
  /\ phase \in {"held", "refused"} => DecodedAs(ty, wire, DecAt, dec) /\ (phase = "held" <=> dec.ok)

(* The inductive invariant of the exchange. *)
IInv == Progress /\ (ty \in Universe => Carried)

(* It holds when the exchange starts ... *)
LEMMA ExchangeInit ==
  ASSUME Supplied PROVE Init => IInv
<1> SUFFICES ASSUME Init PROVE IInv OBVIOUS
<1>1. Progress BY DEF Init, Progress
<1>2. ty \in Universe => IsValue(ty, val) /\ Sole(val) /\ Allocs(val) \subseteq Under(CallerAt)
  BY DEF Init, Supplied
<1>3. phase = "start" BY DEF Init
<1> QED BY <1>1, <1>2, <1>3 DEF IInv, Carried

(* ... and every step keeps it: the encodings, a second encoding into the *)
(* same store, a foreign caller, and the decoding.                        *)
LEMMA ExchangeStep ==
  ASSUME Setting, Distinct, Supplied PROVE IInv /\ [Next]_vars => IInv'
<1> SUFFICES ASSUME IInv, [Next]_vars PROVE IInv' OBVIOUS
<1> USE DEF IInv
<1>1. CASE EncodeValue
  <2>1. Progress' BY <1>1 DEF EncodeValue, Progress
  <2>2. ASSUME ty \in Universe PROVE Carried'
    <3>1. IsValue(ty, val) /\ Sole(val) /\ Allocs(val) \subseteq Under(CallerAt) BY <1>1, <2>2 DEF EncodeValue, Carried
    <3>2. enc' = Encode(mode, ty, val, EncAt, NoStore) /\ wire' = enc'.n /\ phase' = "sent" /\ ty' = ty /\ val' = val
      BY <1>1 DEF EncodeValue
    <3>3. /\ Sent(ty, enc'.n) /\ Allocs(enc'.n) = (Allocs(val) \cup enc'.new) \ enc'.old
          /\ enc'.old \subseteq Allocs(val) \cup enc'.new
      BY <2>2, <3>1, <3>2, SendsCarrier
    <3>4. Sent(ty', wire') BY <3>2, <3>3
    <3> QED BY <3>1, <3>2, <3>3, <3>4 DEF Carried
  <2> QED BY <1>1, <2>1, <2>2 DEF EncodeValue
<1>2. CASE EncodeAgain
  <2>1. Progress' BY <1>2 DEF EncodeAgain, Progress
  <2>2. ASSUME ty \in Universe PROVE Carried'
    <3>1. IsValue(ty, val') /\ Sole(val') /\ Allocs(val') \subseteq Under(AgainAt) BY <1>2, <2>2 DEF EncodeAgain, Supplied
    <3>2. /\ enc' = Encode(mode, ty, val', EncAgainAt, enc.st) /\ wire' = enc'.n /\ phase' = "sent" /\ ty' = ty
      BY <1>2 DEF EncodeAgain
    <3>3. /\ Sent(ty, enc'.n) /\ Allocs(enc'.n) = (Allocs(val') \cup enc'.new) \ enc'.old
          /\ enc'.old \subseteq Allocs(val') \cup enc'.new
      BY <2>2, <3>1, <3>2, SendsCarrier
    <3>4. Sent(ty', wire') BY <3>2, <3>3
    <3> QED BY <3>1, <3>2, <3>3, <3>4 DEF Carried
  <2> QED BY <1>2, <2>1, <2>2 DEF EncodeAgain
<1>3. CASE ForeignCall
  <2>1. Progress' BY <1>3 DEF ForeignCall, Progress
  <2>2. Sent(ty', wire') /\ phase' = "sent" /\ foreign' = "caller" /\ ty' = ty BY <1>3 DEF ForeignCall
  <2> QED BY <2>1, <2>2 DEF Carried
<1>4. CASE Receive
  <2>1. /\ dec' = Decode(ty, wire, DecAt, DefaultDecodeStore(ty)) /\ phase' = (IF dec'.ok THEN "held" ELSE "refused")
        /\ ty' = ty /\ wire' = wire /\ mode' = mode /\ foreign' = foreign /\ phase = "sent"
    BY <1>4 DEF Receive
  <2>2. Progress' BY <2>1 DEF Progress
  <2>3. ASSUME ty \in Universe PROVE Carried'
    <3>1. IsCarrier(ty, wire) /\ Sole(wire) /\ Avoids(wire, DecAt) BY <2>1, <2>3 DEF Carried, Sent
    <3>2. DecAt \in Seq(Nat) BY Addresses
    <3>3. DecodedAs(ty, wire, DecAt, dec') BY <2>1, <2>3, <3>1, <3>2, AllDecode DEF Decodes
    <3>4. DecodedAs(ty', wire', DecAt, dec') BY <2>1, <3>3
    <3> QED BY <2>1, <3>4 DEF Carried
  <2> QED BY <2>1, <2>2, <2>3
<1>5. CASE ForeignEdit \/ Edit \/ SyncCallee \/ SyncCaller
  <2>1. phase' \in {"returned", "edited", "done"} /\ ty' = ty /\ mode' = mode /\ foreign' \in {foreign, "callee"}
    BY <1>5 DEF ForeignEdit, Edit, SyncCallee, SyncCaller
  <2> QED BY <2>1 DEF Progress, Carried
<1>6. CASE UNCHANGED vars BY <1>6 DEF vars, Progress, Carried, Sent, DecodedAs, Moved, Avoids
<1> QED BY <1>1, <1>2, <1>3, <1>4, <1>5, <1>6 DEF Next

(* It is an invariant of the exchange. *)
THEOREM ExchangeInvariant ==
  ASSUME Setting, Distinct, Supplied PROVE Spec => []IInv
<1>1. Init => IInv BY ExchangeInit
<1>2. IInv /\ [Next]_vars => IInv' BY ExchangeStep
<1> QED BY <1>1, <1>2, PTL DEF Spec

(* Whatever owned type is exchanged, the caller holds a value of it until it *)
(* is sent, and what is sent is a carrier of the type.                       *)
THEOREM ExchangeTypeCorrect ==
  ASSUME Setting, Distinct, Supplied PROVE Spec => [](ty \in Universe => TypeOK)
<1>1. IInv => (ty \in Universe => TypeOK) BY DEF IInv, Progress, Carried, TypeOK
<1> QED BY <1>1, ExchangeInvariant, PTL

(* Whatever a foreign caller sends, of whatever owned type, what the decoder *)
(* accepts is a value of the type.                                           *)
THEOREM AcceptsOnlyValues ==
  ASSUME Setting, Distinct, Supplied PROVE Spec => [](ty \in Universe => OnlyValues)
<1>1. IInv => (ty \in Universe => OnlyValues) BY DEF IInv, Carried, DecodedAs, Moved, OnlyValues
<1> QED BY <1>1, ExchangeInvariant, PTL

(* No encoder and no decoder of an owned type loses an allocation, frees one *)
(* twice or answers one twice, whether the caller is foreign or not.         *)
THEOREM OwnershipKept ==
  ASSUME Setting, Distinct, Supplied, NoManual PROVE Spec => [](ty \in Universe => Ownership)
<1>1. IInv => (ty \in Universe => Ownership)
  <2> SUFFICES ASSUME IInv, ty \in Universe PROVE Ownership OBVIOUS
  <2>1. ASSUME NEW v, IsValue(ty, v) PROVE OwnedBy(ty, v) = Allocs(v) BY <2>1, Owns DEF OwnedIn
  <2>2. Carried BY DEF IInv
  <2>3. phase = "sent" /\ foreign = "none" =>
          /\ Allocs(wire) = (OwnedBy(ty, val) \cup enc.new) \ enc.old
          /\ enc.old \subseteq OwnedBy(ty, val) \cup enc.new
    BY <2>1, <2>2 DEF Carried
  <2>4. phase = "held" =>
          /\ OwnedBy(ty, dec.n) = (Allocs(wire) \cup dec.new) \ dec.old
          /\ dec.old \subseteq Allocs(wire) \cup dec.new
    <3>1. SUFFICES ASSUME phase = "held"
                   PROVE  /\ OwnedBy(ty, dec.n) = (Allocs(wire) \cup dec.new) \ dec.old
                          /\ dec.old \subseteq Allocs(wire) \cup dec.new
      OBVIOUS
    <3>2. DecodedAs(ty, wire, DecAt, dec) /\ dec.ok BY <2>2, <3>1 DEF Carried
    <3>3. IsValue(ty, dec.n) /\ Moved(wire, DecAt, dec) BY <3>2 DEF DecodedAs
    <3> QED BY <2>1, <3>2, <3>3 DEF Moved
  <2> QED BY <2>3, <2>4 DEF Ownership
<1> QED BY <1>1, ExchangeInvariant, PTL

-----------------------------------------------------------------------------
(* Values and carriers read without their addresses. *)

(* Strip is what its rule says, of every node. *)
Stripping == \A n : Strip(n) = StripRule(n)

(* Nodes of one mark with components alike are alike. *)
LEMMA Alike ==
  ASSUME Stripping, NEW a, NEW b, a.x = b.x, DOMAIN a.s = DOMAIN b.s,
         \A i \in DOMAIN a.s : Strip(a.s[i]) = Strip(b.s[i])
  PROVE  Strip(a) = Strip(b)
<1>1. [i \in DOMAIN a.s |-> Strip(a.s[i])] = [i \in DOMAIN b.s |-> Strip(b.s[i])] OBVIOUS
<1> QED BY <1>1 DEF Stripping, StripRule, Kids

(* Alike nodes have one mark, one shape, and components alike. *)
LEMMA AlikeParts ==
  ASSUME Stripping, NEW a, NEW b, Strip(a) = Strip(b)
  PROVE  a.x = b.x /\ DOMAIN a.s = DOMAIN b.s /\ \A i \in DOMAIN a.s : Strip(a.s[i]) = Strip(b.s[i])
<1> DEFINE f(n) == [i \in DOMAIN n.s |-> Strip(n.s[i])]
<1>1. Strip(a) = [x |-> a.x, s |-> f(a)] /\ Strip(b) = [x |-> b.x, s |-> f(b)]
  BY DEF Stripping, StripRule, Kids
<1>2. \A n : DOMAIN f(n) = DOMAIN n.s /\ \A i \in DOMAIN n.s : f(n)[i] = Strip(n.s[i]) OBVIOUS
<1> HIDE DEF f
<1>3. \A n, x, s : n = [x |-> x, s |-> s] => n.x = x /\ n.s = s OBVIOUS
<1>5. Strip(a).x = a.x /\ Strip(a).s = f(a) BY <1>1, <1>3
<1>6. Strip(b).x = b.x /\ Strip(b).s = f(b) BY <1>1, <1>3
<1>4. a.x = b.x /\ f(a) = f(b) BY <1>5, <1>6
<1> QED BY <1>2, <1>4

(* A node built from components alike is alike, whatever its address. *)
LEMMA AlikeNode ==
  ASSUME Stripping, NEW a, NEW x, NEW addr, NEW s, a.x = x, DOMAIN a.s = DOMAIN s,
         \A i \in DOMAIN s : Strip(a.s[i]) = Strip(s[i])
  PROVE  Strip(Node(x, addr, s)) = Strip(a)
<1> DEFINE b == Node(x, addr, s)
<1>1. b.x = x /\ b.s = s BY Nodes1
<1> HIDE DEF b
<1>2. Strip(b) = Strip(a) BY <1>1, Alike
<1> QED BY <1>2 DEF b

(* The case of one component. *)
LEMMA AlikeAround ==
  ASSUME Stripping, NEW a, NEW x, NEW addr, NEW n, a.x = x, DOMAIN a.s = {1}, Strip(a.s[1]) = Strip(n)
  PROVE  Strip(Node(x, addr, <<n>>)) = Strip(a)
<1> DEFINE s == <<n>>
<1>1. DOMAIN s = {1} /\ s[1] = n OBVIOUS
<1> HIDE DEF s
<1>2. Strip(Node(x, addr, s)) = Strip(a) BY <1>1, AlikeNode
<1> QED BY <1>2 DEF s

(* The case of the components conversions answered. *)
LEMMA AlikeNodes ==
  ASSUME Stripping, NEW a, NEW x, NEW addr, NEW rs, a.x = x, DOMAIN a.s = DOMAIN rs,
         \A i \in DOMAIN rs : Strip(a.s[i]) = Strip(rs[i].n)
  PROVE  Strip(Node(x, addr, Nodes(rs))) = Strip(a)
<1> DEFINE s == Nodes(rs)
<1>1. DOMAIN s = DOMAIN rs /\ \A i \in DOMAIN rs : s[i] = rs[i].n BY DEF Nodes
<1> HIDE DEF s
<1>2. Strip(Node(x, addr, s)) = Strip(a) BY <1>1, AlikeNode
<1> QED BY <1>2 DEF s

(* A robust type has no niche, and its validator accepts every carrier. *)
RobustAccepts(t) == Robust(t) => ~HasNiche(t) /\ \A w : IsCarrier(t, w) => IsValid(t, w)

(* The carriers of the kinds with two components. *)
LEMMA PairCarrier ==
  ASSUME Setting, NEW t \in Universe, t.k \in PairKinds, NEW w, IsCarrier(t, w)
  PROVE  /\ Pair(w) /\ DOMAIN w.s = {1, 2} /\ w.x = "compound" /\ DOMAIN t.s = {1, 2}
         /\ \A i \in {1, 2} : t.s[i] \in Universe /\ Part(t, w, i) = t.s[i] /\ IsCarrier(t.s[i], w.s[i])
<1>1. CarrierLayer(t, w) /\ (~Borrowing(t) /\ Readable(t, w) => \A i \in DOMAIN w.s : IsCarrier(Part(t, w, i), w.s[i]))
  BY CarrierIs
<1>2. Pair(w) BY <1>1, CarrierLayers DEF PairKinds
<1>3. DOMAIN w.s = {1, 2} /\ w.x = "compound" BY <1>2, Shapes1
<1>4. ~Borrowing(t) /\ Readable(t, w) BY DEF PairKinds, Borrowing, Transparent, Readable, DataEnums
<1>5. DOMAIN t.s = {1, 2} BY Kind DEF PairKinds
<1>6. \A i \in {1, 2} : t.s[i] \in Universe BY <1>5, Kind
<1>7. \A i \in {1, 2} : Part(t, w, i) = t.s[i] BY PartsOf
<1> QED BY <1>1, <1>2, <1>3, <1>4, <1>5, <1>6, <1>7

(* The carriers of a transparent type are its field's. *)
LEMMA TransparentCarrier ==
  ASSUME Setting, NEW t \in Universe, t.k \in Transparent, NEW w, IsCarrier(t, w)
  PROVE  DOMAIN t.s = {1} /\ t.s[1] \in Universe /\ IsCarrier(t.s[1], w)
<1>1. CarrierLayer(t, w) BY CarrierIs
<1> QED BY <1>1, Kind, CarrierLayers DEF Transparent, Elem

(* Every type that declares itself robust is: all its bit patterns are *)
(* values.                                                             *)
LEMMA RobustAccept ==
  ASSUME Setting
  PROVE  \A t \in Universe : RobustAccepts(t)
<1> DEFINE G == {t \in Universe : RobustAccepts(t)}
<1>1. ASSUME NEW t \in Universe, \A i \in DOMAIN t.s : t.s[i] \in G PROVE t \in G
  <2> SUFFICES ASSUME Robust(t) PROVE ~HasNiche(t) /\ \A w : IsCarrier(t, w) => IsValid(t, w)
    BY DEF RobustAccepts
  <2>1. RobustRule(t) /\ HasNiche(t) = HasNicheRule(t) /\ \A w : IsCarrier(t, w) => IsValid(t, w) = IsValidRule(t, w)
    BY DEF Setting, Tied
  <2>2. CASE t.k \in {"int", "unit"}
    <3>1. ~HasNiche(t) BY <2>1, <2>2 DEF HasNicheRule, Pointers
    <3>2. \A w : IsCarrier(t, w) => IsValid(t, w)
      BY <2>1, <2>2 DEF IsValidRule, IntIsValid, Records, Structs, DataEnums, Fieldless
    <3> QED BY <3>1, <3>2
  <2>3. CASE t.k \in {"arr", "md", "cell", "newtype", "cstruct", "identity"}
    <3>1. \A i \in DOMAIN t.s : Robust(t.s[i]) BY <2>1, <2>3 DEF RobustRule
    <3>2. \A i \in DOMAIN t.s : RobustAccepts(t.s[i]) BY <1>1
    <3>3. \A i \in DOMAIN t.s : ~HasNiche(t.s[i]) /\ \A w : IsCarrier(t.s[i], w) => IsValid(t.s[i], w)
      BY <3>1, <3>2 DEF RobustAccepts
    <3>4. 1 \in DOMAIN t.s /\ (t.k = "cstruct" => 2 \in DOMAIN t.s) BY <2>3, Kind
    <3>5. ~HasNiche(t) BY <2>1, <2>3, <3>3, <3>4 DEF HasNicheRule, Pointers, Elem
    <3>6. ASSUME NEW w, IsCarrier(t, w) PROVE IsValid(t, w)
      <4>1. IsValid(t, w) = IsValidRule(t, w) BY <2>1, <3>6
      <4>2. CASE t.k \in {"arr", "cstruct"}
        <5>1. \A i \in DOMAIN w.s : IsValid(t.s[i], w.s[i]) BY <3>3, <3>6, <4>2, PairCarrier DEF PairKinds
        <5>2. Satisfies(t, w) BY <4>2 DEF Satisfies
        <5> QED BY <4>1, <4>2, <5>1, <5>2 DEF IsValidRule, ArrayIsValid, StructIsValid, Records, Structs, DataEnums, Fieldless
      <4>3. CASE t.k = "identity"
        BY <4>1, <4>3 DEF IsValidRule, IdentityIsValid, Records, Structs, DataEnums, Fieldless
      <4>4. CASE t.k \in {"md", "cell", "newtype"}
        <5>1. IsValid(t.s[1], w) BY <3>3, <3>4, <3>6, <4>4, TransparentCarrier DEF Transparent
        <5> QED BY <4>1, <4>4, <5>1 DEF IsValidRule, ManualIsValid, CellIsValid, NewtypeIsValid, Elem, Records, Structs, DataEnums, Fieldless
      <4> QED BY <2>3, <4>2, <4>3, <4>4
    <3> QED BY <3>5, <3>6
  <2> QED BY <2>1, <2>2, <2>3 DEF RobustRule
<1> HIDE DEF G
<1>2. Universe \subseteq G BY <1>1, RankInduction DEF Setting
<1> QED BY <1>2 DEF G

-----------------------------------------------------------------------------
(* A decoder of a Stable type agrees with its validator. *)

(* The answer `r` to the carrier `w` of a Stable type: accepted exactly when *)
(* valid, and then kept as it is.                                            *)
Faithful(t, w, r) == (r.ok <=> IsValid(t, w)) /\ (r.ok => Strip(r.n) = Strip(w))

(* The decoder of a Stable type agrees with its validator. *)
Judges(t) ==
  Stable(t) /\ ~Declares(t) =>
    \A w, p, st, r : IsCarrier(t, w) /\ r = Decode(t, w, p, st) => Faithful(t, w, r)

(* A decoder that keeps what is valid and refuses the rest agrees with the *)
(* validator.                                                              *)
LEMMA KeptFaithful ==
  ASSUME NEW t, NEW w, NEW r, (r = Kept(w) /\ IsValid(t, w)) \/ (r = Refused({}, {}) /\ ~IsValid(t, w))
  PROVE  Faithful(t, w, r)
  BY Answers DEF Faithful

(* Which kinds are never Stable, and that the parameters of a Stable type *)
(* are Stable.                                                            *)
LEMMA StableParts ==
  ASSUME Setting, NEW t \in Universe, Stable(t)
  PROVE  /\ t.k \notin {"slice", "opt", "res", "tup", "struct", "vstruct", "onevariant", "enum", "inferred", "single"}
         /\ t.k \notin {"int", "bool", "nz", "unit", "tags", "exhaustive"} => \A i \in DOMAIN t.s : Stable(t.s[i])
  BY DEF Setting, Tied, StableRule

(* The types without a component. *)
LEMMA JudgesScalar ==
  ASSUME Setting, NEW t \in Universe, t.k \in {"int", "bool", "nz", "unit", "identity", "tags", "exhaustive"}
  PROVE  Judges(t)
<1> SUFFICES ASSUME Stable(t), NEW w, NEW p, NEW st, IsCarrier(t, w), NEW r, r = Decode(t, w, p, st)
             PROVE  Faithful(t, w, r)
  BY DEF Judges
<1>1. r = DecodeRule(t, w, p, st) BY DecodesByRule
<1>2. IsValid(t, w) = IsValidRule(t, w) BY DEF Setting, Tied
<1>3. CASE t.k \in {"int", "unit", "identity"}
  <2>1. r = Kept(w)
    BY <1>1, <1>3 DEF DecodeRule, IntDecode, UnitDecode, IdentityDecode, Structs, DataEnums, Fieldless
  <2>2. IsValid(t, w)
    BY <1>2, <1>3 DEF IsValidRule, IntIsValid, IdentityIsValid, Records, Structs, DataEnums, Fieldless
  <2> QED BY <2>1, <2>2, KeptFaithful
<1>4. CASE t.k = "bool"
  <2>1. r = BoolDecode(w) BY <1>1, <1>4 DEF DecodeRule, Structs, DataEnums, Fieldless
  <2>2. IsValid(t, w) = (w.x \in {"0", "1"})
    BY <1>2, <1>4 DEF IsValidRule, BoolIsValid, Records, Structs, DataEnums, Fieldless
  <2> QED BY <2>1, <2>2, KeptFaithful DEF BoolDecode
<1>5. CASE t.k = "nz"
  <2>1. r = NonZeroDecode(w) BY <1>1, <1>5 DEF DecodeRule, Structs, DataEnums, Fieldless
  <2>2. IsValid(t, w) = (w.x # "0")
    BY <1>2, <1>5 DEF IsValidRule, NonZeroIsValid, Records, Structs, DataEnums, Fieldless
  <2> QED BY <2>1, <2>2, KeptFaithful DEF NonZeroDecode
<1>6. CASE t.k \in {"tags", "exhaustive"}
  <2>1. r = FieldlessDecode(t, w) BY <1>1, <1>6 DEF DecodeRule, Structs, DataEnums, Fieldless
  <2>2. IsValid(t, w) = KnownTag(t, w)
    BY <1>2, <1>6 DEF IsValidRule, TagsIsValid, KnownTag, Records, Structs, DataEnums, Fieldless
  <2>3. Selected(t, w) = w.x BY DEF Selected
  <2>4. CarrierLayer(t, w) BY CarrierIs
  <2>5. Scalar(w) BY <1>6, <2>4, CarrierLayers
  <2>6. w = Atom(w.x) BY <2>5, Shapes1
  <2> QED BY <2>1, <2>2, <2>3, <2>6, KeptFaithful DEF FieldlessDecode
<1> QED BY <1>3, <1>4, <1>5, <1>6

(* The types that convert as their field does; a cell of robust content is *)
(* never looked at.                                                        *)
LEMMA JudgesTransparent ==
  ASSUME Setting, Distinct, NEW t \in Universe, t.k \in Transparent, \A i \in DOMAIN t.s : Judges(t.s[i])
  PROVE  Judges(t)
<1> SUFFICES ASSUME Stable(t), ~Declares(t), NEW w, NEW p, NEW st, IsCarrier(t, w), NEW r, r = Decode(t, w, p, st)
             PROVE  Faithful(t, w, r)
  BY DEF Judges
<1> DEFINE q == Decode(t.s[1], w, p, st)
<1>1. r = DecodeRule(t, w, p, st) BY DecodesByRule
<1>2. IsValid(t, w) = IsValidRule(t, w) /\ Robust(t) = RobustRule(t) BY DEF Setting, Tied
<1>3. DOMAIN t.s = {1} /\ t.s[1] \in Universe /\ IsCarrier(t.s[1], w) BY TransparentCarrier
<1>4. Stable(t.s[1]) /\ ~Declares(t.s[1])
  BY <1>3, StableParts, DeclaresNot DEF Transparent
<1>5. Faithful(t.s[1], w, q) BY <1>3, <1>4 DEF Judges
<1>6. Robust(t) <=> Robust(t.s[1]) BY <1>2, <1>3 DEF RobustRule, Transparent
<1>7. IsValid(t, w) <=> IsValid(t.s[1], w) \/ (t.k = "cell" /\ Robust(t.s[1]))
  BY <1>2, <1>6 DEF IsValidRule, ManualIsValid, CellIsValid, NewtypeIsValid, Elem, Transparent, Records, Structs, DataEnums, Fieldless
<1>8. Robust(t.s[1]) => IsValid(t.s[1], w) BY <1>3, RobustAccept DEF RobustAccepts
<1>9. CASE t.k = "cell" /\ Robust(t.s[1])
  <2>1. r = Kept(w)
    BY <1>1, <1>9 DEF DecodeRule, Structs, DataEnums, Fieldless, CellDecode, Elem
  <2> QED BY <1>7, <1>9, <2>1, KeptFaithful
<1>10. CASE ~(t.k = "cell" /\ Robust(t.s[1]))
  <2>1. r = q
    BY <1>1, <1>10 DEF DecodeRule, Structs, DataEnums, Fieldless, Transparent, ManualDecode, NewtypeDecode,
                       CellDecode, UnsafeCellDecode, Elem
  <2> HIDE DEF q
  <2> QED BY <1>5, <1>7, <1>10, <2>1 DEF Faithful
<1> QED BY <1>9, <1>10

(* Boxes and vectors are validated as a whole. *)
LEMMA JudgesPointer ==
  ASSUME Setting, NEW t \in Universe, t.k \in {"box", "vec"}, Stable(t),
         NEW w, NEW p, NEW st, IsCarrier(t, w), NEW r, r = Decode(t, w, p, st)
  PROVE  Faithful(t, w, r)
<1>1. r = DecodeRule(t, w, p, st) BY DecodesByRule
<1>2. Stable(t.s[1]) BY Kind, StableParts
<1>3. CASE t.k = "box"
  <2>1. r = BoxStableDecode(t, w) BY <1>1, <1>2, <1>3 DEF DecodeRule, Structs, DataEnums, Fieldless, Elem
  <2> QED BY <2>1, KeptFaithful DEF BoxStableDecode
<1>4. CASE t.k = "vec"
  <2>1. r = VecStableDecode(t, w)
    BY <1>1, <1>2, <1>4 DEF DecodeRule, StdVecDecode, Structs, DataEnums, Fieldless, Elem
  <2> QED BY <2>1, Answers DEF VecStableDecode, Faithful
<1> QED BY <1>3, <1>4

(* The components of a carrier of a Stable type. *)
LEMMA JudgesPart ==
  ASSUME Setting, Distinct, NEW t \in Universe, \A j \in DOMAIN t.s : Judges(t.s[j]), Stable(t), ~Declares(t),
         t.k \notin {"int", "bool", "nz", "unit", "tags", "exhaustive"},
         NEW w, IsCarrier(t, w), ~Borrowing(t), Readable(t, w), NEW i \in DOMAIN w.s, NEW p, NEW st,
         NEW r, r = Decode(Part(t, w, i), w.s[i], p, st)
  PROVE  Faithful(Part(t, w, i), w.s[i], r)
<1>1. PICK j \in DOMAIN t.s : Part(t, w, i) = t.s[j] /\ t.s[j] \in Universe BY Parts
<1>2. IsCarrier(Part(t, w, i), w.s[i]) BY CarrierIs
<1>3. Stable(t.s[j]) /\ ~Declares(t.s[j]) BY StableParts, DeclaresNot
<1> QED BY <1>1, <1>2, <1>3 DEF Judges

(* co3's own Option, Result and C enums: the tag, then the payload. *)
LEMMA JudgesTagged ==
  ASSUME Setting, Distinct, NEW t \in Universe, t.k \in {"copt", "cres", "cenum"}, \A i \in DOMAIN t.s : Judges(t.s[i])
  PROVE  Stripping => Judges(t)
<1> SUFFICES ASSUME Stripping, Stable(t), ~Declares(t), NEW w, NEW p, NEW st, IsCarrier(t, w),
                    NEW r, r = Decode(t, w, p, st)
             PROVE  Faithful(t, w, r)
  BY DEF Judges
<1> DEFINE q == DecodePart(t, w, p, 1)
           u == Part(t, w, 1)
<1>1. r = DecodeRule(t, w, p, st) BY DecodesByRule
<1>2. IsValid(t, w) = IsValidRule(t, w) BY DEF Setting, Tied
<1>3. CarrierLayer(t, w) /\ ~Borrowing(t) BY CarrierIs DEF Borrowing, Transparent
<1>4. ASSUME Readable(t, w), DOMAIN w.s = {1} PROVE Faithful(u, w.s[1], q)
  BY <1>3, <1>4, JudgesPart DEF DecodePart
<1>5. ASSUME q.ok, DOMAIN w.s = {1}, Faithful(u, w.s[1], q), NEW x, x = w.x
      PROVE  Strip(Node(x, NoAddr, <<q.n>>)) = Strip(w)
  BY <1>5, AlikeAround DEF Faithful
<1> HIDE DEF q, u
<1>6. CASE t.k = "copt"
  <2>1. r = COptionDecode(w, q) BY <1>1, <1>6 DEF DecodeRule, Structs, DataEnums, Fieldless, q
  <2>2. IsValid(t, w) = (w.x = "0" \/ (w.x = "1" /\ IsValid(t.s[1], w.s[1])))
    BY <1>2, <1>6 DEF IsValidRule, OptionIsValid, Elem, Records, Structs, DataEnums, Fieldless
  <2>3. CASE w.x # "1"
    <3>1. r = IF w.x = "0" THEN Kept(w) ELSE Refused({}, {}) BY <2>1, <2>3 DEF COptionDecode
    <3> QED BY <2>2, <2>3, <3>1, KeptFaithful
  <2>4. CASE w.x = "1"
    <3>1. r = Wrapped(q, Node("1", NoAddr, <<q.n>>), Within("opt", <<q.st>>)) BY <2>1, <2>4 DEF COptionDecode
    <3>2. (Scalar(w) /\ w.x # "1") \/ Around("1", NoAddr, w) BY <1>3, <1>6, CarrierLayers
    <3>3. DOMAIN w.s = {1} BY <2>4, <3>2, Shapes1
    <3>4. Readable(t, w) BY <1>6 DEF Readable, DataEnums
    <3>5. Faithful(t.s[1], w.s[1], q) BY <1>4, <1>6, <3>3, <3>4, PartsOf DEF u
    <3>6. q.ok => Strip(Node("1", NoAddr, <<q.n>>)) = Strip(w) BY <1>4, <1>5, <2>4, <3>3, <3>4
    <3>7. IsValid(t, w) <=> IsValid(t.s[1], w.s[1]) BY <2>2, <2>4
    <3> QED BY <3>1, <3>5, <3>6, <3>7, Answers DEF Wrapped, Faithful
  <2> QED BY <2>3, <2>4
<1>7. CASE t.k = "cres"
  <2>1. r = CResultDecode(w, q) BY <1>1, <1>7 DEF DecodeRule, Structs, DataEnums, Fieldless, q
  <2>2. IsValid(t, w) = ((w.x = "0" /\ IsValid(t.s[1], w.s[1])) \/ (w.x = "1" /\ IsValid(t.s[2], w.s[1])))
    BY <1>2, <1>7 DEF IsValidRule, ResultIsValid, Elem, Records, Structs, DataEnums, Fieldless
  <2>3. CASE w.x \notin {"0", "1"}
    <3>1. r = Refused({}, {}) BY <2>1, <2>3 DEF CResultDecode
    <3> QED BY <2>2, <2>3, <3>1, KeptFaithful
  <2>4. CASE w.x \in {"0", "1"}
    <3>1. r = Wrapped(q, Node(w.x, NoAddr, <<q.n>>), Within("opt", <<q.st>>)) BY <2>1, <2>4 DEF CResultDecode
    <3>2. TagAndPayload({"0", "1"}, w) BY <1>3, <1>7, CarrierLayers
    <3>3. DOMAIN w.s = {1} BY <2>4, <3>2, TaggedShape
    <3>4. Readable(t, w) BY <1>7, <2>4 DEF Readable, DataEnums
    <3>5. Faithful(u, w.s[1], q) BY <1>4, <3>3, <3>4
    <3>6. u = IF w.x \in {"Err", "1"} THEN t.s[2] ELSE t.s[1] BY <1>7, PartsOf DEF u
    <3>7. IsValid(t, w) <=> IsValid(u, w.s[1]) BY <2>2, <2>4, <3>6
    <3>8. q.ok => Strip(Node(w.x, NoAddr, <<q.n>>)) = Strip(w) BY <1>5, <3>3, <3>5
    <3> QED BY <3>1, <3>5, <3>7, <3>8, Answers DEF Wrapped, Faithful
  <2> QED BY <2>3, <2>4
<1>8. CASE t.k = "cenum"
  <2> DEFINE rs == DecodeParts(t, w, p)
  <2>1. r = EnumDecode(t, w, rs) BY <1>1, <1>8 DEF DecodeRule, Structs, DataEnums, Fieldless
  <2>2. IsValid(t, w) = (KnownTag(t, w) /\ \A i \in DOMAIN w.s : IsValid(Payload(t, w), w.s[i]))
    BY <1>2, <1>8 DEF IsValidRule, EnumIsValid, KnownTag, Records, Structs, DataEnums, Fieldless
  <2>3. EnumCarrier(t, w) BY <1>3, <1>8, CarrierLayers
  <2>4. CASE ~KnownTag(t, w)
    <3>1. r = Refused({}, {}) BY <2>1, <2>4 DEF EnumDecode
    <3> QED BY <2>2, <2>4, <3>1, KeptFaithful
  <2>5. CASE KnownTag(t, w)
    <3>1. DOMAIN rs = DOMAIN w.s BY DEF DecodeParts, Kids
    <3>2. ASSUME NEW i \in DOMAIN w.s PROVE Faithful(Payload(t, w), w.s[i], rs[i])
      <4>1. rs[i] = Decode(Part(t, w, i), w.s[i], Append(p, i), DefaultDecodeStore(Part(t, w, i)))
        BY DEF DecodeParts, DecodePart, Kids
      <4>2. Readable(t, w) BY <1>8, <2>5 DEF Readable, DataEnums
      <4>3. Part(t, w, i) = Payload(t, w) BY <1>8, PartsOf DEF DataEnums
      <4>4. t.k \notin {"int", "bool", "nz", "unit", "tags", "exhaustive"} BY <1>8
      <4> HIDE DEF rs
      <4> QED BY <1>3, <4>1, <4>2, <4>3, <4>4, JudgesPart
    <3> HIDE DEF rs
    <3>3. Fails(rs) <=> ~IsValid(t, w) BY <2>2, <2>5, <3>1, <3>2 DEF Fails, Faithful
    <3>4. CASE Fails(rs)
      <4>1. ~r.ok BY <2>1, <2>5, <3>4, Answers DEF EnumDecode, RefuseAtFirst
      <4> QED BY <3>3, <3>4, <4>1 DEF Faithful
    <3>5. CASE ~Fails(rs)
      <4>1. r.ok /\ r.n = Node(w.x, NoAddr, Nodes(rs))
        BY <1>8, <2>1, <2>5, <3>5, Answers DEF EnumDecode, Selected
      <4>2. \A i \in DOMAIN rs : Strip(w.s[i]) = Strip(rs[i].n) BY <3>1, <3>2, <3>5 DEF Fails, Faithful
      <4>5. Strip(Node(w.x, NoAddr, Nodes(rs))) = Strip(w)
        <5>1. PICK ss : ss = rs OBVIOUS
        <5>2. DOMAIN w.s = DOMAIN ss /\ \A i \in DOMAIN ss : Strip(w.s[i]) = Strip(ss[i].n) BY <3>1, <4>2, <5>1
        <5>3. Strip(Node(w.x, NoAddr, Nodes(ss))) = Strip(w) BY <5>2, AlikeNodes
        <5> QED BY <5>1, <5>3
      <4>3. Strip(r.n) = Strip(w) BY <4>1, <4>5
      <4> QED BY <3>3, <3>5, <4>1, <4>3 DEF Faithful
    <3> QED BY <3>4, <3>5
  <2> QED BY <2>4, <2>5
<1> QED BY <1>6, <1>7, <1>8

(* Arrays and C structs: every component, then what the struct requires of *)
(* them.                                                                   *)
LEMMA JudgesPair ==
  ASSUME Setting, Distinct, Stripping, NEW t \in Universe, t.k \in {"arr", "cstruct", "vcstruct"},
         \A i \in DOMAIN t.s : Judges(t.s[i])
  PROVE  Judges(t)
<1> SUFFICES ASSUME Stable(t), ~Declares(t), NEW w, NEW p, NEW st, IsCarrier(t, w), NEW r, r = Decode(t, w, p, st)
             PROVE  Faithful(t, w, r)
  BY DEF Judges
<1> DEFINE rs == DecodeKept(t, w, p, st)
<1>1. r = DecodeRule(t, w, p, st) BY DecodesByRule
<1>2. IsValid(t, w) = IsValidRule(t, w) BY DEF Setting, Tied
<1>3. DOMAIN w.s = {1, 2} /\ w.x = "compound" /\ DOMAIN t.s = {1, 2} /\ (\A i \in {1, 2} : Part(t, w, i) = t.s[i] /\ IsCarrier(t.s[i], w.s[i]))
      /\ (\A i \in {1, 2} : t.s[i] \in Universe)
  BY PairCarrier DEF PairKinds
<1>4. ~Borrowing(t) /\ Readable(t, w) BY DEF Borrowing, Transparent, Readable, DataEnums
<1>5. DOMAIN rs = {1, 2} BY <1>3 DEF DecodeKept, Kids
<1>6. ASSUME NEW i \in {1, 2} PROVE Faithful(t.s[i], w.s[i], rs[i])
  <2>1. rs[i] = Decode(Part(t, w, i), w.s[i], Append(p, i), Sub(st, i)) BY <1>3 DEF DecodeKept, Kids
  <2> HIDE DEF rs
  <2>2. Faithful(Part(t, w, i), w.s[i], rs[i]) BY <1>3, <1>4, <2>1, JudgesPart
  <2> QED BY <1>3, <2>2
<1>7. IsValid(t, w) <=> (\A i \in {1, 2} : IsValid(t.s[i], w.s[i])) /\ Satisfies(t, w)
  BY <1>2, <1>3 DEF IsValidRule, ArrayIsValid, StructIsValid, Satisfies, Records, Structs, DataEnums, Fieldless
<1>8. Compound(Nodes(rs)) = Node("compound", NoAddr, Nodes(rs)) BY DEF Compound
<1>9. ASSUME t.k = "arr" => ~Robust(t.s[1])
      PROVE  (r = DecodeArrayElements(t, w, rs) /\ t.k = "arr") \/ (r = StructDecode(t, w, rs) /\ t.k # "arr")
  BY <1>1, <1>9 DEF DecodeRule, ArrayDecode, Structs, DataEnums, Fieldless, Elem
<1>10. CASE t.k = "arr" /\ Robust(t.s[1])
  <2>1. r = Kept(w)
    BY <1>1, <1>10 DEF DecodeRule, ArrayDecode, Structs, DataEnums, Fieldless, Elem
  <2>2. t.s[1] = t.s[2] BY <1>10, Kind
  <2>3. \A i \in {1, 2} : IsValid(t.s[i], w.s[i]) BY <1>3, <1>10, <2>2, RobustAccept DEF RobustAccepts
  <2>4. Satisfies(t, w) BY <1>10 DEF Satisfies
  <2> QED BY <1>7, <2>1, <2>3, <2>4, KeptFaithful
<1> HIDE DEF rs
<1>11. CASE ~(t.k = "arr" /\ Robust(t.s[1])) /\ Fails(rs)
  <2>1. ~r.ok
    BY <1>9, <1>11, Answers DEF DecodeArrayElements, StructDecode, RefuseVisited, RefuseAtFirst
  <2>2. ~IsValid(t, w) BY <1>5, <1>6, <1>7, <1>11 DEF Fails, Faithful
  <2> QED BY <2>1, <2>2 DEF Faithful
<1>12. CASE ~(t.k = "arr" /\ Robust(t.s[1])) /\ ~Fails(rs)
  <2> DEFINE v == Compound(Nodes(rs))
  <2>1. \A i \in DOMAIN rs : Strip(w.s[i]) = Strip(rs[i].n) /\ IsValid(t.s[i], w.s[i])
    BY <1>5, <1>6, <1>12 DEF Fails, Faithful
  <2>7. \A i \in DOMAIN rs : Strip(w.s[i]) = Strip(rs[i].n) BY <2>1
  <2>8. Strip(Node("compound", NoAddr, Nodes(rs))) = Strip(w)
    <3>1. w.x = "compound" /\ DOMAIN w.s = DOMAIN rs BY <1>3, <1>5
    <3> QED BY <2>7, <3>1, AlikeNodes
  <2>2. Strip(v) = Strip(w) BY <1>8, <2>8
  <2>3. Satisfies(t, v) <=> Satisfies(t, w)
    <3> HIDE DEF v
    <3>1. DOMAIN v.s = {1, 2} /\ \A i \in {1, 2} : Strip(v.s[i]) = Strip(w.s[i]) BY <1>3, <2>2, AlikeParts
    <3>2. v.s[1].x = w.s[1].x /\ v.s[2].x = w.s[2].x BY <3>1, AlikeParts
    <3> QED BY <3>2 DEF Satisfies
  <2> HIDE DEF v
  <2>4. IF t.k = "arr" \/ Satisfies(t, v) THEN r.ok /\ r.n = v ELSE ~r.ok
    BY <1>9, <1>12, Answers DEF DecodeArrayElements, StructDecode, RefuseVisited, v
  <2>5. t.k = "arr" => Satisfies(t, w) BY DEF Satisfies
  <2>6. IsValid(t, w) <=> Satisfies(t, w) BY <1>5, <1>7, <2>1
  <2> QED BY <2>2, <2>3, <2>4, <2>5, <2>6 DEF Faithful
<1> QED BY <1>10, <1>11, <1>12

(* The decoder of every Stable type accepts exactly what its validator *)
(* accepts, and answers it unchanged.                                  *)
THEOREM StableJudges ==
  ASSUME Setting, Distinct, Stripping
  PROVE  \A t \in Universe : Judges(t)
<1> DEFINE G == {t \in Universe : Judges(t)}
<1>1. ASSUME NEW t \in Universe, \A i \in DOMAIN t.s : t.s[i] \in G PROVE t \in G
  <2>1. \A i \in DOMAIN t.s : Judges(t.s[i]) BY <1>1
  <2>2. Stable(t) /\ ~Declares(t) => t.k \notin {"slice", "opt", "res", "tup", "struct", "vstruct", "onevariant", "enum", "inferred", "single", "trap"}
    BY StableParts, DeclaresNot
  <2>3. CASE ~(Stable(t) /\ ~Declares(t)) BY <2>3 DEF Judges
  <2>4. CASE t.k \in {"int", "bool", "nz", "unit", "identity", "tags", "exhaustive"} BY <2>4, JudgesScalar
  <2>5. CASE t.k \in Transparent BY <2>1, <2>5, JudgesTransparent
  <2>6. CASE t.k \in {"box", "vec"} BY <2>6, JudgesPointer DEF Judges
  <2>7. CASE t.k \in {"copt", "cres", "cenum"} BY <2>1, <2>7, JudgesTagged
  <2>8. CASE t.k \in {"arr", "cstruct", "vcstruct"} BY <2>1, <2>8, JudgesPair
  <2> QED BY <2>2, <2>3, <2>4, <2>5, <2>6, <2>7, <2>8, Kind DEF Transparent
<1> HIDE DEF G
<1>2. Universe \subseteq G BY <1>1, RankInduction DEF Setting
<1> QED BY <1>2 DEF G

-----------------------------------------------------------------------------
(* No decoder accepts the niche of its type. *)

(* The decoder refuses the niche of its type. *)
Refuses(t) ==
  HasNiche(t) /\ ~Declares(t) =>
    \A w, p, st, r : IsCarrier(t, w) /\ IsNiche(t, w) /\ r = Decode(t, w, p, st) => ~r.ok

(* bool, NonZero and the fieldless enums: no value has the bits of the *)
(* niche.                                                              *)
LEMMA RefusesScalar ==
  ASSUME Setting, NEW t \in Universe, t.k \in {"bool", "nz"} \cup Fieldless
  PROVE  Refuses(t)
<1> SUFFICES ASSUME HasNiche(t), NEW w, NEW p, NEW st, IsCarrier(t, w), IsNiche(t, w), NEW r, r = Decode(t, w, p, st)
             PROVE  ~r.ok
  BY DEF Refuses
<1>1. r = DecodeRule(t, w, p, st) BY DecodesByRule
<1>2. CASE t.k = "bool"
  <2>1. r = BoolDecode(w) BY <1>1, <1>2 DEF DecodeRule, Structs, DataEnums, Fieldless
  <2>a. w = Atom("2") BY <1>2, NicheLayers
  <2>2. w.x = "2" BY <2>a, Nodes1
  <2> QED BY <2>1, <2>2, Answers DEF BoolDecode
<1>3. CASE t.k = "nz"
  <2>1. r = NonZeroDecode(w) BY <1>1, <1>3 DEF DecodeRule, Structs, DataEnums, Fieldless
  <2>a. w = Atom("0") BY <1>3, NicheLayers
  <2>2. w.x = "0" BY <2>a, Nodes1
  <2> QED BY <2>1, <2>2, Answers DEF NonZeroDecode
<1>4. CASE t.k \in Fieldless
  <2>1. r = FieldlessDecode(t, w) BY <1>1, <1>4 DEF DecodeRule, Structs, DataEnums, Fieldless
  <2>2. ~KnownTag(t, w)
    <3>1. (t.k = "tags" /\ w.x = "0") \/ (t.k = "inferred" /\ w.x = "3") BY <1>4, NicheLayers DEF Fieldless
    <3>2. VariantIn(VariantTags(t), w.x) = 0 BY <3>1, TagsOf DEF Tagged, Fieldless
    <3> QED BY <3>2 DEF KnownTag
  <2> QED BY <2>1, <2>2, Answers DEF FieldlessDecode
<1> QED BY <1>2, <1>3, <1>4

(* The niche is the field's. *)
LEMMA RefusesTransparent ==
  ASSUME Setting, Distinct, NEW t \in Universe, t.k \in Transparent, \A i \in DOMAIN t.s : Refuses(t.s[i])
  PROVE  Refuses(t)
<1> SUFFICES ASSUME HasNiche(t), ~Declares(t), NEW w, NEW p, NEW st, IsCarrier(t, w), IsNiche(t, w),
                    NEW r, r = Decode(t, w, p, st)
             PROVE  ~r.ok
  BY DEF Refuses
<1>1. r = DecodeRule(t, w, p, st) BY DecodesByRule
<1>2. t.k \in {"md", "newtype"} /\ HasNiche(t.s[1]) /\ IsNiche(t.s[1], w) BY NicheLayers DEF Transparent
<1>3. DOMAIN t.s = {1} /\ t.s[1] \in Universe /\ IsCarrier(t.s[1], w) BY TransparentCarrier
<1>4. r = Decode(t.s[1], w, p, st)
  BY <1>1, <1>2 DEF DecodeRule, Structs, DataEnums, Fieldless, ManualDecode, NewtypeDecode, Elem
<1>5. ~Declares(t.s[1]) BY <1>3, DeclaresNot
<1> QED BY <1>2, <1>3, <1>4, <1>5 DEF Refuses

(* The null pointer is no box and no vector. *)
LEMMA RefusesPointer ==
  ASSUME Setting, NEW t \in Universe, t.k \in Buffers, HasNiche(t),
         NEW w, NEW p, NEW st, IsCarrier(t, w), IsNiche(t, w), NEW r, r = Decode(t, w, p, st)
  PROVE  ~r.ok
<1>1. r = DecodeRule(t, w, p, st) BY DecodesByRule
<1>2. w.a = NoAddr BY NicheLayers
<1>3. IsValid(t, w) = IsValidRule(t, w) BY DEF Setting, Tied
<1>4. t.k \in {"box", "vec"} => ~IsValid(t, w)
  BY <1>2, <1>3 DEF IsValidRule, BoxIsValid, VecIsValid, Records, Structs, DataEnums, Fieldless
<1>5. CASE t.k = "box"
  <2>1. r = BoxStableDecode(t, w) \/ \E q : r = BoxUnstableDecode(w, p, q)
    BY <1>1, <1>5 DEF DecodeRule, Structs, DataEnums, Fieldless
  <2> QED BY <1>2, <1>4, <1>5, <2>1, Answers DEF BoxStableDecode, BoxUnstableDecode
<1>6. CASE t.k = "slice"
  <2>1. r = BoxWideDecode(t, w) \/ \E q : r = BoxDstDecode(w, q)
    BY <1>1, <1>6 DEF DecodeRule, Structs, DataEnums, Fieldless
  <2> QED BY <1>2, <2>1, Answers DEF BoxWideDecode, BoxDstDecode, DecodeBoxOwned
<1>7. CASE t.k = "vec"
  <2>1. r = VecStableDecode(t, w) \/ \E q : r = VecUnstableDecode(t, w, p, q)
    BY <1>1, <1>7 DEF DecodeRule, StdVecDecode, Structs, DataEnums, Fieldless
  <2> QED BY <1>2, <1>4, <1>7, <2>1, Answers DEF VecStableDecode, VecUnstableDecode, IntoVec
<1> QED BY <1>5, <1>6, <1>7 DEF Buffers

(* Nested options of bool: each level has its own value of the byte. *)
LEMMA BoolOptionRefuses ==
  ASSUME Setting, NEW t \in Universe, t = Opt(Bool), NEW w, NEW p, NEW st, IsCarrier(t, w), w # Atom("2"),
         w.x \notin {"0", "1"}, NEW r, r = Decode(t, w, p, st)
  PROVE  ~r.ok
<1> DEFINE q == Decode(Bool, w, p, DefaultDecodeStore(Bool))
<1>1. r = DecodeRule(t, w, p, st) BY DecodesByRule
<1>2. t.k = "opt" /\ t.s[1] = Bool /\ Bool \in Universe BY BoolNiches
<1>3. HasNiche(Bool) /\ NicheOf(Bool) = Atom("2") /\ Bool.k = "bool" BY <1>2, BoolNiches
<1>4. ~IsNiche(Bool, w) BY <1>2, <1>3, NicheLayers
<1>5. IsCarrier(Bool, w)
  <2>1. CarrierLayer(t, w) BY CarrierIs
  <2>2. NicheCarrier(Bool, w) BY <1>2, <1>3, <2>1, CarrierLayers DEF NicheOption, Elem
  <2> QED BY <1>4, <2>2 DEF NicheCarrier
<1>6. r = Wrapped(q, SomeV(q.n), Within("opt", <<q.st>>))
  BY <1>1, <1>2, <1>3, <1>4 DEF DecodeRule, NicheOption, OptionNicheDecode, Structs, DataEnums, Fieldless, Elem
<1>7. q = DecodeRule(Bool, w, p, DefaultDecodeStore(Bool)) BY <1>2, <1>5, DecodesByRule
<1>8. q = BoolDecode(w) BY <1>3, <1>7 DEF DecodeRule, Structs, DataEnums, Fieldless
<1>9. ~q.ok BY <1>8, Answers DEF BoolDecode
<1> HIDE DEF q
<1> QED BY <1>6, <1>9 DEF Wrapped

(* An option or result that has a niche of its own. *)
LEMMA RefusesOption ==
  ASSUME Setting, NEW t \in Universe, t.k \in {"opt", "copt", "res", "cres"}
  PROVE  Refuses(t)
<1> SUFFICES ASSUME HasNiche(t), NEW w, NEW p, NEW st, IsCarrier(t, w), IsNiche(t, w), NEW r, r = Decode(t, w, p, st)
             PROVE  ~r.ok
  BY DEF Refuses
<1>1. r = DecodeRule(t, w, p, st) BY DecodesByRule
<1>2. CASE t.k = "opt" /\ NicheOption(t)
  <2>1. t \in {Opt(Bool), Opt(Opt(Bool))} /\ w = NicheOf(t) BY <1>2, NicheLayers
  <2>2. CASE t = Opt(Bool)
    <3>1. w = Atom("3") BY <2>1, <2>2, BoolNiches
    <3>2. w.x = "3" /\ w # Atom("2") BY <3>1, Nodes1
    <3> QED BY <2>2, <3>2, BoolOptionRefuses
  <2>3. CASE t = Opt(Opt(Bool))
    <3> DEFINE u == Opt(Bool)
               q == Decode(u, w, p, DefaultDecodeStore(u))
    <3>1. w = Atom("4") /\ t.s[1] = u /\ u \in Universe BY <2>1, <2>3, BoolNiches
    <3>2. w.x = "4" /\ w # Atom("2") /\ w # Atom("3") BY <3>1, Nodes1
    <3>3. HasNiche(u) /\ NicheOf(u) = Atom("3") /\ u.k = "opt" /\ u.s[1] = Bool /\ Bool \in Universe BY <3>1, BoolNiches
    <3>4. NicheOption(u) BY <3>3, BoolNiches DEF NicheOption, Elem
    <3>5. ~IsNiche(u, w) BY <3>1, <3>2, <3>3, <3>4, NicheLayers
    <3>6. IsCarrier(u, w)
      <4>1. CarrierLayer(t, w) BY CarrierIs
      <4>2. NicheCarrier(u, w) BY <1>2, <3>1, <4>1, CarrierLayers DEF Elem
      <4> QED BY <3>5, <4>2 DEF NicheCarrier
    <3>7. r = Wrapped(q, SomeV(q.n), Within("opt", <<q.st>>))
      BY <1>1, <1>2, <3>1, <3>5 DEF DecodeRule, OptionNicheDecode, Structs, DataEnums, Fieldless, Elem
    <3>8. ~q.ok BY <3>1, <3>2, <3>6, BoolOptionRefuses
    <3> HIDE DEF q
    <3> QED BY <3>7, <3>8 DEF Wrapped
  <2> QED BY <2>1, <2>2, <2>3
<1>3. CASE t.k = "opt" /\ ~NicheOption(t)
  <2>1. \E q : r = OptionTaggedDecode(w, q)
    BY <1>1, <1>3 DEF DecodeRule, Structs, DataEnums, Fieldless
  <2>2. w.x = "2" BY <1>3, NicheLayers
  <2> QED BY <2>1, <2>2, Answers DEF OptionTaggedDecode
<1>4. CASE t.k = "copt"
  <2>1. \E q : r = COptionDecode(w, q) BY <1>1, <1>4 DEF DecodeRule, Structs, DataEnums, Fieldless
  <2>2. w.x = "2" BY <1>4, NicheLayers
  <2> QED BY <2>1, <2>2, Answers DEF COptionDecode
<1>5. CASE t.k = "res"
  <2>1. HasNicheRule(t) BY DEF Setting, Tied
  <2>2. ~OkNiche(t) /\ ~ErrNiche(t) BY <1>5, <2>1 DEF HasNicheRule, Pointers
  <2>3. \E q : r = ResultTaggedDecode(w, q) BY <1>1, <1>5, <2>2 DEF DecodeRule, Structs, DataEnums, Fieldless
  <2>4. w.x = "2" BY <1>5, NicheLayers
  <2> QED BY <2>3, <2>4, Answers DEF ResultTaggedDecode
<1>6. CASE t.k = "cres"
  <2>1. \E q : r = CResultDecode(w, q) BY <1>1, <1>6 DEF DecodeRule, Structs, DataEnums, Fieldless
  <2>2. w.x = "2" BY <1>6, NicheLayers
  <2> QED BY <2>1, <2>2, Answers DEF CResultDecode
<1> QED BY <1>2, <1>3, <1>4, <1>5, <1>6

(* The niche of a pair is made of its components' niches. *)
LEMMA RefusesPair ==
  ASSUME Setting, Distinct, NEW t \in Universe, t.k \in PairKinds, \A i \in DOMAIN t.s : Refuses(t.s[i])
  PROVE  Refuses(t)
<1> SUFFICES ASSUME HasNiche(t), ~Declares(t), NEW w, NEW p, NEW st, IsCarrier(t, w), IsNiche(t, w),
                    NEW r, r = Decode(t, w, p, st)
             PROVE  ~r.ok
  BY DEF Refuses
<1> DEFINE rs == DecodeKept(t, w, p, st)
<1>1. r = DecodeRule(t, w, p, st) BY DecodesByRule
<1>2. /\ DOMAIN w.s = {1, 2} /\ DOMAIN t.s = {1, 2}
      /\ \A i \in {1, 2} : t.s[i] \in Universe /\ Part(t, w, i) = t.s[i] /\ IsCarrier(t.s[i], w.s[i])
  BY PairCarrier
<1>3. t.k # "trap" /\ t.k # "identity" /\ \A i \in {1, 2} : ~Declares(t.s[i]) BY <1>2, DeclaresNot, NicheLayers
<1>4. PICK i \in {1, 2} : HasNiche(t.s[i]) /\ IsNiche(t.s[i], w.s[i])
  BY <1>2, <1>3, PairNiche
<1>5. DOMAIN rs = {1, 2} /\ rs[i] = Decode(t.s[i], w.s[i], Append(p, i), Sub(st, i))
  BY <1>2 DEF DecodeKept, Kids
<1>6. ~rs[i].ok
  <2> HIDE DEF rs
  <2>1. Refuses(t.s[i]) BY <1>2
  <2> QED BY <1>2, <1>3, <1>4, <1>5, <2>1 DEF Refuses
<1>7. Fails(rs) BY <1>5, <1>6 DEF Fails
<1>8. ~(t.k = "arr" /\ Robust(t.s[1]))
  <2>1. t.k = "arr" => t.s[1] = t.s[i] BY Kind
  <2> QED BY <1>2, <1>4, <2>1, RobustAccept DEF RobustAccepts
<1>9. r \in {DecodeArrayElements(t, w, rs), TupleDecode(t, w, rs), StructDecode(t, w, rs)}
  BY <1>1, <1>3, <1>8 DEF DecodeRule, ArrayDecode, OneVariantDecode, PairKinds, Structs, DataEnums, Fieldless, Elem
<1> HIDE DEF rs
<1> QED BY <1>7, <1>9, Answers DEF DecodeArrayElements, TupleDecode, StructDecode, RefuseVisited, RefuseAtFirst

(* The tag of the niche names no variant. *)
LEMMA RefusesEnum ==
  ASSUME Setting, NEW t \in Universe, t.k \in DataEnums
  PROVE  Refuses(t)
<1> SUFFICES ASSUME HasNiche(t), NEW w, NEW p, NEW st, IsCarrier(t, w), IsNiche(t, w), NEW r, r = Decode(t, w, p, st)
             PROVE  ~r.ok
  BY DEF Refuses
<1>1. r = DecodeRule(t, w, p, st) BY DecodesByRule
<1>2. \E rs : r = EnumDecode(t, w, rs) BY <1>1 DEF DecodeRule, Structs, DataEnums, Fieldless
<1>3. (t.k = "cenum" /\ w.x = "0") \/ (t.k = "enum" /\ w.x = "3") BY NicheLayers DEF DataEnums
<1>4. VariantIn(VariantTags(t), w.x) = 0 BY <1>3, TagsOf DEF Tagged, DataEnums
<1> QED BY <1>2, <1>4, Answers DEF EnumDecode, KnownTag

(* No decoder accepts the niche of its type, whatever the type: Option *)
(* around it is never ambiguous.                                       *)
THEOREM NichesRefused ==
  ASSUME Setting, Distinct
  PROVE  \A t \in Universe : Refuses(t)
<1> DEFINE G == {t \in Universe : Refuses(t)}
<1>1. ASSUME NEW t \in Universe, \A i \in DOMAIN t.s : t.s[i] \in G PROVE t \in G
  <2>1. \A i \in DOMAIN t.s : Refuses(t.s[i]) BY <1>1
  <2>2. CASE t.k \in {"int", "unit", "single"} BY <2>2, NicheLayers DEF Refuses
  <2>3. CASE t.k \in {"bool", "nz"} \cup Fieldless BY <2>3, RefusesScalar
  <2>4. CASE t.k \in Transparent BY <2>1, <2>4, RefusesTransparent
  <2>5. CASE t.k \in Buffers BY <2>5, RefusesPointer DEF Refuses
  <2>6. CASE t.k \in {"opt", "copt", "res", "cres"} BY <2>6, RefusesOption
  <2>7. CASE t.k \in PairKinds BY <2>1, <2>7, RefusesPair
  <2>8. CASE t.k \in DataEnums BY <2>8, RefusesEnum
  <2> QED BY <2>2, <2>3, <2>4, <2>5, <2>6, <2>7, <2>8, Kind DEF Transparent, Buffers, PairKinds, DataEnums, Fieldless
<1> HIDE DEF G
<1>2. Universe \subseteq G BY <1>1, RankInduction DEF Setting
<1> QED BY <1>2 DEF G

-----------------------------------------------------------------------------
(* What the callee accepts. *)

(* The struct that declares its own niche is the whole type, or lies behind *)
(* an owning pointer, or is nowhere in it.                                  *)
TrapOrClear(t) == ~Declares(t) \/ t.k \in {"trap", "box", "slice", "vec"}

(* What OnlyValidAccepted says of the answer `r` to the carrier `w`. *)
Verdict(t, w, r) ==
  /\ Stable(t) => (r.ok <=> IsValid(t, w) \/ (t.k = "trap" /\ IsNiche(t, w)))
  /\ HasNiche(t) /\ IsNiche(t, w) => (r.ok <=> t.k = "trap")

(* The struct that declares its own niche accepts every carrier, its niche *)
(* too.                                                                    *)
LEMMA TrapAccepts ==
  ASSUME Setting, NEW t \in Universe, t.k = "trap", NEW w, IsCarrier(t, w), NEW p, NEW st, NEW r, r = Decode(t, w, p, st)
  PROVE  r.ok /\ (IsValid(t, w) \/ IsNiche(t, w))
<1>1. r = DecodeRule(t, w, p, st) BY DecodesByRule
<1> DEFINE rs == DecodeKept(t, w, p, st)
<1>2. r = StructDecode(t, w, rs) BY <1>1 DEF DecodeRule, Structs, DataEnums, Fieldless
<1>3. DOMAIN w.s = {1, 2} /\ \A i \in {1, 2} : Part(t, w, i) = t.s[i] /\ IsCarrier(t.s[i], w.s[i]) /\ t.s[i] \in Universe
  BY PairCarrier DEF PairKinds
<1>4. t.s[1].k = "int" /\ t.s[2].k = "int" BY Kind DEF Integer, Ty
<1>5. ASSUME NEW i \in {1, 2} PROVE IsValid(t.s[i], w.s[i]) /\ rs[i].ok
  <2>1. rs[i] = Decode(t.s[i], w.s[i], Append(p, i), Sub(st, i)) BY <1>3 DEF DecodeKept, Kids
  <2>2. rs[i] = DecodeRule(t.s[i], w.s[i], Append(p, i), Sub(st, i)) BY <1>3, <2>1, DecodesByRule
  <2>3. t.s[i].k = "int" BY <1>4
  <2>4. rs[i] = Kept(w.s[i])
    BY <2>2, <2>3 DEF DecodeRule, IntDecode, Structs, DataEnums, Fieldless
  <2>5. IsValid(t.s[i], w.s[i])
    <3>1. IsValid(t.s[i], w.s[i]) = IsValidRule(t.s[i], w.s[i]) BY <1>3 DEF Setting, Tied
    <3> QED BY <2>3, <3>1 DEF IsValidRule, IntIsValid, Records, Structs, DataEnums, Fieldless
  <2> QED BY <2>4, <2>5, Answers
<1>6. DOMAIN rs = {1, 2} BY <1>3 DEF DecodeKept, Kids
<1> HIDE DEF rs
<1>7. ~Fails(rs) BY <1>5, <1>6 DEF Fails
<1>8. Satisfies(t, Compound(Nodes(rs))) /\ Satisfies(t, w) BY DEF Satisfies
<1>9. r.ok BY <1>2, <1>7, <1>8, Answers DEF StructDecode
<1>10. IsValid(t, w) = IsValidRule(t, w) /\ IsNiche(t, w) = IsNicheRule(t, w) BY DEF Setting, Tied
<1>11. IsNiche(t, w) = StructIsNiche(t, w)
  BY <1>10 DEF IsNicheRule, Records, Structs, Tagged, DataEnums, Fieldless, Pointers
<1>12. IsValidRule(t, w) = StructIsValid(t, w)
  BY DEF IsValidRule, Records, Structs, DataEnums, Fieldless
<1> QED BY <1>3, <1>5, <1>8, <1>9, <1>10, <1>11, <1>12 DEF StructIsValid

(* Every decoder's answer is the verdict the property states. *)
LEMMA Verdicts ==
  ASSUME Setting, Distinct, Stripping, NEW t \in Universe, TrapOrClear(t),
         NEW w, IsCarrier(t, w), NEW p, NEW st, NEW r, r = Decode(t, w, p, st)
  PROVE  Verdict(t, w, r)
<1>1. CASE t.k = "trap"
  <2>1. r.ok /\ (IsValid(t, w) \/ IsNiche(t, w)) BY <1>1, TrapAccepts
  <2> QED BY <1>1, <2>1 DEF Verdict
<1>2. CASE t.k # "trap"
  <2>1. Stable(t) => (r.ok <=> IsValid(t, w))
    <3>1. CASE ~Declares(t) BY <3>1, StableJudges DEF Judges, Faithful
    <3>2. CASE t.k \in {"box", "vec"} BY <3>2, JudgesPointer DEF Faithful
    <3>3. CASE t.k = "slice" BY <3>3, StableParts
    <3> QED BY <1>2, <3>1, <3>2, <3>3 DEF TrapOrClear
  <2>2. HasNiche(t) /\ IsNiche(t, w) => ~r.ok
    <3>1. CASE ~Declares(t) BY <3>1, NichesRefused DEF Refuses
    <3>2. CASE t.k \in Buffers BY <3>2, RefusesPointer
    <3> QED BY <1>2, <3>1, <3>2 DEF TrapOrClear, Buffers
  <2> QED BY <1>2, <2>1, <2>2 DEF Verdict
<1> QED BY <1>1, <1>2

(* What the callee holds or refused is what its decoder answered to the *)
(* carrier.                                                             *)
Heard ==
  /\ ty \in Types /\ foreign \in {"none", "caller", "callee"}
  /\ ty \in Universe /\ phase \in {"held", "refused"} =>
       IsCarrier(ty, wire) /\ dec = Decode(ty, wire, DecAt, DefaultDecodeStore(ty)) /\ (phase = "held" <=> dec.ok)

(* Every step keeps Heard: only receiving decodes. *)
LEMMA HeardStep ==
  ASSUME Setting, Distinct, Supplied PROVE IInv /\ Heard /\ [Next]_vars => Heard'
<1> SUFFICES ASSUME IInv, Heard, [Next]_vars PROVE Heard' OBVIOUS
<1>1. CASE EncodeValue \/ EncodeAgain \/ ForeignCall
  <2>1. phase' = "sent" /\ ty' = ty /\ foreign' \in {foreign, "caller"} BY <1>1 DEF EncodeValue, EncodeAgain, ForeignCall
  <2> QED BY <2>1 DEF Heard
<1>2. CASE Receive
  <2>1. /\ dec' = Decode(ty, wire, DecAt, DefaultDecodeStore(ty)) /\ phase' = (IF dec'.ok THEN "held" ELSE "refused")
        /\ ty' = ty /\ wire' = wire /\ foreign' = foreign /\ phase = "sent"
    BY <1>2 DEF Receive
  <2>2. ty \in Universe => IsCarrier(ty, wire) BY <2>1 DEF IInv, Carried, Sent
  <2> QED BY <2>1, <2>2 DEF Heard
<1>3. CASE ForeignEdit \/ Edit \/ SyncCallee \/ SyncCaller
  <2>1. phase' \in {"returned", "edited", "done"} /\ ty' = ty /\ foreign' \in {foreign, "callee"}
    BY <1>3 DEF ForeignEdit, Edit, SyncCallee, SyncCaller
  <2> QED BY <2>1 DEF Heard
<1>4. CASE UNCHANGED vars BY <1>4 DEF vars, Heard
<1> QED BY <1>1, <1>2, <1>3, <1>4 DEF Next

(* Heard is an invariant, relative to the one of the exchange. *)
LEMMA HeardAlways ==
  ASSUME Setting, Distinct, Supplied PROVE Spec => []Heard
<1>1. Init => Heard BY DEF Init, Heard
<1>2. IInv /\ Heard /\ [Next]_vars => Heard' BY HeardStep
<1> QED BY <1>1, <1>2, ExchangeInvariant, PTL DEF Spec

(* OnlyValidAccepted, for every owned type: acceptance is validity, and the *)
(* niche is refused.                                                        *)
THEOREM AcceptsOnlyValid ==
  ASSUME Setting, Distinct, Supplied, Stripping
  PROVE  Spec => [](ty \in Universe /\ TrapOrClear(ty) => OnlyValidAccepted)
<1>1. Heard => (ty \in Universe /\ TrapOrClear(ty) => OnlyValidAccepted)
  <2> SUFFICES ASSUME Heard, ty \in Universe, TrapOrClear(ty), phase \in {"held", "refused"}
               PROVE  Verdict(ty, wire, dec)
    BY DEF OnlyValidAccepted, Verdict
  <2> QED BY Verdicts DEF Heard
<1> QED BY <1>1, HeardAlways, PTL

-----------------------------------------------------------------------------
(* Validity does not depend on addresses. *)

(* Validity depends on no address: a carrier alike to a value of a Stable *)
(* type is valid.                                                         *)
SameValid(t) ==
  Stable(t) /\ ~Declares(t) =>
    \A v, w : IsValue(t, v) /\ IsCarrier(t, w) /\ Strip(v) = Strip(w) => IsValid(t, w)

(* The type of a component is told by the mark alone. *)
LEMMA PartByName ==
  ASSUME NEW t, NEW v, NEW w, v.x = w.x, NEW i
  PROVE  Part(t, v, i) = Part(t, w, i) /\ VariantOf(t, v) = VariantOf(t, w)
<1>1. ErrSide(v) = ErrSide(w) /\ VariantOf(t, v) = VariantOf(t, w) BY DEF ErrSide, VariantOf
<1>2. Payload(t, v) = Payload(t, w) BY <1>1 DEF Payload
<1> QED BY <1>1, <1>2 DEF Part

(* Alike nodes have components of the same types. *)
LEMMA SamePart ==
  ASSUME Setting, Distinct, Stripping, NEW t \in Universe, \A j \in DOMAIN t.s : SameValid(t.s[j]), Stable(t), ~Declares(t),
         t.k \notin {"int", "bool", "nz", "unit", "tags", "exhaustive"}, t.k \notin Transparent,
         NEW v, IsValue(t, v), NEW w, IsCarrier(t, w), Strip(v) = Strip(w), Readable(t, w), NEW i \in DOMAIN w.s
  PROVE  IsValid(Part(t, w, i), w.s[i])
<1>1. v.x = w.x /\ DOMAIN v.s = DOMAIN w.s /\ Strip(v.s[i]) = Strip(w.s[i]) BY AlikeParts
<1>2. PICK j \in DOMAIN t.s : Part(t, v, i) = t.s[j] /\ t.s[j] \in Universe BY <1>1, ValueParts
<1>3. Part(t, w, i) = t.s[j] BY <1>1, <1>2, PartByName
<1>4. t.k \notin {"opt", "res"} BY StableParts
<1>5. ~Borrowing(t) BY <1>4 DEF Borrowing
<1>6. IsCarrier(t.s[j], w.s[i]) BY <1>3, <1>5, CarrierIs
<1>7. IsValue(t.s[j], v.s[i]) BY <1>1, <1>2, ValueIs
<1>8. Stable(t.s[j]) /\ ~Declares(t.s[j]) BY StableParts, DeclaresNot
<1> QED BY <1>1, <1>3, <1>6, <1>7, <1>8 DEF SameValid

(* The types without a component. *)
LEMMA SameScalar ==
  ASSUME Setting, Stripping, NEW t \in Universe, t.k \in {"int", "bool", "nz", "unit", "identity", "tags", "exhaustive"}
  PROVE  SameValid(t)
<1> SUFFICES ASSUME NEW v, NEW w, IsValue(t, v), IsCarrier(t, w), Strip(v) = Strip(w) PROVE IsValid(t, w)
  BY DEF SameValid
<1>1. IsValid(t, w) = IsValidRule(t, w) BY DEF Setting, Tied
<1>2. ValueLayer(t, v) /\ v.x = w.x BY ValueIs, AlikeParts
<1>3. CASE t.k \in {"int", "unit", "identity"}
  BY <1>1, <1>3 DEF IsValidRule, IntIsValid, IdentityIsValid, Records, Structs, DataEnums, Fieldless
<1>4. CASE t.k = "bool"
  <2>1. IsValid(t, w) = (w.x \in {"0", "1"})
    BY <1>1, <1>4 DEF IsValidRule, BoolIsValid, Records, Structs, DataEnums, Fieldless
  <2>2. v.x \in {"0", "1"} BY <1>2, <1>4, ValueLayers
  <2> QED BY <1>2, <2>1, <2>2
<1>5. CASE t.k = "nz"
  <2>1. IsValid(t, w) = (w.x # "0")
    BY <1>1, <1>5 DEF IsValidRule, NonZeroIsValid, Records, Structs, DataEnums, Fieldless
  <2>2. v.x # "0" BY <1>2, <1>5, ValueLayers
  <2> QED BY <1>2, <2>1, <2>2
<1>6. CASE t.k \in {"tags", "exhaustive"}
  <2>1. IsValid(t, w) = (VariantIn(VariantTags(t), w.x) # 0)
    BY <1>1, <1>6 DEF IsValidRule, TagsIsValid, Records, Structs, DataEnums, Fieldless
  <2>2. \E i \in DOMAIN Names(t) : v.x = Names(t)[i] BY <1>2, <1>6, ValueLayers
  <2>3. /\ t.k = "tags" => w.x \in {"1", "2"}
        /\ t.k = "exhaustive" => w.x \in {"0", "1", "2", "3"}
    BY <1>2, <1>6, <2>2, NamesOf
  <2>4. t.k \in Tagged BY <1>6 DEF Tagged, Fieldless
  <2>5. CASE t.k = "tags"
    <3>1. VariantIn(VariantTags(t), w.x) = CASE w.x = "1" -> 1 [] w.x = "2" -> 2 [] OTHER -> 0 BY <2>4, <2>5, TagsOf
    <3>2. VariantIn(VariantTags(t), w.x) # 0 BY <2>3, <2>5, <3>1
    <3> QED BY <2>1, <3>2
  <2>6. CASE t.k = "exhaustive"
    <3>1. VariantIn(VariantTags(t), w.x) =
            CASE w.x = "0" -> 1 [] w.x = "1" -> 2 [] w.x = "2" -> 3 [] w.x = "3" -> 4 [] OTHER -> 0
      BY <2>4, <2>6, TagsOf
    <3>2. VariantIn(VariantTags(t), w.x) # 0 BY <2>3, <2>6, <3>1
    <3> QED BY <2>1, <3>2
  <2> QED BY <1>6, <2>5, <2>6
<1> QED BY <1>3, <1>4, <1>5, <1>6

(* The types that are their field. *)
LEMMA SameTransparent ==
  ASSUME Setting, Distinct, NEW t \in Universe, t.k \in Transparent, \A i \in DOMAIN t.s : SameValid(t.s[i])
  PROVE  SameValid(t)
<1> SUFFICES ASSUME Stable(t), ~Declares(t), NEW v, NEW w, IsValue(t, v), IsCarrier(t, w), Strip(v) = Strip(w)
             PROVE  IsValid(t, w)
  BY DEF SameValid
<1>1. IsValid(t, w) = IsValidRule(t, w) BY DEF Setting, Tied
<1>2. DOMAIN t.s = {1} /\ t.s[1] \in Universe /\ IsCarrier(t.s[1], w) BY TransparentCarrier
<1>3. Stable(t.s[1]) /\ ~Declares(t.s[1]) BY <1>2, StableParts, DeclaresNot DEF Transparent
<1>4. ValueLayer(t, v) BY ValueIs
<1>5. IsValue(t.s[1], v) BY <1>4, ValueLayers DEF Transparent, Elem
<1>6. IsValid(t.s[1], w) BY <1>2, <1>3, <1>5 DEF SameValid
<1> QED BY <1>1, <1>6 DEF IsValidRule, ManualIsValid, CellIsValid, NewtypeIsValid, Elem, Transparent, Records, Structs, DataEnums, Fieldless

(* Boxes and vectors: what they point at is valid, and they are no null *)
(* pointer.                                                             *)
LEMMA SameBuffer ==
  ASSUME Setting, Distinct, Stripping, NEW t \in Universe, t.k \in {"box", "vec"}, \A i \in DOMAIN t.s : SameValid(t.s[i])
  PROVE  SameValid(t)
<1> SUFFICES ASSUME Stable(t), ~Declares(t), NEW v, NEW w, IsValue(t, v), IsCarrier(t, w), Strip(v) = Strip(w)
             PROVE  IsValid(t, w)
  BY DEF SameValid
<1>1. IsValid(t, w) = IsValidRule(t, w) BY DEF Setting, Tied
<1>2. ValueLayer(t, v) /\ v.x = w.x /\ DOMAIN v.s = DOMAIN w.s BY ValueIs, AlikeParts
<1>3. CarrierLayer(t, w) BY CarrierIs
<1>4. Readable(t, w) /\ t.k \notin Transparent BY DEF Readable, Transparent, DataEnums
<1>5. \A i \in DOMAIN w.s : IsValid(Part(t, w, i), w.s[i]) BY <1>4, SamePart
<1>6. \A i \in DOMAIN w.s : IsValid(t.s[1], w.s[i]) BY <1>5, PartsOf
<1>7. CASE t.k = "box"
  <2>1. Pointing("box", v) BY <1>2, <1>7, ValueLayers
  <2>2. w.x = "box" /\ DOMAIN w.s = {1} BY <1>2, <2>1, Shapes1
  <2>3. w = Null \/ Pointing("box", w) BY <1>3, <1>7, CarrierLayers
  <2>4. w.a # NoAddr BY <2>2, <2>3, Shapes1
  <2> QED BY <1>1, <1>6, <1>7, <2>2, <2>4 DEF IsValidRule, BoxIsValid, Elem, Records, Structs, DataEnums, Fieldless
<1>8. CASE t.k = "vec"
  <2>1. Buffered("vec", v) BY <1>2, <1>8, ValueLayers
  <2>2. w.x = "vec" BY <1>2, <2>1, Shapes1
  <2>3. w = Null \/ Buffered("vec", w) \/ Buffered("bad", w) BY <1>3, <1>8, CarrierLayers
  <2>4. w.a # NoAddr BY <2>2, <2>3, Shapes1
  <2> QED BY <1>1, <1>6, <1>8, <2>2, <2>4 DEF IsValidRule, VecIsValid, Elem, Records, Structs, DataEnums, Fieldless
<1> QED BY <1>7, <1>8

(* co3's own Option, Result and C enums. *)
LEMMA SameTagged ==
  ASSUME Setting, Distinct, Stripping, NEW t \in Universe, t.k \in {"copt", "cres", "cenum"},
         \A i \in DOMAIN t.s : SameValid(t.s[i])
  PROVE  SameValid(t)
<1> SUFFICES ASSUME Stable(t), ~Declares(t), NEW v, NEW w, IsValue(t, v), IsCarrier(t, w), Strip(v) = Strip(w)
             PROVE  IsValid(t, w)
  BY DEF SameValid
<1>1. IsValid(t, w) = IsValidRule(t, w) BY DEF Setting, Tied
<1>2. ValueLayer(t, v) /\ v.x = w.x /\ DOMAIN v.s = DOMAIN w.s BY ValueIs, AlikeParts
<1>3. t.k \notin Transparent BY DEF Transparent
<1>4. Readable(t, w) => \A i \in DOMAIN w.s : IsValid(Part(t, w, i), w.s[i]) BY <1>3, SamePart
<1>5. CASE t.k = "copt"
  <2>1. v = Zeroed \/ Around("1", NoAddr, v) BY <1>2, <1>5, ValueLayers
  <2>2. w.x = "0" \/ (w.x = "1" /\ DOMAIN w.s = {1}) BY <1>2, <2>1, Shapes1
  <2>3. Readable(t, w) BY <1>5 DEF Readable, DataEnums
  <2>4. \A i \in DOMAIN w.s : IsValid(t.s[1], w.s[i]) BY <1>4, <1>5, <2>3, PartsOf
  <2> QED BY <1>1, <1>5, <2>2, <2>4 DEF IsValidRule, OptionIsValid, Elem, Records, Structs, DataEnums, Fieldless
<1>6. CASE t.k = "cres"
  <2>1. Around("0", NoAddr, v) \/ Around("1", NoAddr, v) BY <1>2, <1>6, ValueLayers
  <2>2. w.x \in {"0", "1"} /\ DOMAIN w.s = {1} BY <1>2, <2>1, Shapes1
  <2>3. Readable(t, w) BY <1>6, <2>2 DEF Readable, DataEnums
  <2>4. IsValid(Part(t, w, 1), w.s[1]) BY <1>4, <2>2, <2>3
  <2>5. Part(t, w, 1) = IF w.x \in {"Err", "1"} THEN t.s[2] ELSE t.s[1] BY <1>6, PartsOf
  <2> QED BY <1>1, <1>6, <2>2, <2>4, <2>5 DEF IsValidRule, ResultIsValid, Elem, Records, Structs, DataEnums, Fieldless
<1>7. CASE t.k = "cenum"
  <2>1. \E i \in DOMAIN Names(t) : v.x = Names(t)[i]
    <3>1. PICK i \in DOMAIN Names(t) : IF i \in DOMAIN t.s THEN Around(Names(t)[i], NoAddr, v) ELSE v = Atom(Names(t)[i])
      BY <1>2, <1>7, ValueLayers
    <3>2. Around(Names(t)[i], NoAddr, v) => v.x = Names(t)[i] BY Shapes1
    <3>3. v = Atom(Names(t)[i]) => v.x = Names(t)[i] BY Nodes1
    <3> QED BY <3>1, <3>2, <3>3
  <2>2. w.x \in {"1", "2"} BY <1>2, <1>7, <2>1, NamesOf
  <2>3. VariantIn(VariantTags(t), w.x) # 0
    <3>1. VariantIn(VariantTags(t), w.x) = CASE w.x = "1" -> 1 [] w.x = "2" -> 2 [] OTHER -> 0
      BY <1>7, TagsOf DEF Tagged, DataEnums
    <3> QED BY <2>2, <3>1
  <2>4. Readable(t, w) BY <1>7, <2>3 DEF Readable, DataEnums, KnownTag
  <2>5. \A i \in DOMAIN w.s : IsValid(Payload(t, w), w.s[i]) BY <1>4, <1>7, <2>4, PartsOf DEF DataEnums
  <2> QED BY <1>1, <1>7, <2>3, <2>5 DEF IsValidRule, EnumIsValid, Records, Structs, DataEnums, Fieldless
<1> QED BY <1>5, <1>6, <1>7

(* Arrays and C structs. *)
LEMMA SamePair ==
  ASSUME Setting, Distinct, Stripping, NEW t \in Universe, t.k \in {"arr", "cstruct", "vcstruct"},
         \A i \in DOMAIN t.s : SameValid(t.s[i])
  PROVE  SameValid(t)
<1> SUFFICES ASSUME Stable(t), ~Declares(t), NEW v, NEW w, IsValue(t, v), IsCarrier(t, w), Strip(v) = Strip(w)
             PROVE  IsValid(t, w)
  BY DEF SameValid
<1>1. IsValid(t, w) = IsValidRule(t, w) BY DEF Setting, Tied
<1>2. ValueLayer(t, v) /\ DOMAIN v.s = DOMAIN w.s /\ \A i \in DOMAIN v.s : Strip(v.s[i]) = Strip(w.s[i]) BY ValueIs, AlikeParts
<1>3. t.k \notin Transparent /\ Readable(t, w) BY DEF Transparent, Readable, DataEnums
<1>4. \A i \in DOMAIN w.s : IsValid(Part(t, w, i), w.s[i]) BY <1>3, SamePart
<1>5. \A i \in DOMAIN w.s : IsValid(t.s[i], w.s[i]) BY <1>4, PartsOf DEF PairKinds
<1>6. DOMAIN w.s = {1, 2} BY PairCarrier DEF PairKinds
<1>7. Satisfies(t, v) BY <1>2, ValueLayers
<1>8. v.s[1].x = w.s[1].x /\ v.s[2].x = w.s[2].x BY <1>2, <1>6, AlikeParts
<1>9. Satisfies(t, w) BY <1>7, <1>8 DEF Satisfies
<1> QED BY <1>1, <1>5, <1>9 DEF IsValidRule, ArrayIsValid, StructIsValid, Records, Structs, DataEnums, Fieldless

(* Whatever is sent for a value of a Stable type, the validator accepts. *)
LEMMA StableSame ==
  ASSUME Setting, Distinct, Stripping
  PROVE  \A t \in Universe : SameValid(t)
<1> DEFINE G == {t \in Universe : SameValid(t)}
<1>1. ASSUME NEW t \in Universe, \A i \in DOMAIN t.s : t.s[i] \in G PROVE t \in G
  <2>1. \A i \in DOMAIN t.s : SameValid(t.s[i]) BY <1>1
  <2>2. Stable(t) /\ ~Declares(t) => t.k \notin {"slice", "opt", "res", "tup", "struct", "vstruct", "onevariant", "enum", "inferred", "single", "trap"}
    BY StableParts, DeclaresNot
  <2>3. CASE ~(Stable(t) /\ ~Declares(t)) BY <2>3 DEF SameValid
  <2>4. CASE t.k \in {"int", "bool", "nz", "unit", "identity", "tags", "exhaustive"} BY <2>4, SameScalar
  <2>5. CASE t.k \in Transparent BY <2>1, <2>5, SameTransparent
  <2>6. CASE t.k \in {"box", "vec"} BY <2>1, <2>6, SameBuffer
  <2>7. CASE t.k \in {"copt", "cres", "cenum"} BY <2>1, <2>7, SameTagged
  <2>8. CASE t.k \in {"arr", "cstruct", "vcstruct"} BY <2>1, <2>8, SamePair
  <2> QED BY <2>2, <2>3, <2>4, <2>5, <2>6, <2>7, <2>8, Kind DEF Transparent
<1> HIDE DEF G
<1>2. Universe \subseteq G BY <1>1, RankInduction DEF Setting
<1> QED BY <1>2 DEF G

-----------------------------------------------------------------------------
(* What is sent for the components of a value. *)

(* The mark of the carrier of `v`: the tag of its variant, or its own. *)
SentTag(t, v) ==
  CASE t.k = "opt" -> IF v.x = "None" THEN "0" ELSE "1"
    [] t.k = "res" -> ResultTag(v)
    [] t.k \in {"enum", "inferred"} -> VariantTag(t, v)
    [] OTHER -> v.x

(* The carrier `n` of component i: the component itself when Stable, or its *)
(* encoding, into some store.                                               *)
SentPart(t, v, p, i, n) ==
  \/ n = v.s[i] /\ Stable(Part(t, v, i))
  \/ \E q, s : n = Encode(q, Part(t, v, i), v.s[i], Append(p, i), s).n

(* The carrier `w` is `v` with its tag and its components encoded. *)
Spread(t, v, p, w) ==
  /\ w.x = SentTag(t, v) /\ DOMAIN w.s = DOMAIN v.s
  /\ \A i \in DOMAIN v.s : SentPart(t, v, p, i, w.s[i])

(* A value sent as it is. *)
LEMMA SpreadKept ==
  ASSUME Setting, NEW t \in Universe, t.k \notin Transparent, Stable(t) \/ (t.k = "slice" /\ Stable(t.s[1])),
         NEW v, IsValue(t, v), NEW p
  PROVE  Spread(t, v, p, v)
<1>1. t.k \notin {"opt", "res", "enum", "inferred"} BY StableParts
<1>2. SentTag(t, v) = v.x BY <1>1 DEF SentTag
<1>3. ASSUME NEW i \in DOMAIN v.s PROVE Stable(Part(t, v, i))
  <2>1. PICK j \in DOMAIN t.s : Part(t, v, i) = t.s[j] BY ValueParts
  <2>2. CASE Stable(t) BY <2>1, <2>2, StableParts, Kind
  <2>3. CASE t.k = "slice" /\ Stable(t.s[1]) BY <2>3, PartsOf
  <2> QED BY <2>2, <2>3
<1> QED BY <1>2, <1>3 DEF Spread, SentPart

(* A carrier without components. *)
LEMMA SpreadAlone ==
  ASSUME NEW t, NEW v, NEW p, NEW w, w.x = SentTag(t, v), DOMAIN w.s = {}, DOMAIN v.s = {}
  PROVE  Spread(t, v, p, w)
  BY DEF Spread

(* A carrier around the encoding of the one component. *)
LEMMA SpreadAround ==
  ASSUME NEW t, NEW v, NEW p, NEW q, NEW s, NEW c, c = Encode(q, Part(t, v, 1), v.s[1], Append(p, 1), s),
         DOMAIN v.s = {1}, NEW x, NEW a, x = SentTag(t, v)
  PROVE  Spread(t, v, p, Node(x, a, <<c.n>>))
<1> DEFINE w == Node(x, a, <<c.n>>)
<1>1. w.x = x /\ DOMAIN w.s = {1} /\ w.s[1] = c.n BY Nodes1
<1> HIDE DEF w
<1>2. SentPart(t, v, p, 1, w.s[1]) BY <1>1 DEF SentPart
<1>3. Spread(t, v, p, w) BY <1>1, <1>2 DEF Spread
<1> QED BY <1>3 DEF w

(* A carrier of the encodings of all components. *)
LEMMA SpreadNodes ==
  ASSUME NEW t, NEW v, NEW p, NEW rs, DOMAIN rs = DOMAIN v.s,
         \A i \in DOMAIN v.s : \E q, s : rs[i] = Encode(q, Part(t, v, i), v.s[i], Append(p, i), s),
         NEW x, NEW a, x = SentTag(t, v)
  PROVE  Spread(t, v, p, Node(x, a, Nodes(rs)))
<1> DEFINE w == Node(x, a, Nodes(rs))
<1>1. w.x = x /\ w.s = Nodes(rs) BY Nodes1
<1>2. DOMAIN Nodes(rs) = DOMAIN rs /\ \A i \in DOMAIN rs : Nodes(rs)[i] = rs[i].n BY DEF Nodes
<1> HIDE DEF w
<1>3. ASSUME NEW i \in DOMAIN v.s PROVE SentPart(t, v, p, i, w.s[i])
  <2>1. PICK q, s : rs[i] = Encode(q, Part(t, v, i), v.s[i], Append(p, i), s) OBVIOUS
  <2>2. w.s[i] = rs[i].n BY <1>1, <1>2
  <2> QED BY <2>1, <2>2 DEF SentPart
<1>4. DOMAIN w.s = DOMAIN v.s BY <1>1, <1>2
<1>5. Spread(t, v, p, w) BY <1>1, <1>3, <1>4 DEF Spread
<1> QED BY <1>5 DEF w

(* The types without a component. *)
LEMMA SpreadLeaf ==
  ASSUME Setting, NEW t \in Universe,
         t.k \in {"int", "bool", "nz", "unit", "single", "identity"} \cup Fieldless,
         NEW m, NEW v, NEW st, NEW p, IsValue(t, v), NEW r, r = Encode(m, t, v, p, st)
  PROVE  Spread(t, v, p, r.n)
<1>1. ValueLayer(t, v) BY ValueIs
<1>2. r = IF m = "checked" THEN EncodeChecked(t, v, p, st) ELSE EncodeUnchecked(t, v, p, st) BY EncodesByRule
<1>3. CASE t.k \in {"int", "unit", "bool", "nz", "identity"}
  <2>1. r = Kept(v)
    BY <1>2, <1>3 DEF EncodeChecked, EncodeUnchecked, Structs, DataEnums, Fieldless, IntEncode, UnitEncode, BoolEncode,
                      NonZeroEncode, IdentityEncode
  <2>2. Stable(t)
    <3>1. Stable(t) = StableRule(t) BY DEF Setting, Tied
    <3>2. CASE t.k = "identity"
      <4>1. t.s[1] = Integer /\ t.s[2] = Integer /\ Integer \in Universe /\ DOMAIN t.s = {1, 2} BY <3>2, Kind
      <4>2. Integer.k = "int" BY DEF Integer, Ty
      <4>3. Stable(Integer) BY <4>1, <4>2 DEF Setting, Tied, StableRule
      <4> QED BY <3>1, <3>2, <4>1, <4>3 DEF StableRule
    <3> QED BY <1>3, <3>1, <3>2 DEF StableRule
  <2>3. t.k \notin Transparent BY <1>3 DEF Transparent
  <2>4. r.n = v BY <2>1, Answers
  <2> QED BY <2>2, <2>3, <2>4, SpreadKept
<1>4. CASE t.k = "single"
  <2>1. r = Kept(UnitV)
    BY <1>2, <1>4 DEF EncodeChecked, EncodeUnchecked, Structs, DataEnums, Fieldless, SingleEncode
  <2>2. v = UnitV BY <1>1, <1>4, ValueLayers
  <2>3. SentTag(t, v) = v.x BY <1>4 DEF SentTag
  <2>4. DOMAIN v.s = {} /\ r.n = v BY <2>1, <2>2, Shapes1, Answers
  <2> QED BY <2>3, <2>4, SpreadAlone
<1>5. CASE t.k \in Fieldless
  <2>1. r = Kept(Atom(VariantTag(t, v)))
    BY <1>2, <1>5 DEF EncodeChecked, EncodeUnchecked, Structs, DataEnums, Fieldless, FieldlessEncode
  <2>2. Scalar(v) /\ \E i \in DOMAIN Names(t) : v.x = Names(t)[i] BY <1>1, <1>5, ValueLayers DEF Fieldless
  <2>3. VariantTag(t, v) = SentTag(t, v)
    <3>1. CASE t.k = "tags"
      <4>1. v.x \in {"1", "2"} BY <2>2, <3>1, NamesOf
      <4>2. \A x : VariantIn(VariantTags(t), x) = CASE x = "1" -> 1 [] x = "2" -> 2 [] OTHER -> 0
        BY <3>1, TagsOf DEF Tagged, Fieldless
      <4>3. VariantOf(t, v) = IF v.x = "1" THEN 1 ELSE 2 BY <4>1, <4>2 DEF VariantOf
      <4>4. VariantTag(t, v) = v.x BY <3>1, <4>1, <4>3 DEF VariantTag, VariantTags
      <4> QED BY <3>1, <4>4 DEF SentTag
    <3>2. CASE t.k = "inferred" BY <3>2 DEF SentTag
    <3>3. CASE t.k = "exhaustive"
      <4>1. v.x \in {"0", "1", "2", "3"} BY <2>2, <3>3, NamesOf
      <4>2. \A x : VariantIn(VariantTags(t), x) = CASE x = "0" -> 1 [] x = "1" -> 2 [] x = "2" -> 3 [] x = "3" -> 4 [] OTHER -> 0
        BY <3>3, TagsOf DEF Tagged, Fieldless
      <4>3. VariantOf(t, v) = CASE v.x = "0" -> 1 [] v.x = "1" -> 2 [] v.x = "2" -> 3 [] OTHER -> 4
        BY <4>1, <4>2 DEF VariantOf
      <4>4. VariantTag(t, v) = v.x BY <3>3, <4>1, <4>3 DEF VariantTag, VariantTags, TagBytes
      <4> QED BY <3>3, <4>4 DEF SentTag
    <3> QED BY <1>5, <3>1, <3>2, <3>3 DEF Fieldless
  <2>4. r.n = Atom(VariantTag(t, v)) BY <2>1, Answers
  <2>5. r.n.x = SentTag(t, v) /\ DOMAIN r.n.s = {} BY <2>3, <2>4, Nodes1
  <2>6. DOMAIN v.s = {} BY <2>2, Shapes1
  <2> QED BY <2>5, <2>6, SpreadAlone
<1> QED BY <1>3, <1>4, <1>5

(* Boxes, boxed slices and vectors. *)
LEMMA SpreadPointer ==
  ASSUME Setting, NEW t \in Universe, t.k \in {"box", "slice", "vec"},
         NEW m, NEW v, NEW st, NEW p, IsValue(t, v), NEW r, r = Encode(m, t, v, p, st)
  PROVE  Spread(t, v, p, r.n)
<1>1. ValueLayer(t, v) /\ DOMAIN t.s = {1} BY ValueIs, Kind
<1>2. SentTag(t, v) = v.x BY DEF SentTag
<1>3. CASE r = Kept(v) /\ Stable(t.s[1])
  <2>1. t.k = "slice" \/ Stable(t)
    <3>1. Stable(t) = StableRule(t) BY DEF Setting, Tied
    <3> QED BY <1>1, <1>3, <3>1 DEF StableRule
  <2>2. t.k \notin Transparent /\ r.n = v BY <1>3, Answers DEF Transparent
  <2> QED BY <1>3, <2>1, <2>2, SpreadKept
<1>4. CASE t.k = "box" /\ BoxSent(t, v, p, r)
  <2>1. PICK q, s, c : /\ c = Encode(q, Part(t, v, 1), v.s[1], Append(p, 1), s)
                       /\ r = Answer(Node("box", Home(p), <<c.n>>), c.new \cup {Home(p)}, c.old \cup {v.a}, Within("box", <<c.st>>))
    BY <1>4 DEF BoxSent
  <2>2. Pointing("box", v) BY <1>1, <1>4, ValueLayers
  <2>3. v.x = "box" /\ DOMAIN v.s = {1} BY <2>2, Shapes1
  <2>4. r.n = Node("box", Home(p), <<c.n>>) BY <2>1, Answers
  <2>5. Spread(t, v, p, Node("box", Home(p), <<c.n>>)) BY <1>2, <2>1, <2>3, SpreadAround
  <2> QED BY <2>4, <2>5
<1>5. CASE t.k \in {"slice", "vec"} /\ \E q : r = EncodeVecElements(v, p, EncodeParts(q, t, v, p))
  <2>1. PICK q : r = EncodeVecElements(v, p, EncodeParts(q, t, v, p)) BY <1>5
  <2>2. Buffered("vec", v) BY <1>1, <1>5, ValueLayers
  <2>3. v.x = "vec" BY <2>2, Shapes1
  <2>4. PICK rs : rs = EncodeParts(q, t, v, p) OBVIOUS
  <2>5. r.n = Node("vec", Home(p), Nodes(rs)) BY <2>1, <2>3, <2>4, Answers DEF EncodeVecElements
  <2>6. DOMAIN rs = DOMAIN v.s /\ \A i \in DOMAIN v.s : rs[i] = Encode(q, Part(t, v, i), v.s[i], Append(p, i), NoStore)
    <3>1. DOMAIN rs = DOMAIN v.s BY <2>4 DEF EncodeParts, Kids
    <3>2. \A i \in DOMAIN v.s : rs[i] = Encode(q, Part(t, v, i), v.s[i], Append(p, i), NoStore)
      BY <2>4 DEF EncodeParts, EncodePart, Kids
    <3> QED BY <3>1, <3>2
  <2>7. Spread(t, v, p, Node("vec", Home(p), Nodes(rs))) BY <1>2, <2>3, <2>6, SpreadNodes
  <2> QED BY <2>5, <2>7
<1> QED BY <1>3, <1>4, <1>5, BoxSends, BufferSends

(* Options and results with a tag. *)
LEMMA SpreadTagged ==
  ASSUME Setting, Distinct, NEW t \in Universe, ~Borrowing(t), t.k \in {"opt", "copt", "res", "cres"},
         NEW m, NEW v, NEW st, NEW p \in Seq(Nat), IsValue(t, v), Sole(v), Avoids(v, p),
         NEW r, r = Encode(m, t, v, p, st)
  PROVE  Spread(t, v, p, r.n)
<1> DEFINE c == EncodePart(IF m = "checked" THEN "checked" ELSE "unchecked", t, v, p, 1, NoStore)
<1>1. r = IF m = "checked" THEN EncodeChecked(t, v, p, st) ELSE EncodeUnchecked(t, v, p, st) BY EncodesByRule
<1>2. ValueLayer(t, v) BY ValueIs
<1>3. /\ t.k = "opt" => ~NicheOption(t)
      /\ t.k = "res" => ~OkNiche(t) /\ ~ErrNiche(t)
  BY DEF Borrowing
<1>4. /\ t.k = "opt" => r = OptionTagged(v, c)
      /\ t.k = "copt" => r = IF v.x = "0" THEN OptionTagged(NoneV, v) ELSE OptionTagged(v, c)
      /\ t.k \in {"res", "cres"} => r = ResultTagged(v, c)
  <2>1. CASE m = "checked"
    BY <1>1, <1>3, <2>1 DEF EncodeChecked, Structs, DataEnums, Fieldless, StdOptionTagged, StdResultTagged
  <2>2. CASE m # "checked"
    BY <1>1, <1>3, <2>2 DEF EncodeUnchecked, Structs, DataEnums, Fieldless, StdOptionTaggedUnchecked, StdResultTaggedUnchecked,
                            OptionTaggedUnchecked, OptionTagged, ResultTaggedUnchecked, ResultTagged
  <2> QED BY <2>1, <2>2
<1>5. \E q : c = Encode(q, Part(t, v, 1), v.s[1], Append(p, 1), NoStore) BY DEF EncodePart
<1> HIDE DEF c
<1>7. CASE v \in {NoneV, Zeroed}
  <2>1. t.k \in {"opt", "copt"} /\ (t.k = "opt" => v = NoneV) /\ (t.k = "copt" => v = Zeroed)
    <3>1. ~Around("Ok", NoAddr, v) /\ ~Around("Err", NoAddr, v) /\ ~Around("0", NoAddr, v) /\ ~Around("1", NoAddr, v)
          /\ ~Around("Some", NoAddr, v)
      BY <1>7, Shapes1
    <3> QED BY <1>2, <3>1, ValueLayers
  <2>2. v.x = (IF t.k = "opt" THEN "None" ELSE "0") /\ DOMAIN v.s = {} BY <2>1, Shapes1
  <2>3. r = Kept(Zeroed)
    <3>1. NoneV.x = "None" BY Shapes1
    <3> QED BY <1>4, <2>1, <2>2, <3>1 DEF OptionTagged
  <2>4. r.n = Zeroed BY <2>3, Answers
  <2>5. r.n.x = "0" /\ DOMAIN r.n.s = {} BY <2>4, Shapes1
  <2>6. SentTag(t, v) = "0" BY <2>1, <2>2 DEF SentTag
  <2> QED BY <2>2, <2>5, <2>6, SpreadAlone
<1>8. CASE v \notin {NoneV, Zeroed}
  <2>1. /\ t.k = "opt" => Around("Some", NoAddr, v)
        /\ t.k = "copt" => Around("1", NoAddr, v)
        /\ t.k = "res" => Around("Ok", NoAddr, v) \/ Around("Err", NoAddr, v)
        /\ t.k = "cres" => Around("0", NoAddr, v) \/ Around("1", NoAddr, v)
    BY <1>2, <1>8, ValueLayers
  <2>2. DOMAIN v.s = {1} /\ v.x \in (CASE t.k = "opt" -> {"Some"} [] t.k = "copt" -> {"1"} [] t.k = "res" -> {"Ok", "Err"} [] OTHER -> {"0", "1"})
    BY <2>1, Shapes1
  <2> DEFINE x == IF t.k \in {"opt", "copt"} THEN "1" ELSE ResultTag(v)
  <2>3. x = SentTag(t, v) BY <2>2 DEF SentTag, ResultTag, ErrSide
  <2>4. c.ok
    <3>1. PICK q : c = Encode(q, Part(t, v, 1), v.s[1], Append(p, 1), NoStore) BY <1>5
    <3>2. t.k \notin Transparent BY DEF Transparent
    <3>3. \A j \in DOMAIN t.s : Encodes(t.s[j]) BY AllEncode, Kind
    <3>4. EncodedAs(Part(t, v, 1), v.s[1], Append(p, 1), c) BY <2>2, <3>1, <3>2, <3>3, PartEncoded
    <3> QED BY <3>4 DEF EncodedAs
  <2>5. \E s : r = Wrapped(c, Node(x, NoAddr, <<c.n>>), s)
    <3>1. CASE t.k \in {"opt", "copt"}
      <4>1. r = OptionTagged(v, c) /\ v.x # "None" BY <1>4, <2>2, <3>1
      <4>2. r = Wrapped(c, Node("1", NoAddr, <<c.n>>), Within("opt", <<c.st>>)) BY <4>1 DEF OptionTagged
      <4> QED BY <3>1, <4>2
    <3>2. CASE t.k \in {"res", "cres"}
      <4>1. r = Wrapped(c, Node(ResultTag(v), NoAddr, <<c.n>>), Within("opt", <<c.st>>)) BY <1>4, <3>2 DEF ResultTagged
      <4> QED BY <3>2, <4>1
    <3> QED BY <3>1, <3>2
  <2> HIDE DEF x
  <2>6. r.n = Node(x, NoAddr, <<c.n>>) BY <2>4, <2>5, Answers DEF Wrapped
  <2>7. Spread(t, v, p, Node(x, NoAddr, <<c.n>>)) BY <1>5, <2>2, <2>3, SpreadAround
  <2> QED BY <2>6, <2>7
<1> QED BY <1>7, <1>8

(* Tuples, arrays and structs. *)
LEMMA SpreadPair ==
  ASSUME Setting, NEW t \in Universe, t.k \in {"tup", "arr", "onevariant"} \cup Structs,
         NEW m, NEW v, NEW st, NEW p, IsValue(t, v), NEW r, r = Encode(m, t, v, p, st)
  PROVE  Spread(t, v, p, r.n)
<1>1. t.k \in PairKinds /\ t.k \notin Transparent /\ SentTag(t, v) = v.x BY DEF PairKinds, Structs, Transparent, SentTag
<1>2. CASE r = Kept(v) /\ Stable(t)
  <2>1. r.n = v BY <1>2, Answers
  <2> QED BY <1>1, <1>2, <2>1, SpreadKept
<1>3. CASE \E rs, s : /\ rs = EncodeKept(t, v, p, st) \/ rs = EncodeParts("unchecked", t, v, p)
                      /\ r = Answer(Compound(Nodes(rs)), News(rs), Olds(rs), s)
  <2>1. PICK rs, s : /\ rs = EncodeKept(t, v, p, st) \/ rs = EncodeParts("unchecked", t, v, p)
                     /\ r = Answer(Compound(Nodes(rs)), News(rs), Olds(rs), s)
    BY <1>3
  <2>2. DOMAIN rs = DOMAIN v.s BY <2>1 DEF EncodeParts, EncodeKept, Kids
  <2>3. ASSUME NEW i \in DOMAIN v.s
        PROVE  \E q, u : rs[i] = Encode(q, Part(t, v, i), v.s[i], Append(p, i), u)
    BY <2>1 DEF EncodeParts, EncodeKept, EncodePart, Kids
  <2>4. r.n = Node("compound", NoAddr, Nodes(rs)) BY <2>1, Answers DEF Compound
  <2>5. ValueLayer(t, v) BY ValueIs
  <2>6. v.x = "compound"
    <3>1. Pair(v) BY <1>1, <2>5, ValueLayers DEF PairKinds
    <3> QED BY <3>1, Shapes1
  <2>7. Spread(t, v, p, Node("compound", NoAddr, Nodes(rs))) BY <1>1, <2>2, <2>3, <2>6, SpreadNodes
  <2> QED BY <2>4, <2>7
<1> QED BY <1>2, <1>3, PairSends

(* Data enums. *)
LEMMA SpreadEnum ==
  ASSUME Setting, NEW t \in Universe, t.k \in DataEnums,
         NEW m, NEW v, NEW st, NEW p, IsValue(t, v), NEW r, r = Encode(m, t, v, p, st)
  PROVE  Spread(t, v, p, r.n)
<1>1. r = IF m = "checked" THEN EncodeChecked(t, v, p, st) ELSE EncodeUnchecked(t, v, p, st) BY EncodesByRule
<1>2. \E q : r = EnumEncode(t, v, EncodeParts(q, t, v, p))
  BY <1>1 DEF EncodeChecked, EncodeUnchecked, EnumEncodeUnchecked, Structs, DataEnums, Fieldless
<1>3. PICK q, rs : rs = EncodeParts(q, t, v, p) /\ r = EnumEncode(t, v, rs) BY <1>2
<1>4. r.n = Node(VariantTag(t, v), NoAddr, Nodes(rs)) BY <1>3, Answers DEF EnumEncode
<1>5. DOMAIN rs = DOMAIN v.s BY <1>3 DEF EncodeParts, Kids
<1>6. \A i \in DOMAIN v.s : rs[i] = Encode(q, Part(t, v, i), v.s[i], Append(p, i), NoStore)
  BY <1>3 DEF EncodeParts, EncodePart, Kids
<1>7. VariantTag(t, v) = SentTag(t, v)
  <2>1. CASE t.k = "enum" BY <2>1 DEF SentTag
  <2>2. CASE t.k = "cenum"
    <3>1. ValueLayer(t, v) BY ValueIs
    <3>2. PICK i \in DOMAIN Names(t) : IF i \in DOMAIN t.s THEN Around(Names(t)[i], NoAddr, v) ELSE v = Atom(Names(t)[i])
      BY <2>2, <3>1, ValueLayers
    <3>3. v.x = Names(t)[i]
      <4>1. Around(Names(t)[i], NoAddr, v) => v.x = Names(t)[i] BY Shapes1
      <4>2. v = Atom(Names(t)[i]) => v.x = Names(t)[i] BY Nodes1
      <4> QED BY <3>2, <4>1, <4>2
    <3>4. v.x \in {"1", "2"} BY <2>2, <3>3, NamesOf
    <3>5. \A x : VariantIn(VariantTags(t), x) = CASE x = "1" -> 1 [] x = "2" -> 2 [] OTHER -> 0
      BY <2>2, TagsOf DEF Tagged, DataEnums
    <3>6. VariantOf(t, v) = IF v.x = "1" THEN 1 ELSE 2 BY <3>4, <3>5 DEF VariantOf
    <3>7. VariantTag(t, v) = v.x BY <2>2, <3>4, <3>6 DEF VariantTag, VariantTags
    <3> QED BY <2>2, <3>7 DEF SentTag
  <2> QED BY <2>1, <2>2 DEF DataEnums
<1>8. Spread(t, v, p, Node(VariantTag(t, v), NoAddr, Nodes(rs))) BY <1>5, <1>6, <1>7, SpreadNodes
<1> QED BY <1>4, <1>8

(* Where no niche is used, an encoding is the value with its tag and its *)
(* components encoded.                                                   *)
LEMMA EncodingSpreads ==
  ASSUME Setting, Distinct, NEW t \in Universe, ~Borrowing(t), t.k \notin Transparent,
         NEW m, NEW v, NEW st, NEW p \in Seq(Nat), IsValue(t, v), Sole(v), Avoids(v, p),
         NEW r, r = Encode(m, t, v, p, st)
  PROVE  Spread(t, v, p, r.n)
<1>1. CASE t.k \in {"int", "bool", "nz", "unit", "single", "identity"} \cup Fieldless BY <1>1, SpreadLeaf
<1>2. CASE t.k \in {"box", "slice", "vec"} BY <1>2, SpreadPointer
<1>3. CASE t.k \in {"opt", "copt", "res", "cres"} BY <1>3, SpreadTagged
<1>4. CASE t.k \in {"tup", "arr", "onevariant"} \cup Structs BY <1>4, SpreadPair
<1>5. CASE t.k \in DataEnums BY <1>5, SpreadEnum
<1> QED BY <1>1, <1>2, <1>3, <1>4, <1>5, Kind DEF Fieldless, Structs, DataEnums, Transparent

-----------------------------------------------------------------------------
(* The checked and the unchecked functions send one carrier. *)

(* A component is a value, and the address it is encoded at is not among its *)
(* own.                                                                      *)
LEMMA PartSent ==
  ASSUME Setting, NEW t \in Universe, t.k \notin Transparent, NEW v, IsValue(t, v), Sole(v),
         NEW p \in Seq(Nat), Avoids(v, p), NEW i \in DOMAIN v.s
  PROVE  /\ IsValue(Part(t, v, i), v.s[i]) /\ Sole(v.s[i])
         /\ Append(p, i) \in Seq(Nat) /\ Avoids(v.s[i], Append(p, i))
         /\ \E j \in DOMAIN t.s : Part(t, v, i) = t.s[j] /\ t.s[j] \in Universe
<1>1. \E j \in DOMAIN t.s : Part(t, v, i) = t.s[j] /\ t.s[j] \in Universe BY ValueParts
<1>2. IsValue(Part(t, v, i), v.s[i]) /\ i \in Nat /\ v.x \notin {"ref", "mut"} BY ValueShape
<1>3. Allocs(v) = Here(v) \cup Below(v) /\ Sole(v.s[i])
  BY <1>2 DEF Setting, Reading, AllocsRule, SoleRule
<1>4. Allocs(v.s[i]) \subseteq Allocs(v) BY <1>3 DEF Below
<1>5. Append(p, i) \in Seq(Nat) /\ Avoids(v.s[i], Append(p, i))
  BY <1>2, <1>4, UnderAppend DEF Avoids
<1> QED BY <1>1, <1>2, <1>3, <1>5

(* Any two encodings of one value are alike, and alike to the value itself *)
(* when the type is Stable.                                                *)
Twins(t) ==
  \A v, m1, m2, s1, s2 : \A p1, p2 \in Seq(Nat) :
    IsValue(t, v) /\ Sole(v) /\ Avoids(v, p1) /\ Avoids(v, p2) =>
      /\ Strip(Encode(m1, t, v, p1, s1).n) = Strip(Encode(m2, t, v, p2, s2).n)
      /\ Stable(t) => Strip(Encode(m1, t, v, p1, s1).n) = Strip(v)

(* Twins of a type, applied. *)
LEMMA TwinOf ==
  ASSUME NEW t, Twins(t), NEW v, IsValue(t, v), Sole(v), NEW p1 \in Seq(Nat), NEW p2 \in Seq(Nat), Avoids(v, p1), Avoids(v, p2),
         NEW m1, NEW m2, NEW s1, NEW s2
  PROVE  /\ Strip(Encode(m1, t, v, p1, s1).n) = Strip(Encode(m2, t, v, p2, s2).n)
         /\ Stable(t) => Strip(Encode(m1, t, v, p1, s1).n) = Strip(v)
  BY DEF Twins

(* Two carriers of one component are alike. *)
LEMMA TwinParts ==
  ASSUME Setting, NEW t \in Universe, t.k \notin Transparent, \A j \in DOMAIN t.s : Twins(t.s[j]),
         NEW v, IsValue(t, v), Sole(v), NEW p1 \in Seq(Nat), NEW p2 \in Seq(Nat), Avoids(v, p1), Avoids(v, p2),
         NEW i \in DOMAIN v.s, NEW n1, NEW n2, SentPart(t, v, p1, i, n1), SentPart(t, v, p2, i, n2)
  PROVE  Strip(n1) = Strip(n2) /\ (Stable(Part(t, v, i)) => Strip(n1) = Strip(v.s[i]))
<1> DEFINE u == Part(t, v, i)
           n == v.s[i]
<1>1. Twins(u) /\ IsValue(u, n) /\ Sole(n) BY PartSent
<1>11. PICK a1, a2 : a1 = Append(p1, i) /\ a2 = Append(p2, i) OBVIOUS
<1>2. a1 \in Seq(Nat) /\ Avoids(n, a1) BY <1>11, PartSent
<1>3. a2 \in Seq(Nat) /\ Avoids(n, a2) BY <1>11, PartSent
<1>4. (n1 = n /\ Stable(u)) \/ \E q, s : n1 = Encode(q, u, n, a1, s).n BY <1>11 DEF SentPart
<1>5. (n2 = n /\ Stable(u)) \/ \E q, s : n2 = Encode(q, u, n, a2, s).n BY <1>11 DEF SentPart
<1> HIDE DEF u, n
<1>6. ASSUME NEW q, NEW s, n1 = Encode(q, u, n, a1, s).n, Stable(u) PROVE Strip(n1) = Strip(n)
  BY <1>1, <1>2, <1>6, TwinOf
<1>7. ASSUME NEW q, NEW s, n2 = Encode(q, u, n, a2, s).n, Stable(u) PROVE Strip(n2) = Strip(n)
  BY <1>1, <1>3, <1>7, TwinOf
<1>8. ASSUME NEW q1, NEW z1, n1 = Encode(q1, u, n, a1, z1).n, NEW q2, NEW z2, n2 = Encode(q2, u, n, a2, z2).n
      PROVE  Strip(n1) = Strip(n2)
  BY <1>1, <1>2, <1>3, <1>8, TwinOf
<1>9. Strip(n1) = Strip(n2) BY <1>4, <1>5, <1>6, <1>7, <1>8
<1>10. Stable(u) => Strip(n1) = Strip(n) BY <1>4, <1>6
<1> QED BY <1>9, <1>10 DEF u, n

(* Where the carrier is the value with components encoded. *)
LEMMA TwinsSpread ==
  ASSUME Setting, Distinct, Stripping, NEW t \in Universe, ~Borrowing(t), t.k \notin Transparent,
         \A j \in DOMAIN t.s : Twins(t.s[j])
  PROVE  Twins(t)
<1> SUFFICES ASSUME NEW v, NEW m1, NEW m2, NEW s1, NEW s2, NEW r1, NEW r2, NEW p1 \in Seq(Nat), NEW p2 \in Seq(Nat),
                    IsValue(t, v), Sole(v), Avoids(v, p1), Avoids(v, p2),
                    r1 = Encode(m1, t, v, p1, s1), r2 = Encode(m2, t, v, p2, s2)
             PROVE  Strip(r1.n) = Strip(r2.n) /\ (Stable(t) => Strip(r1.n) = Strip(v))
  BY DEF Twins
<1>1. Spread(t, v, p1, r1.n) BY EncodingSpreads
<1>2. Spread(t, v, p2, r2.n) BY EncodingSpreads
<1>3. /\ r1.n.x = SentTag(t, v) /\ DOMAIN r1.n.s = DOMAIN v.s
      /\ r2.n.x = SentTag(t, v) /\ DOMAIN r2.n.s = DOMAIN v.s
  BY <1>1, <1>2 DEF Spread
<1>4. ASSUME NEW i \in DOMAIN v.s
      PROVE  Strip(r1.n.s[i]) = Strip(r2.n.s[i]) /\ (Stable(Part(t, v, i)) => Strip(r1.n.s[i]) = Strip(v.s[i]))
  <2>1. SentPart(t, v, p1, i, r1.n.s[i]) /\ SentPart(t, v, p2, i, r2.n.s[i])
    <3>1. SentPart(t, v, p1, i, r1.n.s[i]) BY <1>1 DEF Spread
    <3>2. SentPart(t, v, p2, i, r2.n.s[i]) BY <1>2 DEF Spread
    <3> QED BY <3>1, <3>2
  <2> QED BY <2>1, TwinParts
<1>5. Strip(r1.n) = Strip(r2.n) BY <1>3, <1>4, Alike
<1>6. ASSUME Stable(t) PROVE Strip(r1.n) = Strip(v)
  <2>1. Spread(t, v, p1, v) BY <1>6, SpreadKept
  <2>2. r1.n.x = v.x BY <1>3, <2>1 DEF Spread
  <2>3. ASSUME NEW i \in DOMAIN v.s PROVE Strip(r1.n.s[i]) = Strip(v.s[i])
    <3>1. PICK j \in DOMAIN t.s : Part(t, v, i) = t.s[j] BY PartSent
    <3>2. DOMAIN t.s # {} => t.k \notin {"int", "bool", "nz", "unit", "tags", "exhaustive"} BY Kind
    <3>3. Stable(Part(t, v, i)) BY <1>6, <3>1, <3>2, StableParts
    <3> QED BY <1>4, <3>3
  <2> QED BY <1>3, <2>2, <2>3, Alike
<1> QED BY <1>5, <1>6

(* The types that are sent as their field. *)
LEMMA TwinsTransparent ==
  ASSUME Setting, Distinct, NEW t \in Universe, t.k \in Transparent, \A j \in DOMAIN t.s : Twins(t.s[j])
  PROVE  Twins(t)
<1> SUFFICES ASSUME NEW v, NEW m1, NEW m2, NEW s1, NEW s2, NEW r1, NEW r2, NEW p1 \in Seq(Nat), NEW p2 \in Seq(Nat),
                    IsValue(t, v), Sole(v), Avoids(v, p1), Avoids(v, p2),
                    r1 = Encode(m1, t, v, p1, s1), r2 = Encode(m2, t, v, p2, s2)
             PROVE  Strip(r1.n) = Strip(r2.n) /\ (Stable(t) => Strip(r1.n) = Strip(v))
  BY DEF Twins
<1>1. DOMAIN t.s = {1} /\ t.s[1] \in Universe BY Kind DEF Transparent
<1>2. Twins(t.s[1]) BY <1>1
<1>3. ValueLayer(t, v) BY ValueIs
<1>4. IsValue(t.s[1], v) BY <1>3, ValueLayers DEF Transparent, Elem
<1>5. (r1 = Kept(v) /\ Stable(t.s[1])) \/ \E q : r1 = Encode(q, t.s[1], v, p1, s1) BY TransparentSends
<1>6. (r2 = Kept(v) /\ Stable(t.s[1])) \/ \E q : r2 = Encode(q, t.s[1], v, p2, s2) BY TransparentSends
<1>7. Stable(t) => Stable(t.s[1]) BY <1>1, StableParts DEF Transparent
<1>8. Kept(v).n = v BY Answers
<1>9. ASSUME NEW q, r1 = Encode(q, t.s[1], v, p1, s1), Stable(t.s[1]) PROVE Strip(r1.n) = Strip(v)
  BY <1>2, <1>4, <1>9 DEF Twins
<1>10. ASSUME NEW q, r2 = Encode(q, t.s[1], v, p2, s2), Stable(t.s[1]) PROVE Strip(r2.n) = Strip(v)
  BY <1>2, <1>4, <1>10 DEF Twins
<1>11. ASSUME NEW q1, NEW q2, r1 = Encode(q1, t.s[1], v, p1, s1), r2 = Encode(q2, t.s[1], v, p2, s2)
       PROVE  Strip(r1.n) = Strip(r2.n)
  BY <1>2, <1>4, <1>11 DEF Twins
<1>12. Stable(t.s[1]) => Strip(r1.n) = Strip(v) BY <1>5, <1>8, <1>9
<1>13. Strip(r1.n) = Strip(r2.n) BY <1>5, <1>6, <1>8, <1>9, <1>10, <1>11
<1> QED BY <1>7, <1>12, <1>13

(* What is sent for an option or result with a niche: the niche, or the *)
(* carrier of the payload.                                              *)
NicheSent(t, v, p, w) ==
  IF Elided(t, v) THEN w = NicheOf(Niched(t))
  ELSE /\ DOMAIN v.s = {1} /\ Part(t, v, 1) = Niched(t)
       /\ \E q, c : c = Encode(q, Niched(t), v.s[1], Append(p, 1), NoStore) /\ w = c.n

(* Both encode functions send that. *)
LEMMA NicheSends ==
  ASSUME Setting, Distinct, NEW t \in Universe, Borrowing(t), t.k \notin Transparent, NEW v, IsValue(t, v), Sole(v),
         NEW m, NEW p \in Seq(Nat), Avoids(v, p), NEW st, NEW r, r = Encode(m, t, v, p, st)
  PROVE  NicheSent(t, v, p, r.n)
<1>1. CASE Elided(t, v)
  <2>1. \E s : r = Answer(NicheOf(Niched(t)), {}, {}, s) BY <1>1, NicheEncoding
  <2>2. r.n = NicheOf(Niched(t)) BY <2>1, Answers
  <2> QED BY <1>1, <2>2 DEF NicheSent
<1>2. CASE ~Elided(t, v)
  <2>1. /\ DOMAIN v.s = {1} /\ Part(t, v, 1) = Niched(t)
        /\ \E q, s, c : c = Encode(q, Part(t, v, 1), v.s[1], Append(p, 1), NoStore) /\ r = Wrapped(c, c.n, s)
    BY <1>2, NicheEncoding
  <2>2. PICK q, s, c : c = Encode(q, Part(t, v, 1), v.s[1], Append(p, 1), NoStore) /\ r = Wrapped(c, c.n, s) BY <2>1
  <2>3. \A j \in DOMAIN t.s : Encodes(t.s[j]) BY AllEncode, Kind
  <2>4. EncodedAs(Part(t, v, 1), v.s[1], Append(p, 1), c) BY <2>1, <2>2, <2>3, PartEncoded
  <2>5. r.n = c.n BY <2>2, <2>4, Answers DEF EncodedAs, Wrapped
  <2> QED BY <1>2, <2>1, <2>2, <2>5 DEF NicheSent
<1> QED BY <1>1, <1>2

(* Where the carrier is a niche or the payload's. *)
LEMMA TwinsNiche ==
  ASSUME Setting, Distinct, NEW t \in Universe, Borrowing(t), t.k \notin Transparent, \A j \in DOMAIN t.s : Twins(t.s[j])
  PROVE  Twins(t)
<1> SUFFICES ASSUME NEW v, NEW m1, NEW m2, NEW s1, NEW s2, NEW r1, NEW r2, NEW p1 \in Seq(Nat), NEW p2 \in Seq(Nat),
                    IsValue(t, v), Sole(v), Avoids(v, p1), Avoids(v, p2),
                    r1 = Encode(m1, t, v, p1, s1), r2 = Encode(m2, t, v, p2, s2)
             PROVE  Strip(r1.n) = Strip(r2.n) /\ (Stable(t) => Strip(r1.n) = Strip(v))
  BY DEF Twins
<1>1. ~Stable(t) BY NichedKnown, StableParts
<1>2. NicheSent(t, v, p1, r1.n) BY NicheSends
<1>3. NicheSent(t, v, p2, r2.n) BY NicheSends
<1>4. CASE Elided(t, v) BY <1>1, <1>2, <1>3, <1>4 DEF NicheSent
<1>5. CASE ~Elided(t, v)
  <2>1. PICK q1, c1 : c1 = Encode(q1, Niched(t), v.s[1], Append(p1, 1), NoStore) /\ r1.n = c1.n
    BY <1>2, <1>5 DEF NicheSent
  <2>2. PICK q2, c2 : c2 = Encode(q2, Niched(t), v.s[1], Append(p2, 1), NoStore) /\ r2.n = c2.n
    BY <1>3, <1>5 DEF NicheSent
  <2>3. 1 \in DOMAIN v.s /\ Part(t, v, 1) = Niched(t) BY <1>2, <1>5 DEF NicheSent
  <2>4. Twins(Niched(t)) BY NichedKnown
  <2>5. IsValue(Niched(t), v.s[1]) /\ Sole(v.s[1]) BY <2>3, PartSent
  <2>9. PICK a1, a2 : a1 = Append(p1, 1) /\ a2 = Append(p2, 1) OBVIOUS
  <2>6. a1 \in Seq(Nat) /\ Avoids(v.s[1], a1) BY <2>3, <2>9, PartSent
  <2>7. a2 \in Seq(Nat) /\ Avoids(v.s[1], a2) BY <2>3, <2>9, PartSent
  <2>10. c1 = Encode(q1, Niched(t), v.s[1], a1, NoStore) /\ c2 = Encode(q2, Niched(t), v.s[1], a2, NoStore)
    BY <2>1, <2>2, <2>9
  <2>8. Strip(c1.n) = Strip(c2.n) BY <2>4, <2>5, <2>6, <2>7, <2>10, TwinOf
  <2> QED BY <1>1, <2>1, <2>2, <2>8
<1> QED BY <1>4, <1>5

(* The checked and unchecked encodings of a value, into whichever store and *)
(* at whichever address, are one carrier up to addresses.                   *)
THEOREM AllTwins ==
  ASSUME Setting, Distinct, Stripping
  PROVE  \A t \in Universe : Twins(t)
<1> DEFINE G == {t \in Universe : Twins(t)}
<1>1. ASSUME NEW t \in Universe, \A i \in DOMAIN t.s : t.s[i] \in G PROVE t \in G
  <2>1. \A i \in DOMAIN t.s : Twins(t.s[i]) BY <1>1
  <2>2. CASE t.k \in Transparent BY <2>1, <2>2, TwinsTransparent
  <2>3. CASE t.k \notin Transparent /\ Borrowing(t) BY <2>1, <2>3, TwinsNiche
  <2>4. CASE t.k \notin Transparent /\ ~Borrowing(t) BY <2>1, <2>4, TwinsSpread
  <2> QED BY <2>2, <2>3, <2>4
<1> HIDE DEF G
<1>2. Universe \subseteq G BY <1>1, RankInduction DEF Setting
<1> QED BY <1>2 DEF G

-----------------------------------------------------------------------------
(* What is encoded is decoded again. *)

(* The tag sent for a variant selects that variant. *)
LEMMA TagBack ==
  ASSUME Setting, NEW t \in Universe, t.k \in {"enum", "cenum", "inferred"}, NEW v, IsValue(t, v),
         NEW w, w.x = SentTag(t, v)
  PROVE  KnownTag(t, w) /\ Selected(t, w) = v.x /\ VariantOf(t, w) = VariantOf(t, v)
<1>1. ValueLayer(t, v) BY ValueIs
<1>2. t.k \in Tagged BY DEF Tagged, DataEnums, Fieldless
<1>3. \E i \in DOMAIN Names(t) : v.x = Names(t)[i]
  <2>1. CASE t.k = "inferred" BY <1>1, <2>1, ValueLayers
  <2>2. CASE t.k \in {"enum", "cenum"}
    <3>1. PICK i \in DOMAIN Names(t) : IF i \in DOMAIN t.s THEN Around(Names(t)[i], NoAddr, v) ELSE v = Atom(Names(t)[i])
      BY <1>1, <2>2, ValueLayers
    <3>2. Around(Names(t)[i], NoAddr, v) => v.x = Names(t)[i] BY Shapes1
    <3>3. v = Atom(Names(t)[i]) => v.x = Names(t)[i] BY Nodes1
    <3> QED BY <3>1, <3>2, <3>3
  <2> QED BY <2>1, <2>2
<1>4. Stable(t) = StableRule(t) BY DEF Setting, Tied
<1>5. CASE t.k = "enum"
  <2>1. v.x \in {"A", "B", "C"} BY <1>3, <1>5, NamesOf
  <2>2. \A x : VariantIn(VariantTags(t), x) = CASE x = "0" -> 1 [] x = "1" -> 2 [] x = "2" -> 3 [] OTHER -> 0
    BY <1>2, <1>5, TagsOf
  <2>3. VariantOf(t, v) = (CASE v.x = "A" -> 1 [] v.x = "B" -> 2 [] OTHER -> 3) BY <2>1, <2>2, VariantByName DEF VariantOf
  <2>4. w.x = (CASE v.x = "A" -> "0" [] v.x = "B" -> "1" [] OTHER -> "2")
    BY <1>5, <2>1, <2>3 DEF SentTag, VariantTag, VariantTags
  <2>5. VariantIn(VariantTags(t), w.x) = VariantOf(t, v) /\ VariantOf(t, v) # 0 BY <2>1, <2>2, <2>3, <2>4
  <2>6. VariantOf(t, w) = VariantOf(t, v) BY <2>5 DEF VariantOf
  <2>7. ~Stable(t) BY <1>4, <1>5 DEF StableRule
  <2>8. Selected(t, w) = VariantNames[VariantOf(t, v)] BY <1>5, <2>6, <2>7 DEF Selected
  <2>9. Selected(t, w) = v.x BY <2>1, <2>3, <2>8 DEF VariantNames
  <2> QED BY <2>5, <2>6, <2>9 DEF KnownTag
<1>6. CASE t.k = "inferred"
  <2>1. v.x \in {"A", "B"} BY <1>3, <1>6, NamesOf
  <2>2. \A x : VariantIn(VariantTags(t), x) = CASE x = "0" -> 1 [] x = "1" -> 2 [] OTHER -> 0
    BY <1>2, <1>6, TagsOf
  <2>3. VariantOf(t, v) = (IF v.x = "A" THEN 1 ELSE 2) BY <2>1, <2>2, VariantByName DEF VariantOf
  <2>4. w.x = (IF v.x = "A" THEN "0" ELSE "1") BY <1>6, <2>1, <2>3 DEF SentTag, VariantTag, VariantTags
  <2>5. VariantIn(VariantTags(t), w.x) = VariantOf(t, v) /\ VariantOf(t, v) # 0 BY <2>1, <2>2, <2>3, <2>4
  <2>6. VariantOf(t, w) = VariantOf(t, v) BY <2>5 DEF VariantOf
  <2>7. ~Stable(t) BY <1>4, <1>6 DEF StableRule
  <2>8. Selected(t, w) = VariantNames[VariantOf(t, v)] BY <1>6, <2>6, <2>7 DEF Selected
  <2>9. Selected(t, w) = v.x BY <2>1, <2>3, <2>8 DEF VariantNames
  <2> QED BY <2>5, <2>6, <2>9 DEF KnownTag
<1>7. CASE t.k = "cenum"
  <2>1. v.x \in {"1", "2"} BY <1>3, <1>7, NamesOf
  <2>2. \A x : VariantIn(VariantTags(t), x) = CASE x = "1" -> 1 [] x = "2" -> 2 [] OTHER -> 0
    BY <1>2, <1>7, TagsOf
  <2>3. w.x = v.x BY <1>7 DEF SentTag
  <2>4. VariantIn(VariantTags(t), w.x) # 0 BY <2>1, <2>2, <2>3
  <2>5. Selected(t, w) = v.x BY <1>7, <2>3 DEF Selected
  <2>6. VariantOf(t, w) = VariantOf(t, v) BY <2>3 DEF VariantOf
  <2> QED BY <2>4, <2>5, <2>6 DEF KnownTag
<1> QED BY <1>5, <1>6, <1>7

(* A carrier tells the type of its component as the value does. *)
LEMMA PartBack ==
  ASSUME Setting, NEW t \in Universe, t.k \notin Transparent, NEW v, IsValue(t, v), NEW w, w.x = SentTag(t, v), NEW i
  PROVE  Part(t, w, i) = Part(t, v, i)
<1>1. CASE t.k \in DataEnums
  <2>1. VariantOf(t, w) = VariantOf(t, v) BY <1>1, TagBack DEF DataEnums
  <2> QED BY <1>1, <2>1, PartsOf DEF Payload
<1>2. CASE t.k = "res"
  <2>1. w.x = IF ErrSide(v) THEN "1" ELSE "0" BY <1>2 DEF SentTag, ResultTag
  <2>2. ErrSide(w) <=> ErrSide(v) BY <2>1 DEF ErrSide
  <2> QED BY <1>2, <2>2, PartsOf DEF ErrSide
<1>3. CASE t.k = "cres"
  <2>1. w.x = v.x BY <1>3 DEF SentTag
  <2> QED BY <1>3, <2>1, PartsOf
<1>4. CASE t.k \notin DataEnums \cup {"res", "cres"}
  BY <1>4 DEF Part
<1> QED BY <1>1, <1>2, <1>3, <1>4

(* The answer `d` is the value `v` again. *)
Back(v, d) == d.ok /\ Strip(d.n) = Strip(v)

(* What is encoded comes back from the decoder, from whichever store. *)
Returns(t) ==
  ~Declares(t) =>
    \A v, m, st, q, su : \A p \in Seq(Nat) :
      IsValue(t, v) /\ Sole(v) /\ Avoids(v, p) => Back(v, Decode(t, Encode(m, t, v, p, st).n, q, su))

(* Returns of a type, applied. *)
LEMMA ReturnsOf ==
  ASSUME NEW t, Returns(t), ~Declares(t), NEW v, NEW p \in Seq(Nat), IsValue(t, v), Sole(v), Avoids(v, p),
         NEW m, NEW st, NEW q, NEW su
  PROVE  Back(v, Decode(t, Encode(m, t, v, p, st).n, q, su))
  BY DEF Returns

(* A carrier alike to the value of a Stable type is decoded to that value. *)
LEMMA StableBack ==
  ASSUME Setting, Distinct, Stripping, NEW t \in Universe, Stable(t), ~Declares(t), NEW v, IsValue(t, v),
         NEW w, IsCarrier(t, w), Strip(w) = Strip(v), NEW q, NEW su
  PROVE  IsValid(t, w) /\ Back(v, Decode(t, w, q, su))
<1>1. SameValid(t) /\ Judges(t) BY StableSame, StableJudges
<1>2. IsValid(t, w) BY <1>1 DEF SameValid
<1>3. PICK r : r = Decode(t, w, q, su) OBVIOUS
<1>4. Faithful(t, w, r) BY <1>1, <1>3 DEF Judges
<1> QED BY <1>2, <1>3, <1>4 DEF Faithful, Back

(* What an encoder answers is a carrier of the type. *)
LEMMA SentCarrier ==
  ASSUME Setting, Distinct, NEW t \in Universe, NEW v, NEW p \in Seq(Nat), IsValue(t, v), Sole(v), Avoids(v, p),
         NEW m, NEW st
  PROVE  Carries(t, Encode(m, t, v, p, st).n)
<1>1. Encodes(t) BY AllEncode
<1>2. PICK r : r = Encode(m, t, v, p, st) OBVIOUS
<1>3. EncodedAs(t, v, p, r) BY <1>1, <1>2 DEF Encodes
<1> QED BY <1>2, <1>3 DEF EncodedAs

(* The Stable types. *)
LEMMA ReturnsStable ==
  ASSUME Setting, Distinct, Stripping, NEW t \in Universe, Stable(t)
  PROVE  Returns(t)
<1> SUFFICES ASSUME ~Declares(t), NEW v, NEW m, NEW st, NEW q, NEW su, NEW p \in Seq(Nat),
                    IsValue(t, v), Sole(v), Avoids(v, p)
             PROVE  Back(v, Decode(t, Encode(m, t, v, p, st).n, q, su))
  BY DEF Returns
<1>1. PICK w : w = Encode(m, t, v, p, st).n OBVIOUS
<1>2. IsCarrier(t, w) BY <1>1, SentCarrier DEF Carries
<1>3. Twins(t) BY AllTwins
<1>4. Strip(w) = Strip(v) BY <1>1, <1>3, TwinOf
<1>5. Back(v, Decode(t, w, q, su)) BY <1>2, <1>4, StableBack
<1> QED BY <1>1, <1>5

(* The carrier `c` of the component `n`: it is decoded to it, and the *)
(* validator accepts it where it is Stable.                           *)
PartComes(u, n, c) ==
  /\ \A q, su : Back(n, Decode(u, c, q, su))
  /\ Stable(u) => IsValid(u, c) /\ Strip(c) = Strip(n)

(* A carrier whose tag and components come back as those of `v`. *)
Comes(t, v, w) ==
  /\ IsCarrier(t, w) /\ w.x = SentTag(t, v) /\ DOMAIN w.s = DOMAIN v.s
  /\ \A i \in DOMAIN v.s : PartComes(Part(t, w, i), v.s[i], w.s[i])

(* The carrier of a component is decoded to that component. *)
LEMMA PartReturns ==
  ASSUME Setting, Distinct, Stripping, NEW t \in Universe, t.k \notin Transparent, ~Declares(t),
         \A j \in DOMAIN t.s : Returns(t.s[j]),
         NEW v, IsValue(t, v), Sole(v), NEW p \in Seq(Nat), Avoids(v, p), NEW i \in DOMAIN v.s,
         NEW n, SentPart(t, v, p, i, n)
  PROVE  PartComes(Part(t, v, i), v.s[i], n)
<1>1. PICK u, x, a : u = Part(t, v, i) /\ x = v.s[i] /\ a = Append(p, i) OBVIOUS
<1>2. u \in Universe /\ Returns(u) /\ ~Declares(u)
  <2>1. PICK j \in DOMAIN t.s : u = t.s[j] /\ t.s[j] \in Universe BY <1>1, PartSent
  <2> QED BY <2>1, DeclaresNot
<1>3. IsValue(u, x) /\ Sole(x) /\ a \in Seq(Nat) /\ Avoids(x, a) BY <1>1, PartSent
<1>4. (n = x /\ Stable(u)) \/ \E q, s : n = Encode(q, u, x, a, s).n BY <1>1 DEF SentPart
<1>5. CASE n = x /\ Stable(u)
  <2>1. IsCarrier(u, n) BY <1>2, <1>3, <1>5, StableCarries DEF Direct, Carries
  <2>2. ASSUME NEW q, NEW su PROVE IsValid(u, n) /\ Back(x, Decode(u, n, q, su))
    BY <1>2, <1>3, <1>5, <2>1, StableBack
  <2> QED BY <1>1, <1>5, <2>2 DEF PartComes
<1>6. CASE \E q, s : n = Encode(q, u, x, a, s).n
  <2>1. PICK m, s : n = Encode(m, u, x, a, s).n BY <1>6
  <2>2. ASSUME NEW q, NEW su PROVE Back(x, Decode(u, n, q, su)) BY <1>2, <1>3, <2>1, ReturnsOf
  <2>3. ASSUME Stable(u) PROVE IsValid(u, n) /\ Strip(n) = Strip(x)
    <3>1. IsCarrier(u, n) BY <1>2, <1>3, <2>1, SentCarrier DEF Carries
    <3>2. Twins(u) BY <1>2, AllTwins
    <3>3. Strip(n) = Strip(x) BY <1>3, <2>1, <2>3, <3>2, TwinOf
    <3>4. \A q, su : IsValid(u, n) /\ Back(x, Decode(u, n, q, su)) BY <1>2, <1>3, <2>3, <3>1, <3>3, StableBack
    <3> QED BY <3>3, <3>4
  <2> QED BY <1>1, <2>2, <2>3 DEF PartComes
<1> QED BY <1>4, <1>5, <1>6

(* Where no niche is used, so it is with an encoding. *)
LEMMA EncodingComes ==
  ASSUME Setting, Distinct, Stripping, NEW t \in Universe, t.k \notin Transparent, ~Borrowing(t), ~Declares(t),
         \A j \in DOMAIN t.s : Returns(t.s[j]),
         NEW v, IsValue(t, v), Sole(v), NEW p \in Seq(Nat), Avoids(v, p), NEW m, NEW st
  PROVE  Comes(t, v, Encode(m, t, v, p, st).n)
<1>1. PICK r : r = Encode(m, t, v, p, st) OBVIOUS
<1>2. PICK w : w = r.n OBVIOUS
<1>3. Spread(t, v, p, w) BY <1>1, <1>2, EncodingSpreads
<1>4. IsCarrier(t, w) BY <1>1, <1>2, SentCarrier DEF Carries
<1>5. w.x = SentTag(t, v) /\ DOMAIN w.s = DOMAIN v.s BY <1>3 DEF Spread
<1>6. ASSUME NEW i \in DOMAIN v.s PROVE PartComes(Part(t, w, i), v.s[i], w.s[i])
  <2>1. SentPart(t, v, p, i, w.s[i]) BY <1>3 DEF Spread
  <2>2. PartComes(Part(t, v, i), v.s[i], w.s[i]) BY <2>1, PartReturns
  <2>3. Part(t, w, i) = Part(t, v, i) BY <1>5, PartBack
  <2> QED BY <2>2, <2>3
<1>7. Comes(t, v, w) BY <1>4, <1>5, <1>6 DEF Comes
<1> QED BY <1>1, <1>2, <1>7

(* Components that come back make the whole come back. *)
LEMMA BackNodes ==
  ASSUME Stripping, NEW v, NEW x, NEW a, x = v.x, NEW rs, DOMAIN rs = DOMAIN v.s, \A i \in DOMAIN v.s : Back(v.s[i], rs[i]),
         NEW r, r.ok, r.n = Node(x, a, Nodes(rs))
  PROVE  Back(v, r)
<1>1. PICK b : b = v OBVIOUS
<1>2. b.x = x /\ DOMAIN b.s = DOMAIN rs BY <1>1
<1>3. \A i \in DOMAIN rs : Strip(b.s[i]) = Strip(rs[i].n) BY <1>1 DEF Back
<1>4. Strip(Node(x, a, Nodes(rs))) = Strip(b) BY <1>2, <1>3, AlikeNodes
<1> QED BY <1>1, <1>4 DEF Back

(* The case of one component. *)
LEMMA BackAround ==
  ASSUME Stripping, NEW v, DOMAIN v.s = {1}, NEW x, NEW a, x = v.x, NEW c, Back(v.s[1], c),
         NEW r, r.ok, r.n = Node(x, a, <<c.n>>)
  PROVE  Back(v, r)
<1>1. Strip(v.s[1]) = Strip(c.n) BY DEF Back
<1>2. Strip(Node(x, a, <<c.n>>)) = Strip(v) BY <1>1, AlikeAround
<1> QED BY <1>2 DEF Back

(* What is answered as it is came back. *)
LEMMA BackKept ==
  ASSUME NEW v, NEW r, r = Kept(v)
  PROVE  Back(v, r)
  BY Answers DEF Back

(* Tuples, arrays and structs. *)
LEMMA PairBack ==
  ASSUME Setting, Stripping, NEW t \in Universe, t.k \in {"tup", "arr", "onevariant"} \cup Structs, ~Stable(t),
         NEW v, IsValue(t, v), NEW w, Comes(t, v, w), NEW q, NEW su, NEW r, r = Decode(t, w, q, su)
  PROVE  Back(v, r)
<1>1. IsCarrier(t, w) /\ DOMAIN w.s = DOMAIN v.s BY DEF Comes
<1>2. r = DecodeRule(t, w, q, su) BY <1>1, DecodesByRule
<1>3. Pair(v) /\ Satisfies(t, v)
  <2>1. ValueLayer(t, v) BY ValueIs
  <2> QED BY <2>1, ValueLayers DEF Structs
<1>4. DOMAIN v.s = {1, 2} /\ v.x = "compound" BY <1>3, Shapes1
<1>5. PICK rs : rs = DecodeKept(t, w, q, su) OBVIOUS
<1>6. DOMAIN rs = DOMAIN v.s BY <1>1, <1>5 DEF DecodeKept, Kids
<1>7. ASSUME NEW i \in DOMAIN v.s PROVE Back(v.s[i], rs[i])
  <2>1. rs[i] = Decode(Part(t, w, i), w.s[i], Append(q, i), Sub(su, i)) BY <1>1, <1>5 DEF DecodeKept, Kids
  <2>2. PartComes(Part(t, w, i), v.s[i], w.s[i]) BY DEF Comes
  <2> QED BY <2>1, <2>2 DEF PartComes
<1>8. ~Fails(rs) BY <1>6, <1>7 DEF Fails, Back
<1>9. PICK n : n = Node("compound", NoAddr, Nodes(rs)) OBVIOUS
<1>10. n.s = Nodes(rs) /\ n = Compound(Nodes(rs)) BY <1>9, Nodes1 DEF Compound
<1>11. Satisfies(t, n)
  <2>1. n.s[1] = rs[1].n /\ n.s[2] = rs[2].n BY <1>4, <1>6, <1>10 DEF Nodes
  <2>2. Strip(n.s[1]) = Strip(v.s[1]) /\ Strip(n.s[2]) = Strip(v.s[2]) BY <1>4, <1>7, <2>1 DEF Back
  <2>3. n.s[1].x = v.s[1].x BY <2>2, AlikeParts
  <2>4. n.s[2].x = v.s[2].x BY <2>2, AlikeParts
  <2> QED BY <1>3, <2>3, <2>4 DEF Satisfies
<1>12. r.ok /\ r.n = n
  <2>1. CASE t.k = "arr"
    <3>1. ~Robust(t.s[1])
      <4>1. t.s[1] = t.s[2] /\ t.s[1] \in Universe /\ DOMAIN t.s = {1, 2} BY <2>1, Kind
      <4>2. Stable(t) = StableRule(t) BY DEF Setting, Tied
      <4>3. Stable(t.s[1]) => Stable(t) BY <2>1, <4>1, <4>2 DEF StableRule
      <4> QED BY <4>1, <4>3, RobustStable
    <3>2. r = DecodeArrayElements(t, w, rs)
      BY <1>2, <1>5, <2>1, <3>1 DEF DecodeRule, ArrayDecode, Structs, DataEnums, Fieldless, Elem
    <3> QED BY <1>8, <1>10, <3>2, Answers DEF DecodeArrayElements
  <2>2. CASE t.k = "tup"
    <3>1. r = TupleDecode(t, w, rs) BY <1>2, <1>5, <2>2 DEF DecodeRule, Structs, DataEnums, Fieldless
    <3> QED BY <1>8, <1>10, <3>1, Answers DEF TupleDecode
  <2>3. CASE t.k \in {"onevariant"} \cup Structs
    <3>1. r = StructDecode(t, w, rs) BY <1>2, <1>5, <2>3 DEF DecodeRule, OneVariantDecode, Structs, DataEnums, Fieldless
    <3> QED BY <1>8, <1>10, <1>11, <3>1, Answers DEF StructDecode
  <2> QED BY <2>1, <2>2, <2>3
<1> QED BY <1>4, <1>6, <1>7, <1>9, <1>12, BackNodes

(* Boxes. *)
LEMMA BoxBack ==
  ASSUME Setting, Stripping, NEW t \in Universe, t.k = "box", ~Stable(t),
         NEW v, IsValue(t, v), NEW w, Comes(t, v, w), NEW q, NEW su, NEW r, r = Decode(t, w, q, su)
  PROVE  Back(v, r)
<1>1. IsCarrier(t, w) /\ w.x = SentTag(t, v) BY DEF Comes
<1>2. r = DecodeRule(t, w, q, su) BY <1>1, DecodesByRule
<1>3. v.x = "box" /\ DOMAIN v.s = {1}
  <2>1. ValueLayer(t, v) BY ValueIs
  <2>2. Pointing("box", v) BY <2>1, ValueLayers
  <2> QED BY <2>2, Shapes1
<1>4. w.x = "box" BY <1>1, <1>3 DEF SentTag
<1>5. w.a # NoAddr
  <2>1. CarrierLayer(t, w) BY <1>1, CarrierIs
  <2>2. w = Null \/ Pointing("box", w) BY <2>1, CarrierLayers
  <2> QED BY <1>4, <2>2, Shapes1
<1>6. ~Stable(t.s[1])
  <2>1. Stable(t) = StableRule(t) BY DEF Setting, Tied
  <2>2. DOMAIN t.s = {1} BY Kind
  <2> QED BY <2>1, <2>2 DEF StableRule
<1>7. PICK c : c = Decode(t.s[1], w.s[1], Append(q, 1), Sub(su, 1)) OBVIOUS
<1>8. r = BoxUnstableDecode(w, q, c)
  BY <1>2, <1>6, <1>7 DEF DecodeRule, Structs, DataEnums, Fieldless, Elem
<1>9. Part(t, w, 1) = t.s[1] BY PartsOf
<1>10. Back(v.s[1], c) BY <1>3, <1>7, <1>9 DEF Comes, PartComes
<1>11. r.ok /\ r.n = Node("box", Home(q), <<c.n>>) BY <1>5, <1>8, <1>10, Answers DEF BoxUnstableDecode, Back
<1> QED BY <1>3, <1>10, <1>11, BackAround

(* Boxed slices and vectors, whose elements are validated in place or *)
(* decoded one by one.                                                *)
LEMMA BufferBack ==
  ASSUME Setting, Stripping, NEW t \in Universe, t.k \in {"slice", "vec"}, ~Stable(t),
         NEW v, IsValue(t, v), NEW w, Comes(t, v, w), NEW q, NEW su, NEW r, r = Decode(t, w, q, su)
  PROVE  Back(v, r)
<1>1. IsCarrier(t, w) /\ w.x = SentTag(t, v) /\ DOMAIN w.s = DOMAIN v.s BY DEF Comes
<1>2. r = DecodeRule(t, w, q, su) BY <1>1, DecodesByRule
<1>3. v.x = "vec"
  <2>1. ValueLayer(t, v) BY ValueIs
  <2>2. Buffered("vec", v) BY <2>1, ValueLayers
  <2> QED BY <2>2, Shapes1
<1>4. w.x = "vec" BY <1>1, <1>3 DEF SentTag
<1>5. w.a # NoAddr
  <2>1. CarrierLayer(t, w) BY <1>1, CarrierIs
  <2>2. w = Null \/ Buffered("vec", w) \/ Buffered("bad", w) BY <2>1, CarrierLayers
  <2> QED BY <1>4, <2>2, Shapes1
<1>6. ASSUME NEW i \in DOMAIN v.s PROVE PartComes(t.s[1], v.s[i], w.s[i])
  BY PartsOf DEF Comes
<1>7. CASE Stable(t.s[1])
  <2>1. t.k = "slice"
    <3>1. Stable(t) = StableRule(t) BY DEF Setting, Tied
    <3>2. DOMAIN t.s = {1} BY Kind
    <3> QED BY <1>7, <3>1, <3>2 DEF StableRule
  <2>2. r = BoxWideDecode(t, w) BY <1>2, <1>7, <2>1 DEF DecodeRule, Structs, DataEnums, Fieldless, Elem
  <2>3. \A i \in DOMAIN w.s : IsValid(t.s[1], w.s[i]) BY <1>1, <1>6, <1>7 DEF PartComes
  <2>4. r = Kept(w) BY <1>5, <2>2, <2>3 DEF BoxWideDecode, Elem
  <2>5. \A i \in DOMAIN w.s : Strip(w.s[i]) = Strip(v.s[i]) BY <1>1, <1>6, <1>7 DEF PartComes
  <2>6. Strip(w) = Strip(v) BY <1>1, <1>3, <1>4, <2>5, Alike
  <2> QED BY <2>4, <2>6, Answers DEF Back
<1>8. CASE ~Stable(t.s[1])
  <2>1. PICK rs : rs = DecodeParts(t, w, q) OBVIOUS
  <2>2. r = VecUnstableDecode(t, w, q, rs)
    BY <1>2, <1>5, <1>8, <2>1 DEF DecodeRule, Structs, DataEnums, Fieldless, Elem, BoxDstDecode, DecodeBoxOwned, StdVecDecode
  <2>3. IntoVec(w) BY <1>4, <1>5 DEF IntoVec
  <2>4. DOMAIN rs = DOMAIN v.s BY <1>1, <2>1 DEF DecodeParts, Kids
  <2>5. ASSUME NEW i \in DOMAIN v.s PROVE Back(v.s[i], rs[i])
    <3>1. rs[i] = Decode(Part(t, w, i), w.s[i], Append(q, i), DefaultDecodeStore(Part(t, w, i)))
      BY <1>1, <2>1 DEF DecodeParts, DecodePart, Kids
    <3>2. PartComes(Part(t, w, i), v.s[i], w.s[i]) BY DEF Comes
    <3> QED BY <3>1, <3>2 DEF PartComes
  <2>6. ~Fails(rs) BY <2>4, <2>5 DEF Fails, Back
  <2>7. r.ok /\ r.n = Node("vec", Home(q), Nodes(rs))
    BY <1>4, <2>2, <2>3, <2>6, Answers DEF VecUnstableDecode, DecodeVecElements
  <2> QED BY <1>3, <2>4, <2>5, <2>7, BackNodes
<1> QED BY <1>7, <1>8

(* The payload of a tagged carrier. *)
LEMMA FirstBack ==
  ASSUME NEW t, NEW v, NEW w, Comes(t, v, w), 1 \in DOMAIN v.s, NEW q, NEW c, c = DecodePart(t, w, q, 1)
  PROVE  Back(v.s[1], c)
<1>1. PartComes(Part(t, w, 1), v.s[1], w.s[1]) BY DEF Comes
<1> QED BY <1>1 DEF PartComes, DecodePart

(* Options with a tag, and co3's own. *)
LEMMA OptionBack ==
  ASSUME Setting, Stripping, NEW t \in Universe, t.k \in {"opt", "copt"}, ~Borrowing(t),
         NEW v, IsValue(t, v), NEW w, Comes(t, v, w), NEW q, NEW su, NEW r, r = Decode(t, w, q, su)
  PROVE  Back(v, r)
<1>1. IsCarrier(t, w) /\ w.x = SentTag(t, v) /\ DOMAIN w.s = DOMAIN v.s BY DEF Comes
<1>2. r = DecodeRule(t, w, q, su) BY <1>1, DecodesByRule
<1>3. PICK c : c = DecodePart(t, w, q, 1) OBVIOUS
<1>4. ValueLayer(t, v) BY ValueIs
<1>5. CASE t.k = "opt"
  <2>1. r = OptionTaggedDecode(w, c)
    BY <1>2, <1>3, <1>5 DEF DecodeRule, Structs, DataEnums, Fieldless, Borrowing
  <2>2. v = NoneV \/ Around("Some", NoAddr, v) BY <1>4, <1>5, ValueLayers
  <2>3. CASE v = NoneV
    <3>1. w.x = "0" BY <1>1, <1>5, <2>3, Shapes1 DEF SentTag
    <3> QED BY <2>1, <2>3, <3>1, BackKept DEF OptionTaggedDecode
  <2>4. CASE Around("Some", NoAddr, v)
    <3>1. v.x = "Some" /\ DOMAIN v.s = {1} BY <2>4, Shapes1
    <3>2. w.x = "1" BY <1>1, <1>5, <3>1 DEF SentTag
    <3>3. Back(v.s[1], c) BY <1>3, <3>1, FirstBack
    <3>4. r.ok /\ r.n = Node("Some", NoAddr, <<c.n>>)
      BY <2>1, <3>2, <3>3, Answers DEF OptionTaggedDecode, Wrapped, Back, SomeV
    <3> QED BY <3>1, <3>3, <3>4, BackAround
  <2> QED BY <2>2, <2>3, <2>4
<1>6. CASE t.k = "copt"
  <2>1. r = COptionDecode(w, c) BY <1>2, <1>3, <1>6 DEF DecodeRule, Structs, DataEnums, Fieldless
  <2>2. v = Zeroed \/ Around("1", NoAddr, v) BY <1>4, <1>6, ValueLayers
  <2>3. w.x = v.x BY <1>1, <1>6 DEF SentTag
  <2>4. CASE v = Zeroed
    <3>1. w.x = "0" /\ DOMAIN w.s = DOMAIN v.s /\ DOMAIN v.s = {} BY <1>1, <2>3, <2>4, Shapes1
    <3>2. Strip(w) = Strip(v) BY <2>3, <3>1, Alike
    <3> QED BY <2>1, <3>1, <3>2, Answers DEF COptionDecode, Back
  <2>5. CASE Around("1", NoAddr, v)
    <3>1. v.x = "1" /\ DOMAIN v.s = {1} BY <2>5, Shapes1
    <3>2. Back(v.s[1], c) BY <1>3, <3>1, FirstBack
    <3>3. r.ok /\ r.n = Node("1", NoAddr, <<c.n>>)
      BY <2>1, <2>3, <3>1, <3>2, Answers DEF COptionDecode, Wrapped, Back
    <3> QED BY <3>1, <3>2, <3>3, BackAround
  <2> QED BY <2>2, <2>4, <2>5
<1> QED BY <1>5, <1>6

(* Results with a tag, and co3's own. *)
LEMMA ResultBack ==
  ASSUME Setting, Stripping, NEW t \in Universe, t.k \in {"res", "cres"}, ~Borrowing(t),
         NEW v, IsValue(t, v), NEW w, Comes(t, v, w), NEW q, NEW su, NEW r, r = Decode(t, w, q, su)
  PROVE  Back(v, r)
<1>1. IsCarrier(t, w) /\ w.x = SentTag(t, v) BY DEF Comes
<1>2. r = DecodeRule(t, w, q, su) BY <1>1, DecodesByRule
<1>3. PICK c : c = DecodePart(t, w, q, 1) OBVIOUS
<1>4. ValueLayer(t, v) BY ValueIs
<1>5. CASE t.k = "res"
  <2>1. r = ResultTaggedDecode(w, c)
    BY <1>2, <1>3, <1>5 DEF DecodeRule, Structs, DataEnums, Fieldless, Borrowing
  <2>2. v.x \in {"Ok", "Err"} /\ DOMAIN v.s = {1} BY <1>4, <1>5, ValueLayers, Shapes1, ZenonT(60)
  <2>3. Back(v.s[1], c) BY <1>3, <2>2, FirstBack
  <2>4. w.x = IF v.x = "Err" THEN "1" ELSE "0" BY <1>1, <1>5, <2>2 DEF SentTag, ResultTag, ErrSide
  <2>5. r.ok /\ r.n = Node(v.x, NoAddr, <<c.n>>)
    BY <2>1, <2>2, <2>3, <2>4, Answers DEF ResultTaggedDecode, Wrapped, Back, OkV, ErrV
  <2> QED BY <2>2, <2>3, <2>5, BackAround
<1>6. CASE t.k = "cres"
  <2>1. r = CResultDecode(w, c) BY <1>2, <1>3, <1>6 DEF DecodeRule, Structs, DataEnums, Fieldless
  <2>2. v.x \in {"0", "1"} /\ DOMAIN v.s = {1} BY <1>4, <1>6, ValueLayers, Shapes1, ZenonT(60)
  <2>3. Back(v.s[1], c) BY <1>3, <2>2, FirstBack
  <2>4. w.x = v.x BY <1>1, <1>6 DEF SentTag
  <2>5. r.ok /\ r.n = Node(v.x, NoAddr, <<c.n>>)
    BY <2>1, <2>2, <2>3, <2>4, Answers DEF CResultDecode, Wrapped, Back
  <2> QED BY <2>2, <2>3, <2>5, BackAround
<1> QED BY <1>5, <1>6

(* Data enums: the tag selects the variant that was encoded, and its fields *)
(* come back.                                                               *)
LEMMA EnumBack ==
  ASSUME Setting, Stripping, NEW t \in Universe, t.k \in {"enum", "cenum"},
         NEW v, IsValue(t, v), NEW w, Comes(t, v, w), NEW q, NEW su, NEW r, r = Decode(t, w, q, su)
  PROVE  Back(v, r)
<1>1. IsCarrier(t, w) /\ w.x = SentTag(t, v) /\ DOMAIN w.s = DOMAIN v.s BY DEF Comes
<1>2. r = DecodeRule(t, w, q, su) BY <1>1, DecodesByRule
<1>3. PICK rs : rs = DecodeParts(t, w, q) OBVIOUS
<1>4. r = EnumDecode(t, w, rs) BY <1>2, <1>3 DEF DecodeRule, Structs, DataEnums, Fieldless
<1>5. KnownTag(t, w) /\ Selected(t, w) = v.x BY <1>1, TagBack
<1>6. DOMAIN rs = DOMAIN v.s BY <1>1, <1>3 DEF DecodeParts, Kids
<1>7. ASSUME NEW i \in DOMAIN v.s PROVE Back(v.s[i], rs[i])
  <2>1. rs[i] = Decode(Part(t, w, i), w.s[i], Append(q, i), DefaultDecodeStore(Part(t, w, i)))
    BY <1>1, <1>3 DEF DecodeParts, DecodePart, Kids
  <2>2. PartComes(Part(t, w, i), v.s[i], w.s[i]) BY DEF Comes
  <2> QED BY <2>1, <2>2 DEF PartComes
<1>8. ~Fails(rs) BY <1>6, <1>7 DEF Fails, Back
<1>9. r.ok /\ r.n = Node(v.x, NoAddr, Nodes(rs)) BY <1>4, <1>5, <1>8, Answers DEF EnumDecode
<1> QED BY <1>6, <1>7, <1>9, BackNodes

(* Enums without data. *)
LEMMA FieldlessBack ==
  ASSUME Setting, NEW t \in Universe, t.k \in {"inferred", "single"},
         NEW v, IsValue(t, v), NEW w, Comes(t, v, w), NEW q, NEW su, NEW r, r = Decode(t, w, q, su)
  PROVE  Back(v, r)
<1>1. IsCarrier(t, w) /\ w.x = SentTag(t, v) BY DEF Comes
<1>2. r = DecodeRule(t, w, q, su) BY <1>1, DecodesByRule
<1>3. ValueLayer(t, v) BY ValueIs
<1>4. CASE t.k = "single"
  <2>1. r = Kept(UnitV) BY <1>2, <1>4 DEF DecodeRule, SingleDecode, Structs, DataEnums, Fieldless
  <2>2. v = UnitV BY <1>3, <1>4, ValueLayers
  <2> QED BY <2>1, <2>2, BackKept
<1>5. CASE t.k = "inferred"
  <2>1. r = FieldlessDecode(t, w) BY <1>2, <1>5 DEF DecodeRule, Structs, DataEnums, Fieldless
  <2>2. KnownTag(t, w) /\ Selected(t, w) = v.x BY <1>1, <1>5, TagBack
  <2>3. Scalar(v) BY <1>3, <1>5, ValueLayers
  <2>4. v = Atom(v.x) BY <2>3, Shapes1
  <2> QED BY <2>1, <2>2, <2>4, BackKept DEF FieldlessDecode
<1> QED BY <1>4, <1>5

(* The types that convert as their field does. *)
LEMMA TransparentBack ==
  ASSUME Setting, Distinct, Stripping, NEW t \in Universe, t.k \in Transparent, ~Stable(t),
         \A j \in DOMAIN t.s : Returns(t.s[j])
  PROVE  Returns(t)
<1> SUFFICES ASSUME ~Declares(t), NEW v, NEW m, NEW st, NEW q, NEW su, NEW p \in Seq(Nat),
                    IsValue(t, v), Sole(v), Avoids(v, p)
             PROVE  Back(v, Decode(t, Encode(m, t, v, p, st).n, q, su))
  BY DEF Returns
<1>1. PICK r : r = Encode(m, t, v, p, st) OBVIOUS
<1>2. PICK w : w = r.n OBVIOUS
<1>3. IsCarrier(t, w) BY <1>1, <1>2, SentCarrier DEF Carries
<1>4. DOMAIN t.s = {1} /\ t.s[1] \in Universe BY Kind DEF Transparent
<1>5. ~Stable(t.s[1]) /\ ~Robust(t.s[1])
  <2>1. Stable(t) = StableRule(t) BY DEF Setting, Tied
  <2> QED BY <1>4, <2>1, RobustStable DEF StableRule, Transparent
<1>6. PICK k : r = Encode(k, t.s[1], v, p, st) BY <1>1, <1>5, TransparentSends
<1>7. IsValue(t.s[1], v)
  <2>1. ValueLayer(t, v) BY ValueIs
  <2> QED BY <2>1, ValueLayers DEF Transparent, Elem
<1>8. PICK d : d = Decode(t, w, q, su) OBVIOUS
<1>9. d = Decode(t.s[1], w, q, su)
  <2>1. d = DecodeRule(t, w, q, su) BY <1>3, <1>8, DecodesByRule
  <2> QED BY <1>5, <2>1 DEF DecodeRule, Transparent, Structs, DataEnums, Fieldless, ManualDecode, NewtypeDecode,
                            CellDecode, UnsafeCellDecode, Elem
<1>10. ~Declares(t.s[1]) /\ Returns(t.s[1]) BY <1>4, DeclaresNot
<1>11. Back(v, Decode(t.s[1], Encode(k, t.s[1], v, p, st).n, q, su)) BY <1>7, <1>10, ReturnsOf
<1> QED BY <1>1, <1>2, <1>6, <1>8, <1>9, <1>11

(* Options and results with a niche: it is sent for exactly the variant it *)
(* is decoded to, and the carrier of a payload is never taken for it.      *)
LEMMA NicheBack ==
  ASSUME Setting, Distinct, Stripping, NEW t \in Universe, Borrowing(t), t.k \notin Transparent, ~Declares(t),
         \A j \in DOMAIN t.s : Returns(t.s[j]),
         NEW v, IsValue(t, v), Sole(v), NEW p \in Seq(Nat), Avoids(v, p), NEW w, NicheSent(t, v, p, w), IsCarrier(t, w),
         NEW q, NEW su, NEW r, r = Decode(t, w, q, su)
  PROVE  Back(v, r)
<1>1. r = DecodeRule(t, w, q, su) BY DecodesByRule
<1>2. ValueLayer(t, v) BY ValueIs
<1> DEFINE u == Niched(t)
<1>3. /\ t.k \in {"opt", "res"} /\ u \in Universe /\ HasNiche(u) /\ Returns(u) /\ ~Declares(u)
      /\ t.k = "opt" => NicheOption(t) /\ u = t.s[1]
      /\ t.k = "res" => OkNiche(t) \/ ErrNiche(t)
  <2>1. PICK j \in DOMAIN t.s : u = t.s[j] BY NichedKnown
  <2> QED BY <2>1, NichedKnown, DeclaresNot
<1>4. t.k = "res" => (OkNiche(t) => u = t.s[1]) /\ (~OkNiche(t) => u = t.s[2]) BY DEF Niched
<1> DEFINE whole(c) == IF t.k = "opt" THEN SomeV(c.n) ELSE IF OkNiche(t) THEN OkV(c.n) ELSE ErrV(c.n)
           bare == IF t.k = "opt" THEN NoneV ELSE IF OkNiche(t) THEN ErrV(UnitV) ELSE OkV(UnitV)
<1>5. \E x, c, s : c = Decode(u, w, q, x) /\
        IF IsNiche(u, w) THEN r.ok /\ r.n = bare ELSE r = Wrapped(c, whole(c), s)
  <2>1. CASE t.k = "opt"
    <3>1. PICK c : c = Decode(u, w, q, DefaultDecodeStore(u)) OBVIOUS
    <3>2. r = IF IsNiche(u, w) THEN Kept(NoneV) ELSE Wrapped(c, SomeV(c.n), Within("opt", <<c.st>>))
      BY <1>1, <1>3, <2>1, <3>1 DEF DecodeRule, OptionNicheDecode, Structs, DataEnums, Fieldless, Elem
    <3>3. IF IsNiche(u, w) THEN r.ok /\ r.n = bare ELSE r = Wrapped(c, whole(c), Within("opt", <<c.st>>))
      BY <2>1, <3>2, Answers
    <3> QED BY <3>1, <3>3
  <2>2. CASE t.k = "res" /\ OkNiche(t)
    <3>1. PICK c : c = Decode(u, w, q, su) OBVIOUS
    <3>5. ~ErrNiche(t) BY <2>2 DEF OkNiche, ErrNiche
    <3>4. r = OkNicheDecode(t, w, c, su)
      BY <1>1, <1>4, <2>2, <3>1, <3>5 DEF DecodeRule, Structs, DataEnums, Fieldless
    <3>2. r = IF IsNiche(u, w) THEN Answer(ErrV(UnitV), {}, {}, su) ELSE Wrapped(c, OkV(c.n), c.st)
      BY <1>4, <2>2, <3>4 DEF OkNicheDecode
    <3>3. IF IsNiche(u, w) THEN r.ok /\ r.n = bare ELSE r = Wrapped(c, whole(c), c.st)
      BY <2>2, <3>2, Answers
    <3> QED BY <3>1, <3>3
  <2>3. CASE t.k = "res" /\ ~OkNiche(t)
    <3>1. PICK c : c = Decode(u, w, q, su) OBVIOUS
    <3>2. r = IF IsNiche(u, w) THEN Answer(OkV(UnitV), {}, {}, su) ELSE Wrapped(c, ErrV(c.n), c.st)
      BY <1>1, <1>3, <1>4, <2>3, <3>1 DEF DecodeRule, ErrNicheDecode, Structs, DataEnums, Fieldless
    <3>3. IF IsNiche(u, w) THEN r.ok /\ r.n = bare ELSE r = Wrapped(c, whole(c), c.st)
      BY <2>3, <3>2, Answers
    <3> QED BY <3>1, <3>3
  <2> QED BY <1>3, <2>1, <2>2, <2>3
<1>6. CASE Elided(t, v)
  <2>1. w = NicheOf(u) BY <1>6 DEF NicheSent
  <2>2. IsNiche(u, w) BY <1>3, <2>1, NichesKnown DEF NicheKnown
  <2>3. r.ok /\ r.n = bare BY <1>5, <2>2
  <2>4. v = bare
    <3>1. CASE t.k = "opt"
      <4>1. v.x = "None" BY <1>6, <3>1 DEF Elided
      <4>2. v = NoneV \/ Around("Some", NoAddr, v) BY <1>2, <3>1, ValueLayers
      <4> QED BY <3>1, <4>1, <4>2, Shapes1
    <3>2. CASE t.k = "res"
      <4>1. v.x = IF OkNiche(t) THEN "Err" ELSE "Ok" BY <1>6, <3>2 DEF Elided
      <4>2. Around("Ok", NoAddr, v) \/ Around("Err", NoAddr, v) BY <1>2, <3>2, ValueLayers
      <4>3. DOMAIN v.s = {1} BY <4>2, Shapes1
      <4>4. \E m, st, d : d = Encode(m, t, v, p, st) BY <1>3
      <4>5. v.s[1] = UnitV
        <5>1. PICK m, st, d : d = Encode(m, t, v, p, st) BY <4>4
        <5> QED BY <1>3, <1>6, <3>2, <5>1, NicheEncoding
      <4>6. v = Node(v.x, NoAddr, <<v.s[1]>>) BY <4>1, <4>2, Shapes1 DEF Around
      <4> QED BY <3>2, <4>1, <4>5, <4>6 DEF OkV, ErrV
    <3> QED BY <1>3, <3>1, <3>2
  <2> QED BY <2>3, <2>4 DEF Back
<1>7. CASE ~Elided(t, v)
  <2>1. DOMAIN v.s = {1} /\ Part(t, v, 1) = u BY <1>7 DEF NicheSent
  <2>2. PICK k : w = Encode(k, u, v.s[1], Append(p, 1), NoStore).n BY <1>7 DEF NicheSent
  <2>3. PICK a, b : a = Append(p, 1) /\ b = v.s[1] OBVIOUS
  <2>4. IsValue(u, b) /\ Sole(b) /\ a \in Seq(Nat) /\ Avoids(b, a) BY <2>1, <2>3, PartSent
  <2>5. PICK x, c, s : c = Decode(u, w, q, x) /\
          IF IsNiche(u, w) THEN r.ok /\ r.n = bare ELSE r = Wrapped(c, whole(c), s)
    BY <1>5
  <2>6. w = Encode(k, u, b, a, NoStore).n BY <2>2, <2>3
  <2>7. Back(b, Decode(u, Encode(k, u, b, a, NoStore).n, q, x)) BY <1>3, <2>4, ReturnsOf
  <2>8. Back(b, c) BY <2>5, <2>6, <2>7
  <2>9. IsCarrier(u, w) BY <1>3, <2>4, <2>6, SentCarrier DEF Carries
  <2>10. ~IsNiche(u, w) BY <1>3, <2>5, <2>8, <2>9, NichesRefused DEF Refuses, Back
  <2>11. r.ok /\ r.n = whole(c) BY <2>5, <2>8, <2>10, Answers DEF Wrapped, Back
  <2>12. v.x = IF t.k = "opt" THEN "Some" ELSE IF OkNiche(t) THEN "Ok" ELSE "Err"
    <3>1. CASE t.k = "opt"
      <4>1. v = NoneV \/ Around("Some", NoAddr, v) BY <1>2, <3>1, ValueLayers
      <4> QED BY <1>7, <3>1, <4>1, Shapes1 DEF Elided
    <3>2. CASE t.k = "res"
      <4>1. Around("Ok", NoAddr, v) \/ Around("Err", NoAddr, v) BY <1>2, <3>2, ValueLayers
      <4> QED BY <1>7, <3>2, <4>1, Shapes1 DEF Elided
    <3> QED BY <1>3, <3>1, <3>2
  <2>13. r.n = Node(v.x, NoAddr, <<c.n>>) BY <1>3, <2>11, <2>12 DEF SomeV, OkV, ErrV
  <2> QED BY <2>1, <2>3, <2>8, <2>11, <2>13, BackAround
<1> QED BY <1>6, <1>7

(* What is encoded is decoded again, for every owned type in which no struct *)
(* declares its own niche: such a struct has a value that is the niche,      *)
(* which validation refuses behind a box.                                    *)
THEOREM AllReturn ==
  ASSUME Setting, Distinct, Stripping
  PROVE  \A t \in Universe : Returns(t)
<1> DEFINE G == {t \in Universe : Returns(t)}
<1>1. ASSUME NEW t \in Universe, \A i \in DOMAIN t.s : t.s[i] \in G PROVE t \in G
  <2>1. \A i \in DOMAIN t.s : Returns(t.s[i]) BY <1>1
  <2> SUFFICES Returns(t) OBVIOUS
  <2> HIDE DEF G
  <2>2. CASE Stable(t) BY <2>2, ReturnsStable
  <2>3. CASE ~Stable(t) /\ t.k \in Transparent BY <2>1, <2>3, TransparentBack
  <2>4. CASE ~Stable(t) /\ t.k \notin Transparent
    <3> SUFFICES ASSUME ~Declares(t), NEW v, NEW m, NEW st, NEW q, NEW su, NEW p \in Seq(Nat),
                        IsValue(t, v), Sole(v), Avoids(v, p)
                 PROVE  Back(v, Decode(t, Encode(m, t, v, p, st).n, q, su))
      BY DEF Returns
    <3>1. PICK e, w, r : e = Encode(m, t, v, p, st) /\ w = e.n /\ r = Decode(t, w, q, su) OBVIOUS
    <3>2. IsCarrier(t, w) BY <3>1, SentCarrier DEF Carries
    <3>3. CASE Borrowing(t)
      <4>1. NicheSent(t, v, p, w) BY <2>4, <3>1, <3>3, NicheSends
      <4>2. Back(v, r) BY <2>1, <2>4, <3>1, <3>2, <3>3, <4>1, NicheBack
      <4> QED BY <3>1, <4>2
    <3>4. CASE ~Borrowing(t)
      <4>1. Comes(t, v, w) BY <2>1, <2>4, <3>1, <3>4, EncodingComes
      <4>2. t.k \notin {"int", "bool", "nz", "unit", "tags", "exhaustive", "identity", "trap"}
        <5>1. Stable(t) = StableRule(t) BY DEF Setting, Tied
        <5>2. t.k = "identity" => Stable(t)
          <6>1. t.k = "identity" => \A i \in DOMAIN t.s : t.s[i] = Integer /\ t.s[i] \in Universe BY Kind
          <6>2. Integer \in Universe => Stable(Integer) BY DEF Setting, Tied, StableRule, Integer, Ty
          <6> QED BY <5>1, <6>1, <6>2 DEF StableRule
        <5> QED BY <2>4, <5>1, <5>2, DeclaresNot DEF StableRule
      <4>3. \/ t.k = "box" \/ t.k \in {"slice", "vec"} \/ t.k \in {"opt", "copt"} \/ t.k \in {"res", "cres"}
            \/ t.k \in {"enum", "cenum"} \/ t.k \in {"inferred", "single"}
            \/ t.k \in {"tup", "arr", "onevariant"} \cup Structs
        BY <2>4, <4>2, Kind DEF Structs, Transparent
      <4>4. Back(v, r)
        <5>1. CASE t.k = "box" BY <2>4, <3>1, <4>1, <5>1, BoxBack
        <5>2. CASE t.k \in {"slice", "vec"} BY <2>4, <3>1, <4>1, <5>2, BufferBack
        <5>3. CASE t.k \in {"opt", "copt"} BY <3>1, <3>4, <4>1, <5>3, OptionBack
        <5>4. CASE t.k \in {"res", "cres"} BY <3>1, <3>4, <4>1, <5>4, ResultBack
        <5>5. CASE t.k \in {"enum", "cenum"} BY <3>1, <4>1, <5>5, EnumBack
        <5>6. CASE t.k \in {"inferred", "single"} BY <3>1, <4>1, <5>6, FieldlessBack
        <5>7. CASE t.k \in {"tup", "arr", "onevariant"} \cup Structs BY <2>4, <3>1, <4>1, <5>7, PairBack
        <5> QED BY <4>3, <5>1, <5>2, <5>3, <5>4, <5>5, <5>6, <5>7
      <4> QED BY <3>1, <4>4
    <3> QED BY <3>3, <3>4
  <2> QED BY <2>2, <2>3, <2>4
<1> HIDE DEF G
<1>2. Universe \subseteq G BY <1>1, RankInduction DEF Setting
<1> QED BY <1>2 DEF G

-----------------------------------------------------------------------------
(* What arrives. *)

(* The addresses a value lies at and is encoded at: the first ones, or those *)
(* of the value encoded again.                                               *)
Named(at, to) == (at = CallerAt /\ to = EncAt) \/ (at = AgainAt /\ to = EncAgainAt)

(* The carrier on the wire encodes the caller's value. *)
EncodedFrom(at, to, st) ==
  /\ Named(at, to) /\ IsValue(ty, val) /\ Sole(val) /\ Allocs(val) \subseteq Under(at)
  /\ wire = Encode(mode, ty, val, to, st).n

(* Between Rust sides, the wire carries the encoding of the caller's value *)
(* until the callee edits it.                                              *)
Told ==
  ty \in Universe /\ phase \in {"sent", "held", "refused"} /\ foreign = "none" =>
    \E at, to, st : EncodedFrom(at, to, st)

(* What encoding allocates is at none of the value's addresses. *)
LEMMA NamedApart ==
  ASSUME NEW at, NEW to, Named(at, to)
  PROVE  to \in Seq(Nat) /\ Under(at) \cap Under(to) = {} /\ Under(at) \cap Under(EncAt) = {}
<1>1. Under(AgainAt) \cap Under(EncAt) = {}
  <2>1. ASSUME NEW i \in Nat, NEW a \in Under(<<i>>) PROVE a[1] = i
    <3>1. <<i>> \in Seq(Nat) /\ Len(<<i>>) = 1 /\ <<i>>[1] = i OBVIOUS
    <3>2. \A j \in 1..1 : a[j] = <<i>>[j] BY <2>1, <3>1 DEF Under
    <3> QED BY <3>1, <3>2
  <2>2. (\A a \in Under(AgainAt) : a[1] = 12) /\ (\A a \in Under(EncAt) : a[1] = 13) BY <2>1 DEF AgainAt, EncAt
  <2> QED BY <2>2
<1>2. CASE at = CallerAt /\ to = EncAt BY <1>2, Addresses
<1>3. CASE at = AgainAt /\ to = EncAgainAt BY <1>1, <1>3, Addresses
<1> QED BY <1>2, <1>3 DEF Named

(* Every step keeps Told. *)
LEMMA ToldStep ==
  ASSUME Supplied PROVE IInv /\ Told /\ [Next]_vars => Told'
<1> SUFFICES ASSUME IInv, Told, [Next]_vars PROVE Told' OBVIOUS
<1>1. CASE EncodeValue
  <2> SUFFICES ASSUME ty' \in Universe PROVE \E at, to, st : EncodedFrom(at, to, st)' BY DEF Told
  <2>1. /\ phase = "start" /\ wire' = Encode(mode, ty, val, EncAt, NoStore).n /\ ty' = ty /\ val' = val /\ mode' = mode
    BY <1>1 DEF EncodeValue
  <2>2. IsValue(ty, val) /\ Sole(val) /\ Allocs(val) \subseteq Under(CallerAt) BY <2>1 DEF IInv, Carried
  <2>3. EncodedFrom(CallerAt, EncAt, NoStore)' BY <2>1, <2>2 DEF EncodedFrom, Named
  <2> QED BY <2>3
<1>2. CASE EncodeAgain
  <2> SUFFICES ASSUME ty' \in Universe PROVE \E at, to, st : EncodedFrom(at, to, st)' BY DEF Told
  <2>1. /\ val' \in Values(ty, AgainAt) /\ wire' = Encode(mode, ty, val', EncAgainAt, enc.st).n
        /\ ty' = ty /\ mode' = mode
    BY <1>2 DEF EncodeAgain
  <2>2. IsValue(ty, val') /\ Sole(val') /\ Allocs(val') \subseteq Under(AgainAt) BY <2>1 DEF Supplied
  <2>3. PICK s : s = enc.st OBVIOUS
  <2>4. wire' = Encode(mode', ty', val', EncAgainAt, s).n BY <2>1, <2>3
  <2>5. \E at, to, st : /\ Named(at, to) /\ IsValue(ty', val') /\ Sole(val') /\ Allocs(val') \subseteq Under(at)
                        /\ wire' = Encode(mode', ty', val', to, st).n
    BY <2>1, <2>2, <2>4 DEF Named
  <2> QED BY <2>5 DEF EncodedFrom
<1>3. CASE ForeignCall
  <2>1. foreign' = "caller" BY <1>3 DEF ForeignCall
  <2> QED BY <2>1 DEF Told
<1>4. CASE Receive
  <2>1. /\ ty' = ty /\ mode' = mode /\ foreign' = foreign /\ val' = val /\ wire' = wire /\ phase = "sent" BY <1>4 DEF Receive
  <2> QED BY <2>1 DEF Told, EncodedFrom, Named
<1>5. CASE ForeignEdit \/ Edit \/ SyncCallee \/ SyncCaller
  <2>1. phase' \in {"returned", "edited", "done"} BY <1>5 DEF ForeignEdit, Edit, SyncCallee, SyncCaller
  <2> QED BY <2>1 DEF Told
<1>6. CASE UNCHANGED vars BY <1>6 DEF vars, Told, EncodedFrom, Named
<1> QED BY <1>1, <1>2, <1>3, <1>4, <1>5, <1>6 DEF Next

(* Told is an invariant, relative to the one of the exchange. *)
LEMMA ToldAlways ==
  ASSUME Setting, Distinct, Supplied PROVE Spec => []Told
<1>1. Init => Told BY DEF Init, Told
<1>2. IInv /\ Told /\ [Next]_vars => Told' BY ToldStep
<1> QED BY <1>1, <1>2, ExchangeInvariant, PTL DEF Spec

(* TwinsAgree, for every owned type: unchecked callers send what checked *)
(* ones send.                                                            *)
THEOREM SameCarrierEitherWay ==
  ASSUME Setting, Distinct, Supplied, Stripping
  PROVE  Spec => [](ty \in Universe => TwinsAgree)
<1>1. Told => (ty \in Universe => TwinsAgree)
  <2> SUFFICES ASSUME Told, ty \in Universe, phase = "sent", foreign = "none", NEW m
               PROVE  Strip(wire) = Strip(Encode(m, ty, val, EncAt, NoStore).n)
    BY DEF TwinsAgree
  <2>1. PICK at, to, st : EncodedFrom(at, to, st) BY DEF Told
  <2>2. /\ Named(at, to) /\ IsValue(ty, val) /\ Sole(val) /\ Allocs(val) \subseteq Under(at)
        /\ wire = Encode(mode, ty, val, to, st).n
    BY <2>1 DEF EncodedFrom
  <2>3. EncAt \in Seq(Nat) /\ to \in Seq(Nat) /\ Avoids(val, to) /\ Avoids(val, EncAt)
    BY <2>2, NamedApart, Addresses DEF Avoids
  <2>4. Twins(ty) BY AllTwins
  <2>5. PICK d, e : d = Encode(mode, ty, val, to, st) /\ e = Encode(m, ty, val, EncAt, NoStore) OBVIOUS
  <2>6. Strip(d.n) = Strip(e.n) BY <2>2, <2>3, <2>4, <2>5, TwinOf
  <2> QED BY <2>2, <2>5, <2>6
<1> QED BY <1>1, ToldAlways, PTL

(* RoundTrip, for every owned type without such a struct: what the caller *)
(* encodes the callee decodes, and never refuses.                         *)
THEOREM ValuesArrive ==
  ASSUME Setting, Distinct, Supplied, Stripping
  PROVE  Spec => [](ty \in Universe /\ ~Declares(ty) => RoundTrip)
<1>1. Told /\ Heard => (ty \in Universe /\ ~Declares(ty) => RoundTrip)
  <2> SUFFICES ASSUME Told, Heard, ty \in Universe, ~Declares(ty), foreign = "none", phase \in {"held", "refused"}
               PROVE  Back(val, dec)
    BY DEF RoundTrip, Back
  <2>1. PICK at, to, st : EncodedFrom(at, to, st) BY DEF Told
  <2>2. /\ Named(at, to) /\ IsValue(ty, val) /\ Sole(val) /\ Allocs(val) \subseteq Under(at)
        /\ wire = Encode(mode, ty, val, to, st).n
    BY <2>1 DEF EncodedFrom
  <2>3. to \in Seq(Nat) /\ Avoids(val, to) BY <2>2, NamedApart DEF Avoids
  <2>4. dec = Decode(ty, wire, DecAt, DefaultDecodeStore(ty)) BY DEF Heard
  <2>5. Returns(ty) BY AllReturn
  <2>6. Back(val, Decode(ty, Encode(mode, ty, val, to, st).n, DecAt, DefaultDecodeStore(ty)))
    BY <2>2, <2>3, <2>5, ReturnsOf
  <2> QED BY <2>2, <2>4, <2>6
<1> QED BY <1>1, ToldAlways, HeardAlways, PTL

-----------------------------------------------------------------------------
(* A decoder's verdict depends on neither address nor store. *)

(* Two answers of one verdict and, when accepted, one variant. *)
Agree(r, s) == (r.ok <=> s.ok) /\ (r.ok => r.n.x = s.n.x)

(* The verdict on a carrier depends on neither the address nor the store the *)
(* decoder is given.                                                         *)
Decides(t) ==
  \A w : IsCarrier(t, w) => \A p, st, q, su : Agree(Decode(t, w, p, st), Decode(t, w, q, su))

(* The case of a component. *)
LEMMA DecidesPart ==
  ASSUME Setting, NEW t \in Universe, NEW w, IsCarrier(t, w), ~Borrowing(t), Readable(t, w),
         \A j \in DOMAIN t.s : Decides(t.s[j]), NEW i \in DOMAIN w.s, NEW p, NEW st, NEW q, NEW su
  PROVE  Agree(Decode(Part(t, w, i), w.s[i], p, st), Decode(Part(t, w, i), w.s[i], q, su))
<1>1. PICK j \in DOMAIN t.s : Part(t, w, i) = t.s[j] BY Parts
<1>2. IsCarrier(Part(t, w, i), w.s[i]) BY CarrierShape
<1>3. Decides(Part(t, w, i)) BY <1>1
<1> QED BY <1>2, <1>3 DEF Decides

(* Around a payload. *)
LEMMA AgreeWrapped ==
  ASSUME NEW r, NEW s, Agree(r, s), NEW x, NEW st, NEW su
  PROVE  Agree(Wrapped(r, Node(x, NoAddr, <<r.n>>), st), Wrapped(s, Node(x, NoAddr, <<s.n>>), su))
<1>1. CASE r.ok
  <2>1. s.ok BY <1>1 DEF Agree
  <2>2. /\ Wrapped(r, Node(x, NoAddr, <<r.n>>), st) = Answer(Node(x, NoAddr, <<r.n>>), r.new, r.old, st)
        /\ Wrapped(s, Node(x, NoAddr, <<s.n>>), su) = Answer(Node(x, NoAddr, <<s.n>>), s.new, s.old, su)
    BY <1>1, <2>1 DEF Wrapped
  <2> QED BY <2>2, Answers, Nodes1 DEF Agree
<1>2. CASE ~r.ok
  <2>1. ~s.ok BY <1>2 DEF Agree
  <2> QED BY <1>2, <2>1 DEF Wrapped, Agree
<1> QED BY <1>1, <1>2

(* Types decoded without their components. *)
LEMMA DecidesAlone ==
  ASSUME Setting, NEW t \in Universe,
         t.k \in {"int", "bool", "nz", "unit", "single", "identity"} \cup Fieldless
                 \/ (t.k \in Buffers /\ Stable(t.s[1]))
  PROVE  Decides(t)
<1> SUFFICES ASSUME NEW w, IsCarrier(t, w), NEW p, NEW st, NEW q, NEW su
             PROVE  Agree(Decode(t, w, p, st), Decode(t, w, q, su))
  BY DEF Decides
<1> DEFINE r == Decode(t, w, p, st)
           s == Decode(t, w, q, su)
<1>1. r = DecodeRule(t, w, p, st) /\ s = DecodeRule(t, w, q, su) BY DecodesByRule
<1>2. r = s
  <2>1. CASE t.k \in {"int", "unit", "bool", "nz"} \cup Fieldless
    BY <1>1, <2>1 DEF DecodeRule, Structs, DataEnums, Fieldless
  <2>2. CASE t.k \in {"single", "identity"}
    BY <1>1, <2>2 DEF DecodeRule, Structs, DataEnums, Fieldless
  <2>3. CASE t.k \in Buffers /\ Stable(t.s[1])
    BY <1>1, <2>3 DEF DecodeRule, Structs, DataEnums, Fieldless, Buffers, Elem
  <2> QED BY <2>1, <2>2, <2>3
<1> QED BY <1>2 DEF Agree

(* The types that convert as their field does. *)
LEMMA DecidesTransparent ==
  ASSUME Setting, NEW t \in Universe, t.k \in Transparent, \A j \in DOMAIN t.s : Decides(t.s[j])
  PROVE  Decides(t)
<1> SUFFICES ASSUME NEW w, IsCarrier(t, w), NEW p, NEW st, NEW q, NEW su
             PROVE  Agree(Decode(t, w, p, st), Decode(t, w, q, su))
  BY DEF Decides
<1> DEFINE r == Decode(t, w, p, st)
           s == Decode(t, w, q, su)
<1>1. r = DecodeRule(t, w, p, st) /\ s = DecodeRule(t, w, q, su) BY DecodesByRule
<1>2. DOMAIN t.s = {1} BY Kind DEF Transparent
<1>3. IsCarrier(t.s[1], w) BY TransparentCarrier DEF Elem
<1>4. Agree(Decode(t.s[1], w, p, st), Decode(t.s[1], w, q, su)) BY <1>2, <1>3 DEF Decides
<1>5. CASE t.k \in {"md", "newtype"} \/ ~Robust(t.s[1])
  <2>1. r = Decode(t.s[1], w, p, st) /\ s = Decode(t.s[1], w, q, su)
    BY <1>1, <1>5 DEF DecodeRule, Structs, DataEnums, Fieldless, Transparent, ManualDecode, NewtypeDecode,
                      CellDecode, UnsafeCellDecode, Elem
  <2> QED BY <1>4, <2>1
<1>6. CASE t.k = "cell" /\ Robust(t.s[1])
  <2>1. r = Kept(w) /\ s = Kept(w)
    BY <1>1, <1>6 DEF DecodeRule, Structs, DataEnums, Fieldless, CellDecode, Elem
  <2> QED BY <2>1 DEF Agree
<1> QED BY <1>5, <1>6 DEF Transparent

(* Whether some component is refused is no matter of addresses. *)
LEMMA AgreeParts ==
  ASSUME Setting, NEW t \in Universe, NEW w, IsCarrier(t, w), ~Borrowing(t), Readable(t, w),
         \A j \in DOMAIN t.s : Decides(t.s[j]), NEW rs, NEW ss, DOMAIN rs = DOMAIN w.s, DOMAIN ss = DOMAIN w.s,
         \A i \in DOMAIN w.s : \E p, st : rs[i] = Decode(Part(t, w, i), w.s[i], p, st),
         \A i \in DOMAIN w.s : \E p, st : ss[i] = Decode(Part(t, w, i), w.s[i], p, st)
  PROVE  (Fails(rs) <=> Fails(ss)) /\ \A i \in DOMAIN w.s : Agree(rs[i], ss[i])
<1>1. ASSUME NEW i \in DOMAIN w.s PROVE Agree(rs[i], ss[i])
  <2>1. PICK p, st : rs[i] = Decode(Part(t, w, i), w.s[i], p, st) OBVIOUS
  <2>2. PICK q, su : ss[i] = Decode(Part(t, w, i), w.s[i], q, su) OBVIOUS
  <2>3. Agree(Decode(Part(t, w, i), w.s[i], p, st), Decode(Part(t, w, i), w.s[i], q, su)) BY DecidesPart
  <2> QED BY <2>1, <2>2, <2>3
<1> QED BY <1>1 DEF Agree, Fails

(* Boxes, boxed slices and vectors decoded element by element. *)
LEMMA DecidesPointer ==
  ASSUME Setting, NEW t \in Universe, t.k \in Buffers, ~Stable(t.s[1]), \A j \in DOMAIN t.s : Decides(t.s[j])
  PROVE  Decides(t)
<1> SUFFICES ASSUME NEW w, IsCarrier(t, w), NEW p, NEW st, NEW q, NEW su
             PROVE  Agree(Decode(t, w, p, st), Decode(t, w, q, su))
  BY DEF Decides
<1> DEFINE r == Decode(t, w, p, st)
           s == Decode(t, w, q, su)
<1>1. r = DecodeRule(t, w, p, st) /\ s = DecodeRule(t, w, q, su) BY DecodesByRule
<1>2. ~Borrowing(t) /\ Readable(t, w) BY DEF Borrowing, Transparent, Readable, DataEnums, Buffers
<1>3. CASE t.k = "box"
  <2> DEFINE c == Decode(t.s[1], w.s[1], Append(p, 1), Sub(st, 1))
             d == Decode(t.s[1], w.s[1], Append(q, 1), Sub(su, 1))
  <2>1. r = BoxUnstableDecode(w, p, c) /\ s = BoxUnstableDecode(w, q, d)
    BY <1>1, <1>3 DEF DecodeRule, Structs, DataEnums, Fieldless, Elem
  <2>2. CASE w.a = NoAddr BY <2>1, <2>2, Answers DEF BoxUnstableDecode, Agree
  <2>3. CASE w.a # NoAddr
    <3>1. w = Null \/ Pointing("box", w)
      <4>1. CarrierLayer(t, w) BY CarrierIs
      <4> QED BY <1>3, <4>1, CarrierLayers
    <3>2. 1 \in DOMAIN w.s BY <2>3, <3>1, Shapes1
    <3>3. Part(t, w, 1) = t.s[1] BY <1>3, PartsOf
    <3>4. Agree(c, d) BY <1>2, <3>2, <3>3, DecidesPart
    <3> HIDE DEF c, d
    <3> QED BY <2>1, <2>3, <3>4, Answers, Nodes1 DEF BoxUnstableDecode, Agree
  <2> QED BY <2>2, <2>3
<1>4. CASE t.k \in {"slice", "vec"}
  <2> DEFINE rs == DecodeParts(t, w, p)
             ss == DecodeParts(t, w, q)
  <2>1. /\ r = VecUnstableDecode(t, w, p, rs) \/ (w.a = NoAddr /\ r = Refused({}, {}))
        /\ s = VecUnstableDecode(t, w, q, ss) \/ (w.a = NoAddr /\ s = Refused({}, {}))
    BY <1>1, <1>4 DEF DecodeRule, Structs, DataEnums, Fieldless, Elem, StdVecDecode, BoxDstDecode, DecodeBoxOwned
  <2>2. /\ DOMAIN rs = DOMAIN w.s /\ \A i \in DOMAIN w.s : \E a, x : rs[i] = Decode(Part(t, w, i), w.s[i], a, x)
        /\ DOMAIN ss = DOMAIN w.s /\ \A i \in DOMAIN w.s : \E a, x : ss[i] = Decode(Part(t, w, i), w.s[i], a, x)
    BY DEF DecodeParts, DecodePart, Kids
  <2> HIDE DEF rs, ss
  <2>3. Fails(rs) <=> Fails(ss) BY <1>2, <2>2, AgreeParts
  <2>4. CASE ~IntoVec(w) BY <2>1, <2>4, Answers DEF VecUnstableDecode, Agree
  <2>5. CASE IntoVec(w)
    <3>1. r = DecodeVecElements(t, w, p, rs) /\ s = DecodeVecElements(t, w, q, ss)
      BY <2>1, <2>5 DEF VecUnstableDecode, IntoVec
    <3>2. CASE Fails(rs) BY <2>3, <3>1, <3>2, Answers DEF DecodeVecElements, RefuseVisited, Agree
    <3>3. CASE ~Fails(rs) BY <2>3, <3>1, <3>3, Answers, Nodes1 DEF DecodeVecElements, Agree
    <3> QED BY <3>2, <3>3
  <2> QED BY <2>4, <2>5
<1> QED BY <1>3, <1>4 DEF Buffers

(* Options and results with a tag. *)
LEMMA DecidesTagged ==
  ASSUME Setting, NEW t \in Universe, ~Borrowing(t), t.k \in {"opt", "copt", "res", "cres"},
         \A j \in DOMAIN t.s : Decides(t.s[j])
  PROVE  Decides(t)
<1> SUFFICES ASSUME NEW w, IsCarrier(t, w), NEW p, NEW st, NEW q, NEW su
             PROVE  Agree(Decode(t, w, p, st), Decode(t, w, q, su))
  BY DEF Decides
<1> DEFINE r == Decode(t, w, p, st)
           s == Decode(t, w, q, su)
           c == DecodePart(t, w, p, 1)
           d == DecodePart(t, w, q, 1)
<1>1. r = DecodeRule(t, w, p, st) /\ s = DecodeRule(t, w, q, su) BY DecodesByRule
<1>2. /\ t.k = "opt" => ~NicheOption(t)
      /\ t.k = "res" => ~OkNiche(t) /\ ~ErrNiche(t)
  BY DEF Borrowing
<1>3. /\ t.k = "opt" => r = OptionTaggedDecode(w, c) /\ s = OptionTaggedDecode(w, d)
      /\ t.k = "copt" => r = COptionDecode(w, c) /\ s = COptionDecode(w, d)
      /\ t.k = "res" => r = ResultTaggedDecode(w, c) /\ s = ResultTaggedDecode(w, d)
      /\ t.k = "cres" => r = CResultDecode(w, c) /\ s = CResultDecode(w, d)
  BY <1>1, <1>2 DEF DecodeRule, Structs, DataEnums, Fieldless
<1>4. /\ t.k \in {"opt", "copt"} => (Scalar(w) /\ w.x # "1") \/ Around("1", NoAddr, w)
      /\ t.k \in {"res", "cres"} => TagAndPayload({"0", "1"}, w)
  <2>1. CarrierLayer(t, w) BY CarrierIs
  <2> QED BY <1>2, <2>1, CarrierLayers
<1>5. CASE w.x = "1" \/ (w.x = "0" /\ t.k \in {"res", "cres"})
  <2>1. 1 \in DOMAIN w.s
    <3>1. CASE t.k \in {"opt", "copt"} BY <1>4, <1>5, <3>1, Shapes1
    <3>2. CASE t.k \in {"res", "cres"} BY <1>4, <1>5, <3>2, TaggedShape
    <3> QED BY <3>1, <3>2
  <2>2. Readable(t, w) BY <1>5 DEF Readable, DataEnums
  <2>3. Agree(c, d) BY <2>1, <2>2, DecidesPart DEF DecodePart
  <2> HIDE DEF c, d
  <2>4. \E x, y, z : r = Wrapped(c, Node(x, NoAddr, <<c.n>>), y) /\ s = Wrapped(d, Node(x, NoAddr, <<d.n>>), z)
    <3>1. CASE t.k = "opt" BY <1>3, <1>5, <3>1 DEF OptionTaggedDecode, SomeV
    <3>2. CASE t.k = "copt" BY <1>3, <1>5, <3>2 DEF COptionDecode
    <3>3. CASE t.k = "res" /\ w.x = "0" BY <1>3, <3>3 DEF ResultTaggedDecode, OkV
    <3>4. CASE t.k = "res" /\ w.x = "1" BY <1>3, <3>4 DEF ResultTaggedDecode, ErrV
    <3>5. CASE t.k = "cres" BY <1>3, <1>5, <3>5 DEF CResultDecode
    <3> QED BY <1>5, <3>1, <3>2, <3>3, <3>4, <3>5
  <2> QED BY <2>3, <2>4, AgreeWrapped
<1>6. CASE ~(w.x = "1" \/ (w.x = "0" /\ t.k \in {"res", "cres"}))
  <2> HIDE DEF c, d
  <2>1. r = s
    <3>1. CASE t.k = "opt" BY <1>3, <1>6, <3>1 DEF OptionTaggedDecode
    <3>2. CASE t.k = "copt" BY <1>3, <1>6, <3>2 DEF COptionDecode
    <3>3. CASE t.k = "res" BY <1>3, <1>6, <3>3 DEF ResultTaggedDecode
    <3>4. CASE t.k = "cres" BY <1>3, <1>6, <3>4 DEF CResultDecode
    <3> QED BY <3>1, <3>2, <3>3, <3>4
  <2> QED BY <2>1 DEF Agree
<1> QED BY <1>5, <1>6

(* Options and results with a niche. *)
LEMMA DecidesNiche ==
  ASSUME Setting, NEW t \in Universe, Borrowing(t), t.k \notin Transparent, \A j \in DOMAIN t.s : Decides(t.s[j])
  PROVE  Decides(t)
<1> SUFFICES ASSUME NEW w, IsCarrier(t, w), NEW p, NEW st, NEW q, NEW su
             PROVE  Agree(Decode(t, w, p, st), Decode(t, w, q, su))
  BY DEF Decides
<1> DEFINE r == Decode(t, w, p, st)
           s == Decode(t, w, q, su)
<1>1. r = DecodeRule(t, w, p, st) /\ s = DecodeRule(t, w, q, su) BY DecodesByRule
<1>2. CarrierLayer(t, w) BY CarrierIs
<1>3. (t.k = "opt" /\ NicheOption(t)) \/ (t.k = "res" /\ (OkNiche(t) \/ ErrNiche(t))) BY DEF Borrowing
<1>4. ASSUME NEW u \in {t.s[j] : j \in DOMAIN t.s}, NicheCarrier(u, w), NEW x, NEW c, NEW d, NEW n, NEW a, NEW b,
             c = Decode(u, w, p, a), d = Decode(u, w, q, b),
             IsNiche(u, w) => r.ok /\ s.ok /\ r.n = n /\ s.n = n,
             ~IsNiche(u, w) => \E y, z : r = Wrapped(c, Node(x, NoAddr, <<c.n>>), y) /\ s = Wrapped(d, Node(x, NoAddr, <<d.n>>), z)
      PROVE  Agree(r, s)
  <2>1. CASE IsNiche(u, w) BY <1>4, <2>1 DEF Agree
  <2>2. CASE ~IsNiche(u, w)
    <3>1. IsCarrier(u, w) BY <1>4, <2>2 DEF NicheCarrier
    <3>2. Decides(u) BY <1>4
    <3>3. Agree(c, d) BY <1>4, <3>1, <3>2 DEF Decides
    <3> QED BY <1>4, <2>2, <3>3, AgreeWrapped
  <2> QED BY <2>1, <2>2
<1>5. CASE t.k = "opt" /\ NicheOption(t)
  <2> DEFINE c == Decode(t.s[1], w, p, DefaultDecodeStore(t.s[1]))
             d == Decode(t.s[1], w, q, DefaultDecodeStore(t.s[1]))
  <2>1. r = OptionNicheDecode(t, w, c) /\ s = OptionNicheDecode(t, w, d)
    BY <1>1, <1>5 DEF DecodeRule, Structs, DataEnums, Fieldless, Elem
  <2>2. NicheCarrier(t.s[1], w) BY <1>2, <1>5, CarrierLayers DEF Elem
  <2>3. DOMAIN t.s = {1} BY <1>5, Kind
  <2>4. IsNiche(t.s[1], w) => r.ok /\ s.ok /\ r.n = NoneV /\ s.n = NoneV BY <2>1, Answers DEF OptionNicheDecode, Elem
  <2>5. ~IsNiche(t.s[1], w) => \E y, z : r = Wrapped(c, Node("Some", NoAddr, <<c.n>>), y) /\ s = Wrapped(d, Node("Some", NoAddr, <<d.n>>), z)
    BY <2>1 DEF OptionNicheDecode, Elem, SomeV
  <2> QED BY <1>4, <2>2, <2>3, <2>4, <2>5
<1>6. CASE t.k = "res" /\ OkNiche(t)
  <2> DEFINE c == Decode(t.s[1], w, p, st)
             d == Decode(t.s[1], w, q, su)
  <2>1. r = OkNicheDecode(t, w, c, st) /\ s = OkNicheDecode(t, w, d, su)
    BY <1>1, <1>6 DEF DecodeRule, Structs, DataEnums, Fieldless, OkNiche, ErrNiche
  <2>2. NicheCarrier(t.s[1], w) BY <1>2, <1>6, CarrierLayers DEF OkNiche, ErrNiche
  <2>3. DOMAIN t.s = {1, 2} BY <1>6, Kind
  <2>4. IsNiche(t.s[1], w) => r.ok /\ s.ok /\ r.n = ErrV(UnitV) /\ s.n = ErrV(UnitV) BY <2>1, Answers DEF OkNicheDecode
  <2>5. ~IsNiche(t.s[1], w) => \E y, z : r = Wrapped(c, Node("Ok", NoAddr, <<c.n>>), y) /\ s = Wrapped(d, Node("Ok", NoAddr, <<d.n>>), z)
    BY <2>1 DEF OkNicheDecode, OkV
  <2> QED BY <1>4, <2>2, <2>3, <2>4, <2>5
<1>7. CASE t.k = "res" /\ ~OkNiche(t) /\ ErrNiche(t)
  <2> DEFINE c == Decode(t.s[2], w, p, st)
             d == Decode(t.s[2], w, q, su)
  <2>1. r = ErrNicheDecode(t, w, c, st) /\ s = ErrNicheDecode(t, w, d, su)
    BY <1>1, <1>7 DEF DecodeRule, Structs, DataEnums, Fieldless
  <2>2. NicheCarrier(t.s[2], w) BY <1>2, <1>7, CarrierLayers
  <2>3. DOMAIN t.s = {1, 2} BY <1>7, Kind
  <2>4. IsNiche(t.s[2], w) => r.ok /\ s.ok /\ r.n = OkV(UnitV) /\ s.n = OkV(UnitV) BY <2>1, Answers DEF ErrNicheDecode
  <2>5. ~IsNiche(t.s[2], w) => \E y, z : r = Wrapped(c, Node("Err", NoAddr, <<c.n>>), y) /\ s = Wrapped(d, Node("Err", NoAddr, <<d.n>>), z)
    BY <2>1 DEF ErrNicheDecode, ErrV
  <2> QED BY <1>4, <2>2, <2>3, <2>4, <2>5
<1> QED BY <1>3, <1>5, <1>6, <1>7

(* Tuples, arrays and structs; a closure looks at variants only. *)
LEMMA DecidesPair ==
  ASSUME Setting, NEW t \in Universe, t.k \in {"tup", "arr", "onevariant"} \cup Structs,
         \A j \in DOMAIN t.s : Decides(t.s[j])
  PROVE  Decides(t)
<1> SUFFICES ASSUME NEW w, IsCarrier(t, w), NEW p, NEW st, NEW q, NEW su
             PROVE  Agree(Decode(t, w, p, st), Decode(t, w, q, su))
  BY DEF Decides
<1> DEFINE r == Decode(t, w, p, st)
           s == Decode(t, w, q, su)
           rs == DecodeKept(t, w, p, st)
           ss == DecodeKept(t, w, q, su)
<1>1. r = DecodeRule(t, w, p, st) /\ s = DecodeRule(t, w, q, su) BY DecodesByRule
<1>2. ~Borrowing(t) /\ Readable(t, w) BY DEF Borrowing, Transparent, Readable, DataEnums, Structs
<1>3. /\ t.k = "tup" => r = TupleDecode(t, w, rs) /\ s = TupleDecode(t, w, ss)
      /\ t.k = "arr" => r = ArrayDecode(t, w, rs, Robust(t.s[1])) /\ s = ArrayDecode(t, w, ss, Robust(t.s[1]))
      /\ t.k \in {"onevariant"} \cup Structs => r = StructDecode(t, w, rs) /\ s = StructDecode(t, w, ss)
  BY <1>1 DEF DecodeRule, Structs, DataEnums, Fieldless, Elem, OneVariantDecode
<1>4. /\ DOMAIN rs = DOMAIN w.s /\ \A i \in DOMAIN w.s : \E a, x : rs[i] = Decode(Part(t, w, i), w.s[i], a, x)
      /\ DOMAIN ss = DOMAIN w.s /\ \A i \in DOMAIN w.s : \E a, x : ss[i] = Decode(Part(t, w, i), w.s[i], a, x)
  BY DEF DecodeKept, Kids
<1>5. DOMAIN w.s = {1, 2} BY <1>2, CarrierShape DEF Records
<1> HIDE DEF rs, ss
<1>6. (Fails(rs) <=> Fails(ss)) /\ \A i \in DOMAIN w.s : Agree(rs[i], ss[i]) BY <1>2, <1>4, AgreeParts
<1>7. CASE t.k = "arr" /\ Robust(t.s[1]) BY <1>3, <1>7 DEF ArrayDecode, Agree
<1>8. CASE Fails(rs) /\ ~(t.k = "arr" /\ Robust(t.s[1]))
  <2>1. ~r.ok /\ ~s.ok
    BY <1>3, <1>6, <1>8, Answers DEF TupleDecode, ArrayDecode, DecodeArrayElements, StructDecode, RefuseAtFirst, RefuseVisited
  <2> QED BY <2>1 DEF Agree
<1>9. CASE ~Fails(rs) /\ ~(t.k = "arr" /\ Robust(t.s[1]))
  <2> DEFINE v == Compound(Nodes(rs))
             u == Compound(Nodes(ss))
  <2>1. Satisfies(t, v) <=> Satisfies(t, u)
    <3>1. \A i \in {1, 2} : rs[i].n.x = ss[i].n.x BY <1>4, <1>5, <1>6, <1>9 DEF Fails, Agree
    <3>2. \A i \in {1, 2} : v.s[i] = rs[i].n /\ u.s[i] = ss[i].n BY <1>4, <1>5, Nodes1 DEF Nodes
    <3> HIDE DEF v, u
    <3> QED BY <3>1, <3>2 DEF Satisfies
  <2>2. v.x = "compound" /\ u.x = "compound" BY Nodes1
  <2> HIDE DEF v, u
  <2>3. CASE t.k \in {"tup", "arr"}
    <3>1. r.ok /\ r.n = v /\ s.ok /\ s.n = u
      BY <1>3, <1>6, <1>9, <2>3, Answers DEF TupleDecode, ArrayDecode, DecodeArrayElements, v, u
    <3> QED BY <2>2, <3>1 DEF Agree
  <2>4. CASE t.k \in {"onevariant"} \cup Structs /\ Satisfies(t, v)
    <3>1. r.ok /\ r.n = v /\ s.ok /\ s.n = u
      BY <1>3, <1>6, <1>9, <2>1, <2>4, Answers DEF StructDecode, v, u
    <3> QED BY <2>2, <3>1 DEF Agree
  <2>5. CASE t.k \in {"onevariant"} \cup Structs /\ ~Satisfies(t, v)
    <3>1. ~r.ok /\ ~s.ok
      BY <1>3, <1>6, <1>9, <2>1, <2>5, Answers DEF StructDecode, RefuseVisited, v, u
    <3> QED BY <3>1 DEF Agree
  <2> QED BY <2>3, <2>4, <2>5
<1> QED BY <1>7, <1>8, <1>9

(* Data enums. *)
LEMMA DecidesEnum ==
  ASSUME Setting, NEW t \in Universe, t.k \in DataEnums, \A j \in DOMAIN t.s : Decides(t.s[j])
  PROVE  Decides(t)
<1> SUFFICES ASSUME NEW w, IsCarrier(t, w), NEW p, NEW st, NEW q, NEW su
             PROVE  Agree(Decode(t, w, p, st), Decode(t, w, q, su))
  BY DEF Decides
<1> DEFINE r == Decode(t, w, p, st)
           s == Decode(t, w, q, su)
           rs == DecodeParts(t, w, p)
           ss == DecodeParts(t, w, q)
<1>1. r = DecodeRule(t, w, p, st) /\ s = DecodeRule(t, w, q, su) BY DecodesByRule
<1>2. r = EnumDecode(t, w, rs) /\ s = EnumDecode(t, w, ss) BY <1>1 DEF DecodeRule, Structs, DataEnums, Fieldless
<1>3. /\ DOMAIN rs = DOMAIN w.s /\ \A i \in DOMAIN w.s : \E a, x : rs[i] = Decode(Part(t, w, i), w.s[i], a, x)
      /\ DOMAIN ss = DOMAIN w.s /\ \A i \in DOMAIN w.s : \E a, x : ss[i] = Decode(Part(t, w, i), w.s[i], a, x)
  BY DEF DecodeParts, DecodePart, Kids
<1> HIDE DEF rs, ss
<1>4. CASE ~KnownTag(t, w) BY <1>2, <1>4, Answers DEF EnumDecode, Agree
<1>5. CASE KnownTag(t, w)
  <2>1. ~Borrowing(t) /\ Readable(t, w) BY <1>5 DEF Borrowing, Transparent, Readable, DataEnums
  <2>2. Fails(rs) <=> Fails(ss) BY <1>3, <2>1, AgreeParts
  <2>3. CASE Fails(rs) BY <1>2, <1>5, <2>2, <2>3, Answers DEF EnumDecode, RefuseAtFirst, Agree
  <2>4. CASE ~Fails(rs) BY <1>2, <1>5, <2>2, <2>4, Answers, Nodes1 DEF EnumDecode, Agree
  <2> QED BY <2>3, <2>4
<1> QED BY <1>4, <1>5

(* No decoder's verdict depends on where it allocates, so Accepts, which *)
(* asks at one address, speaks of every call.                            *)
LEMMA AllDecide ==
  ASSUME Setting
  PROVE  \A t \in Universe : Decides(t)
<1> DEFINE G == {t \in Universe : Decides(t)}
<1>1. ASSUME NEW t \in Universe, \A i \in DOMAIN t.s : t.s[i] \in G PROVE t \in G
  <2>1. \A j \in DOMAIN t.s : Decides(t.s[j]) BY <1>1
  <2>2. CASE t.k \in {"int", "bool", "nz", "unit", "single", "identity"} \cup Fieldless BY <2>2, DecidesAlone
  <2>3. CASE t.k \in Transparent BY <2>1, <2>3, DecidesTransparent
  <2>4. CASE t.k \in Buffers BY <2>1, <2>4, DecidesAlone, DecidesPointer
  <2>6. CASE t.k \in {"opt", "copt", "res", "cres"} /\ ~Borrowing(t) BY <2>1, <2>6, DecidesTagged
  <2>7. CASE t.k \in {"opt", "copt", "res", "cres"} /\ Borrowing(t)
    <3>1. t.k \notin Transparent BY <2>7 DEF Transparent
    <3> QED BY <2>1, <2>7, <3>1, DecidesNiche
  <2>8. CASE t.k \in {"tup", "arr", "onevariant"} \cup Structs BY <2>1, <2>8, DecidesPair
  <2>9. CASE t.k \in DataEnums BY <2>1, <2>9, DecidesEnum
  <2> QED BY <2>2, <2>3, <2>4, <2>6, <2>7, <2>8, <2>9, Kind DEF Fieldless, Transparent, Structs, DataEnums, Buffers
<1> HIDE DEF G
<1>2. Universe \subseteq G BY <1>1, RankInduction DEF Setting
<1> QED BY <1>2 DEF G

-----------------------------------------------------------------------------
(* What a refusal leaves. *)

(* Lost is what its rule makes of it, on the carriers of owned types. *)
Losing == \A t \in Universe : \A w : IsCarrier(t, w) => Lost(t, w) = LostRule(t, w)

(* What a decoder that refuses leaves of the carrier is Lost, no more and no *)
(* less.                                                                     *)
Loses(t) ==
  \A w, st, r : \A p \in Seq(Nat) :
    IsCarrier(t, w) /\ Sole(w) /\ Avoids(w, p) /\ r = Decode(t, w, p, st) /\ ~r.ok => Allocs(w) \ r.old = Lost(t, w)

(* The components that were refused. *)
RefusedIn(rs) == {i \in DOMAIN rs : ~rs[i].ok}
(* The components a decoder would refuse. *)
RefusedAt(t, w) == {i \in Kids(w) : ~Accepts(Part(t, w, i), w.s[i])}
(* What the components I lose when they are refused. *)
LostIn(t, w, I) == UNION {Lost(Part(t, w, i), w.s[i]) : i \in I}
(* What the components I own. *)
HeldIn(w, I) == UNION {Allocs(w.s[i]) : i \in I}
(* What is freed when the components I were visited: what they freed, and *)
(* what those accepted own.                                               *)
FreedIn(t, w, rs, base, I) == (base \cup (UNION {rs[j].old : j \in I})) \cup DroppedParts(t, w, rs, I)

(* What the components visited and refused lost remains, and all of the *)
(* others'.                                                             *)
Remaining(t, w, rs, base, I) ==
  Below(w) \ FreedIn(t, w, rs, base, I) = LostIn(t, w, I \cap RefusedIn(rs)) \cup HeldIn(w, DOMAIN w.s \ I)

(* Each component was decoded under its own address. *)
PartsDecoded(t, w, p, rs) ==
  DOMAIN rs = DOMAIN w.s /\ \A i \in DOMAIN w.s : \E st : rs[i] = Decode(Part(t, w, i), w.s[i], Append(p, i), st)

(* Each component moved its allocations, and lost what the rule says where *)
(* it was refused.                                                         *)
PartsAccounted(t, w, p, rs) ==
  /\ DOMAIN rs = DOMAIN w.s /\ DOMAIN w.s \subseteq Nat \ {0} /\ w.x \notin {"ref", "mut"}
  /\ \A i \in DOMAIN w.s : Moved(w.s[i], Append(p, i), rs[i])
  /\ Reclaims(t, w, rs)
  /\ \A i \in DOMAIN w.s : ~rs[i].ok => Allocs(w.s[i]) \ rs[i].old = Lost(Part(t, w, i), w.s[i])

(* A decoder that visits the components I and drops those it accepted leaves *)
(* just that.                                                                *)
LEMMA LeftBy ==
  ASSUME Reading, NoManual, NEW p \in Seq(Nat), NEW t, NEW w, NEW rs, NEW base, NEW I,
         PartsAccounted(t, w, p, rs), I \subseteq DOMAIN rs, Sole(w), Avoids(w, p), base \subseteq Here(w)
  PROVE  Remaining(t, w, rs, base, I)
<1> DEFINE F == (base \cup (UNION {rs[j].old : j \in I})) \cup DroppedParts(t, w, rs, I)
           L == UNION {Lost(Part(t, w, i), w.s[i]) : i \in I \cap RefusedIn(rs)}
           A == UNION {Allocs(w.s[i]) : i \in DOMAIN w.s \ I}
<1> USE DEF PartsAccounted
<1>1. ASSUME NEW i \in DOMAIN w.s, NEW a \in Allocs(w.s[i])
      PROVE  a \in F <=> i \in I /\ (rs[i].ok \/ a \in rs[i].old)
  <2> HIDE DEF L, A
  <2> DEFINE O == UNION {rs[j].old : j \in I}
             D == DroppedParts(t, w, rs, I)
  <2>1. Allocs(w) = Here(w) \cup Below(w) /\ Here(w) \cap Below(w) = {}
        /\ \A j \in DOMAIN w.s : j # i => Allocs(w.s[j]) \cap Allocs(w.s[i]) = {}
    BY DEF Reading, AllocsRule, SoleRule
  <2>2. a \in Below(w) BY DEF Below
  <2>3. a \notin base /\ a \notin Under(p) BY <2>1, <2>2 DEF Avoids
  <2>4. ASSUME NEW j \in I
        PROVE  /\ a \in rs[j].old => j = i
               /\ rs[j].ok /\ a \in OwnedBy(Part(t, w, j), rs[j].n) => j = i
               /\ j = i /\ rs[j].ok => (a \in rs[j].old \/ a \in OwnedBy(Part(t, w, j), rs[j].n))
    <3>1. j \in DOMAIN w.s /\ j \in Nat OBVIOUS
    <3>2. /\ rs[j].new \subseteq Under(Append(p, j)) /\ rs[j].old \subseteq Allocs(w.s[j]) \cup rs[j].new
          /\ rs[j].ok => Allocs(rs[j].n) = (Allocs(w.s[j]) \cup rs[j].new) \ rs[j].old
      BY <3>1 DEF Moved
    <3>3. rs[j].ok => OwnedBy(Part(t, w, j), rs[j].n) = Allocs(rs[j].n) BY DEF Reclaims
    <3>4. a \notin rs[j].new BY <2>3, <3>1, <3>2, UnderAppend
    <3>5. a \in Allocs(w.s[j]) => j = i BY <2>1, <3>1
    <3> QED BY <3>2, <3>3, <3>4, <3>5
  <2>5. a \in D <=> \E j \in I : rs[j].ok /\ a \in OwnedBy(Part(t, w, j), rs[j].n) BY DEF DroppedParts
  <2>6. a \in O <=> \E j \in I : a \in rs[j].old OBVIOUS
  <2> HIDE DEF O, D
  <2>7. a \in (base \cup O) \cup D <=> i \in I /\ (rs[i].ok \/ a \in rs[i].old)
    BY <2>3, <2>4, <2>5, <2>6
  <2> QED BY <2>7 DEF O, D, F
<1>2. \A a : a \in Below(w) <=> \E i \in DOMAIN w.s : a \in Allocs(w.s[i]) BY DEF Below
<1>3. \A a : a \in L <=> \E i \in DOMAIN w.s : i \in I /\ ~rs[i].ok /\ a \in Allocs(w.s[i]) /\ a \notin rs[i].old
  <2>1. \A i \in I \cap RefusedIn(rs) : Lost(Part(t, w, i), w.s[i]) = Allocs(w.s[i]) \ rs[i].old BY DEF RefusedIn
  <2> QED BY <2>1 DEF RefusedIn
<1>4. \A a : a \in A <=> \E i \in DOMAIN w.s : i \notin I /\ a \in Allocs(w.s[i]) OBVIOUS
<1> HIDE DEF F, L, A
<1>5. \A a \in Below(w) \ F : a \in L \cup A
  <2> SUFFICES ASSUME NEW a \in Below(w) \ F PROVE a \in L \cup A OBVIOUS
  <2>1. PICK i \in DOMAIN w.s : a \in Allocs(w.s[i]) BY <1>2
  <2> QED BY <1>1, <1>3, <1>4, <2>1
<1>6. \A a \in L \cup A : a \in Below(w) \ F
  <2> SUFFICES ASSUME NEW a \in L \cup A PROVE a \in Below(w) \ F OBVIOUS
  <2>1. PICK i \in DOMAIN w.s : a \in Allocs(w.s[i]) /\ ((i \in I /\ ~rs[i].ok /\ a \notin rs[i].old) \/ i \notin I)
    BY <1>3, <1>4
  <2> QED BY <1>1, <1>2, <2>1
<1>7. Below(w) \ F = L \cup A BY <1>5, <1>6
<1> QED BY <1>7 DEF F, L, A, FreedIn, LostIn, HeldIn, Remaining

(* Decoding the components accounts for each of them. *)
LEMMA PartsLost ==
  ASSUME Setting, NEW t \in Universe, NEW w, IsCarrier(t, w), ~Borrowing(t), Readable(t, w),
         Sole(w), NEW p \in Seq(Nat), Avoids(w, p), \A j \in DOMAIN t.s : Loses(t.s[j]),
         NEW rs, PartsDecoded(t, w, p, rs)
  PROVE  PartsAccounted(t, w, p, rs) /\ RefusedAt(t, w) = RefusedIn(rs)
<1> USE DEF PartsDecoded
<1>1. \A j \in DOMAIN t.s : t.s[j] \in Universe BY Kind
<1>2. \A j \in DOMAIN t.s : Decodes(t.s[j]) /\ Decides(t.s[j]) BY <1>1, AllDecode, AllDecide
<1>3. (\A i \in DOMAIN w.s : Moved(w.s[i], Append(p, i), rs[i])) /\ Reclaims(t, w, rs) BY <1>2, PartsGiven
<1>4. DOMAIN w.s \subseteq Nat \ {0} /\ w.x \notin {"ref", "mut"} BY CarrierShape
<1>5. ASSUME NEW i \in DOMAIN w.s
      PROVE  /\ ~rs[i].ok => Allocs(w.s[i]) \ rs[i].old = Lost(Part(t, w, i), w.s[i])
             /\ rs[i].ok <=> Accepts(Part(t, w, i), w.s[i])
  <2>1. PICK st : rs[i] = Decode(Part(t, w, i), w.s[i], Append(p, i), st) OBVIOUS
  <2>2. PICK j \in DOMAIN t.s : Part(t, w, i) = t.s[j] BY Parts
  <2>3. IsCarrier(Part(t, w, i), w.s[i]) /\ i \in Nat BY CarrierShape
  <2>4. Sole(w.s[i]) BY <1>4 DEF Setting, Reading, SoleRule
  <2>5. Allocs(w.s[i]) \subseteq Allocs(w) BY <1>4 DEF Setting, Reading, AllocsRule, Below
  <2>6. Append(p, i) \in Seq(Nat) /\ Avoids(w.s[i], Append(p, i)) BY <2>3, <2>5, UnderAppend DEF Avoids
  <2>7. Loses(Part(t, w, i)) BY <2>2
  <2>8. ~rs[i].ok => Allocs(w.s[i]) \ rs[i].old = Lost(Part(t, w, i), w.s[i])
    BY <2>1, <2>3, <2>4, <2>6, <2>7 DEF Loses
  <2>9. Agree(rs[i], Decode(Part(t, w, i), w.s[i], DecAt, DefaultDecodeStore(Part(t, w, i))))
    <3>1. Agree(Decode(Part(t, w, i), w.s[i], Append(p, i), st), Decode(Part(t, w, i), w.s[i], DecAt, DefaultDecodeStore(Part(t, w, i))))
      BY <1>2, DecidesPart
    <3> QED BY <2>1, <3>1
  <2> QED BY <2>8, <2>9 DEF Agree, Accepts
<1>6. RefusedAt(t, w) = RefusedIn(rs) BY <1>5 DEF Kids, RefusedIn, RefusedAt
<1> QED BY <1>3, <1>4, <1>5, <1>6 DEF PartsAccounted

(* Lost by its rule. *)
LEMMA LostIs ==
  ASSUME Setting, Losing, NEW t \in Universe, NEW w, IsCarrier(t, w)
  PROVE  Lost(t, w) = LostBelow(t, w, RefusedAt(t, w))
  BY DEF Losing, LostRule, RefusedAt

(* Types whose carriers own nothing. *)
LEMMA LosesAlone ==
  ASSUME Setting, Losing, NEW t \in Universe,
         t.k \in {"int", "bool", "nz", "unit", "single", "identity"} \cup Fieldless
  PROVE  Loses(t)
<1> SUFFICES ASSUME NEW w, NEW st, NEW p \in Seq(Nat), IsCarrier(t, w), Sole(w), Avoids(w, p),
                    NEW r, r = Decode(t, w, p, st), ~r.ok
             PROVE  Allocs(w) \ r.old = Lost(t, w)
  BY DEF Loses
<1>1. r = DecodeRule(t, w, p, st) BY DecodesByRule
<1>2. CarrierLayer(t, w) BY CarrierIs
<1>3. t.k # "identity"
  <2>1. t.k = "identity" => r = Kept(w) BY <1>1 DEF DecodeRule, Structs, DataEnums, Fieldless, IdentityDecode
  <2> QED BY <2>1, Answers
<1>4. Allocs(w) = {}
  <2>1. Scalar(w) \/ w = UnitV BY <1>2, <1>3, CarrierLayers DEF Fieldless
  <2>2. UnitV.x \notin Marks /\ DOMAIN UnitV.s = {} BY Shapes1 DEF Marks, Owning
  <2> QED BY <2>1, <2>2, Shapes1, ScalarOwnsNothing
<1>5. Lost(t, w) = {}
  BY <1>3, LostIs DEF LostBelow, Transparent, DataEnums, Records, Structs, Fieldless
<1> QED BY <1>4, <1>5

(* The types that convert as their field does. *)
LEMMA LosesTransparent ==
  ASSUME Setting, Losing, NEW t \in Universe, t.k \in Transparent, \A j \in DOMAIN t.s : Loses(t.s[j])
  PROVE  Loses(t)
<1> SUFFICES ASSUME NEW w, NEW st, NEW p \in Seq(Nat), IsCarrier(t, w), Sole(w), Avoids(w, p),
                    NEW r, r = Decode(t, w, p, st), ~r.ok
             PROVE  Allocs(w) \ r.old = Lost(t, w)
  BY DEF Loses
<1>1. r = DecodeRule(t, w, p, st) BY DecodesByRule
<1>2. DOMAIN t.s = {1} /\ IsCarrier(t.s[1], w) BY TransparentCarrier
<1>3. r = Decode(t.s[1], w, p, st)
  <2>1. r = Decode(t.s[1], w, p, st) \/ r = Kept(w)
    BY <1>1 DEF DecodeRule, Structs, DataEnums, Fieldless, Transparent, ManualDecode, NewtypeDecode,
                CellDecode, UnsafeCellDecode, Elem
  <2> QED BY <2>1, Answers
<1>4. Lost(t, w) = Lost(t.s[1], w)
  BY LostIs DEF LostBelow, Transparent, DataEnums, Records, Structs, Elem
<1>5. Loses(t.s[1]) BY <1>2
<1> QED BY <1>2, <1>3, <1>4, <1>5 DEF Loses

(* Boxes: the box itself is freed, unless the validator refused what it *)
(* holds.                                                               *)
LEMMA LosesBox ==
  ASSUME Setting, Losing, NoManual, NEW t \in Universe, t.k = "box", \A j \in DOMAIN t.s : Loses(t.s[j])
  PROVE  Loses(t)
<1> SUFFICES ASSUME NEW w, NEW st, NEW p \in Seq(Nat), IsCarrier(t, w), Sole(w), Avoids(w, p),
                    NEW r, r = Decode(t, w, p, st), ~r.ok
             PROVE  Allocs(w) \ r.old = Lost(t, w)
  BY DEF Loses
<1>1. r = DecodeRule(t, w, p, st) BY DecodesByRule
<1>2. w = Null \/ Pointing("box", w)
  <2>1. CarrierLayer(t, w) BY CarrierIs
  <2> QED BY <2>1, CarrierLayers
<1>3. ~Borrowing(t) /\ Readable(t, w) BY DEF Borrowing, Transparent, Readable, DataEnums
<1>4. Lost(t, w) = IF Stable(t.s[1]) THEN Allocs(w) ELSE LostIn(t, w, DOMAIN w.s)
  BY LostIs DEF LostBelow, LostIn, Transparent, DataEnums, Records, Structs, Elem, Kids
<1>5. CASE Stable(t.s[1])
  <2>1. r = BoxStableDecode(t, w) BY <1>1, <1>5 DEF DecodeRule, Structs, DataEnums, Fieldless, Elem
  <2>2. r.old = {} BY <2>1, Answers DEF BoxStableDecode
  <2> QED BY <1>4, <1>5, <2>2
<1>6. CASE ~Stable(t.s[1]) /\ w = Null
  <2>1. DOMAIN w.s = {} /\ w.x \notin Marks BY <1>6, Shapes1 DEF Marks, Owning
  <2>2. Allocs(w) = {} BY <2>1, ScalarOwnsNothing
  <2>3. LostIn(t, w, DOMAIN w.s) = {} BY <2>1 DEF LostIn
  <2> QED BY <1>4, <1>6, <2>2, <2>3
<1>7. CASE ~Stable(t.s[1]) /\ Pointing("box", w)
  <2> DEFINE c == Decode(t.s[1], w.s[1], Append(p, 1), Sub(st, 1))
             cs == <<c>>
  <2>1. w.x = "box" /\ w.a # NoAddr /\ DOMAIN w.s = {1} BY <1>7, Shapes1
  <2>2. Part(t, w, 1) = t.s[1] BY PartsOf
  <2>3. r = BoxUnstableDecode(w, p, c) BY <1>1, <1>7 DEF DecodeRule, Structs, DataEnums, Fieldless, Elem
  <2>4. \A i \in DOMAIN w.s : \E s : cs[i] = Decode(Part(t, w, i), w.s[i], Append(p, i), s) BY <2>1, <2>2
  <2>5. DOMAIN cs = DOMAIN w.s /\ cs[1] = c BY <2>1
  <2> HIDE DEF c, cs
  <2>11. PartsDecoded(t, w, p, cs) BY <2>4, <2>5 DEF PartsDecoded
  <2>6. PartsAccounted(t, w, p, cs) BY <1>3, <2>11, PartsLost
  <2>7. ~c.ok /\ r.old = c.old \cup {w.a} BY <2>1, <2>3, Answers DEF BoxUnstableDecode
  <2>8. Allocs(w.s[1]) \ c.old = Lost(Part(t, w, 1), w.s[1]) BY <2>1, <2>5, <2>6, <2>7 DEF PartsAccounted
  <2>9. Allocs(w) = {w.a} \cup Allocs(w.s[1]) /\ w.a \notin Allocs(w.s[1])
    <3>1. {Allocs(w.s[i]) : i \in DOMAIN w.s} = {Allocs(w.s[1])} BY <2>1
    <3>2. Below(w) = Allocs(w.s[1]) BY <3>1 DEF Below
    <3>3. Here(w) = {w.a} /\ w.x \notin {"ref", "mut"} BY <2>1 DEF Here, Owning
    <3> QED BY <3>2, <3>3 DEF Setting, Reading, AllocsRule, SoleRule
  <2>10. LostIn(t, w, DOMAIN w.s) = Lost(Part(t, w, 1), w.s[1])
    <3>1. {Lost(Part(t, w, i), w.s[i]) : i \in DOMAIN w.s} = {Lost(Part(t, w, 1), w.s[1])} BY <2>1
    <3> QED BY <3>1 DEF LostIn
  <2> QED BY <1>4, <1>7, <2>7, <2>8, <2>9, <2>10
<1> QED BY <1>2, <1>5, <1>6, <1>7

(* Boxed slices and vectors: the buffer is freed, unless its header was *)
(* refused; its elements are, unless the validator refused one of them. *)
LEMMA LosesBuffer ==
  ASSUME Setting, Losing, NoManual, NEW t \in Universe, t.k \in {"slice", "vec"}, \A j \in DOMAIN t.s : Loses(t.s[j])
  PROVE  Loses(t)
<1> SUFFICES ASSUME NEW w, NEW st, NEW p \in Seq(Nat), IsCarrier(t, w), Sole(w), Avoids(w, p),
                    NEW r, r = Decode(t, w, p, st), ~r.ok
             PROVE  Allocs(w) \ r.old = Lost(t, w)
  BY DEF Loses
<1>1. r = DecodeRule(t, w, p, st) BY DecodesByRule
<1>2. (w = Null \/ Buffered("vec", w) \/ Buffered("bad", w)) /\ (t.k = "slice" => w = Null \/ Buffered("vec", w))
  <2>1. CarrierLayer(t, w) BY CarrierIs
  <2> QED BY <2>1, CarrierLayers
<1>3. ~Borrowing(t) /\ Readable(t, w) BY DEF Borrowing, Transparent, Readable, DataEnums
<1>4. Lost(t, w) = IF BadHeader(w) THEN Allocs(w)
                   ELSE IF Stable(t.s[1]) THEN HeldIn(w, DOMAIN w.s) ELSE LostIn(t, w, RefusedAt(t, w))
  BY LostIs DEF LostBelow, LostIn, HeldIn, Transparent, DataEnums, Records, Structs, Elem, Kids
<1>5. ~BadHeader(w) => /\ Allocs(w) = {w.a} \cup Below(w) /\ w.a \notin Below(w) /\ Here(w) = {w.a} /\ w.x = "vec"
                       /\ IntoVec(w) /\ w.a # NoAddr
  <2>1. ~BadHeader(w) => w.x = "vec" /\ w.a # NoAddr BY <1>2, Shapes1 DEF BadHeader
  <2>2. w.x = "vec" => Here(w) = {w.a} /\ w.x \notin {"ref", "mut"} BY DEF Here, Owning
  <2> QED BY <2>1, <2>2 DEF Setting, Reading, AllocsRule, SoleRule, IntoVec
<1>6. CASE BadHeader(w)
  <2>1. ~IntoVec(w) BY <1>6 DEF BadHeader, IntoVec
  <2>2. t.k = "slice" => w.a = NoAddr BY <1>2, <1>6, Shapes1 DEF BadHeader
  <2>3. r = Refused({}, {})
    <3>1. CASE t.k = "slice" /\ Stable(t.s[1])
      <4>1. r = BoxWideDecode(t, w) BY <1>1, <3>1 DEF DecodeRule, Structs, DataEnums, Fieldless, Elem
      <4> QED BY <2>2, <3>1, <4>1 DEF BoxWideDecode
    <3>2. CASE t.k = "vec" /\ Stable(t.s[1])
      <4>1. r = VecStableDecode(t, w) BY <1>1, <3>2 DEF DecodeRule, Structs, DataEnums, Fieldless, Elem, StdVecDecode
      <4> QED BY <2>1, <4>1, Answers DEF VecStableDecode
    <3>3. CASE ~Stable(t.s[1])
      <4>1. r = VecUnstableDecode(t, w, p, DecodeParts(t, w, p)) \/ r = Refused({}, {})
        BY <1>1, <3>3 DEF DecodeRule, Structs, DataEnums, Fieldless, Elem, StdVecDecode, BoxDstDecode, DecodeBoxOwned
      <4> QED BY <2>1, <4>1 DEF VecUnstableDecode
    <3> QED BY <3>1, <3>2, <3>3
  <2> QED BY <1>4, <1>6, <2>3, Answers
<1>7. CASE ~BadHeader(w) /\ Stable(t.s[1])
  <2>1. r = Refused({}, {w.a})
    <3>1. CASE t.k = "slice"
      <4>1. r = BoxWideDecode(t, w) BY <1>1, <1>7, <3>1 DEF DecodeRule, Structs, DataEnums, Fieldless, Elem
      <4> QED BY <1>5, <1>7, <4>1, Answers DEF BoxWideDecode
    <3>2. CASE t.k = "vec"
      <4>1. r = VecStableDecode(t, w) BY <1>1, <1>7, <3>2 DEF DecodeRule, Structs, DataEnums, Fieldless, Elem, StdVecDecode
      <4> QED BY <1>5, <1>7, <4>1, Answers DEF VecStableDecode
    <3> QED BY <3>1, <3>2
  <2> QED BY <1>4, <1>5, <1>7, <2>1, Answers DEF Below, HeldIn
<1>8. CASE ~BadHeader(w) /\ ~Stable(t.s[1])
  <2> DEFINE rs == DecodeParts(t, w, p)
  <2>1. r = DecodeVecElements(t, w, p, rs)
    <3>1. r = VecUnstableDecode(t, w, p, rs)
      BY <1>1, <1>5, <1>8 DEF DecodeRule, Structs, DataEnums, Fieldless, Elem, StdVecDecode, BoxDstDecode, DecodeBoxOwned
    <3> QED BY <1>5, <1>8, <3>1 DEF VecUnstableDecode
  <2>2. DOMAIN rs = DOMAIN w.s /\ \A i \in DOMAIN w.s : \E s : rs[i] = Decode(Part(t, w, i), w.s[i], Append(p, i), s)
    BY DEF DecodeParts, DecodePart, Kids
  <2> HIDE DEF rs
  <2>3. PartsAccounted(t, w, p, rs) /\ RefusedAt(t, w) = RefusedIn(rs)
    <3>1. PartsDecoded(t, w, p, rs) BY <2>2 DEF PartsDecoded
    <3> QED BY <1>3, <3>1, PartsLost
  <2> DEFINE b == {w.a}
             I == DOMAIN rs
  <2>4. r.old = FreedIn(t, w, rs, b, I)
    BY <2>1, Answers DEF DecodeVecElements, RefuseVisited, Olds, FreedIn
  <2>5. Remaining(t, w, rs, b, I)
    <3>1. b \subseteq Here(w) /\ I \subseteq DOMAIN rs BY <1>5, <1>8
    <3>2. Reading BY DEF Setting
    <3> HIDE DEF b, I
    <3> QED BY <2>3, <3>1, <3>2, LeftBy
  <2>6. DOMAIN rs \cap RefusedIn(rs) = RefusedIn(rs) /\ HeldIn(w, DOMAIN w.s \ DOMAIN rs) = {} BY <2>2 DEF RefusedIn, HeldIn
  <2>7. Below(w) \ r.old = LostIn(t, w, RefusedIn(rs)) BY <2>4, <2>5, <2>6 DEF Remaining
  <2>9. w.a \in r.old BY <2>4 DEF FreedIn
  <2>8. Allocs(w) \ r.old = Below(w) \ r.old BY <1>5, <1>8, <2>9
  <2> QED BY <1>4, <1>8, <2>3, <2>7, <2>8
<1> QED BY <1>6, <1>7, <1>8

(* Options and results with a tag. *)
LEMMA LosesTagged ==
  ASSUME Setting, Losing, NoManual, NEW t \in Universe, ~Borrowing(t), t.k \in {"opt", "copt", "res", "cres"},
         \A j \in DOMAIN t.s : Loses(t.s[j])
  PROVE  Loses(t)
<1> SUFFICES ASSUME NEW w, NEW st, NEW p \in Seq(Nat), IsCarrier(t, w), Sole(w), Avoids(w, p),
                    NEW r, r = Decode(t, w, p, st), ~r.ok
             PROVE  Allocs(w) \ r.old = Lost(t, w)
  BY DEF Loses
<1> DEFINE c == DecodePart(t, w, p, 1)
<1>1. r = DecodeRule(t, w, p, st) BY DecodesByRule
<1>2. /\ t.k = "opt" => ~NicheOption(t)
      /\ t.k = "res" => ~OkNiche(t) /\ ~ErrNiche(t)
  BY DEF Borrowing
<1>3. /\ t.k = "opt" => r = OptionTaggedDecode(w, c)
      /\ t.k = "copt" => r = COptionDecode(w, c)
      /\ t.k = "res" => r = ResultTaggedDecode(w, c)
      /\ t.k = "cres" => r = CResultDecode(w, c)
  BY <1>1, <1>2 DEF DecodeRule, Structs, DataEnums, Fieldless
<1>4. /\ t.k \in {"opt", "copt"} => (Scalar(w) /\ w.x # "1") \/ Around("1", NoAddr, w)
      /\ t.k \in {"res", "cres"} => TagAndPayload({"0", "1"}, w)
  <2>1. CarrierLayer(t, w) BY CarrierIs
  <2> QED BY <1>2, <2>1, CarrierLayers
<1>5. Lost(t, w) = IF HasPayload(w) THEN LostIn(t, w, {1}) ELSE Allocs(w)
  BY <1>2, LostIs DEF LostBelow, LostIn, Transparent, DataEnums, Records, Structs
<1>6. c = Decode(Part(t, w, 1), w.s[1], Append(p, 1), DefaultDecodeStore(Part(t, w, 1)))
  BY DEF DecodePart
<1> HIDE DEF c
<1>7. CASE w.x = "1" \/ (w.x = "0" /\ t.k \in {"res", "cres"})
  <2>1. DOMAIN w.s = {1} /\ w.x \notin Marks
    <3>1. CASE t.k \in {"opt", "copt"} BY <1>4, <1>7, <3>1, Shapes1 DEF Marks, Owning
    <3>2. CASE t.k \in {"res", "cres"} BY <1>4, <1>7, <3>2, TaggedShape
    <3> QED BY <3>1, <3>2
  <2>2. Readable(t, w) BY <1>7 DEF Readable, DataEnums
  <2>3. ~c.ok /\ r = c
    BY <1>3, <1>7, Answers DEF OptionTaggedDecode, COptionDecode, ResultTaggedDecode, CResultDecode, Wrapped
  <2> DEFINE cs == <<c>>
  <2>4. DOMAIN cs = DOMAIN w.s /\ cs[1] = c BY <2>1
  <2>5. \A i \in DOMAIN w.s : \E s : cs[i] = Decode(Part(t, w, i), w.s[i], Append(p, i), s) BY <1>6, <2>1, <2>4
  <2> HIDE DEF cs
  <2>11. PartsDecoded(t, w, p, cs) BY <2>4, <2>5 DEF PartsDecoded
  <2>6. PartsAccounted(t, w, p, cs) BY <2>2, <2>11, PartsLost
  <2>7. Allocs(w.s[1]) \ c.old = Lost(Part(t, w, 1), w.s[1]) BY <2>1, <2>3, <2>4, <2>6 DEF PartsAccounted
  <2>8. Allocs(w) = Allocs(w.s[1]) BY <2>1, PayloadAllocs
  <2>9. HasPayload(w)
    <3>1. DOMAIN << >> = {} OBVIOUS
    <3>2. w.s # <<>> BY <2>1, <3>1
    <3> QED BY <1>7, <3>2 DEF HasPayload
  <2>10. LostIn(t, w, {1}) = Lost(Part(t, w, 1), w.s[1]) BY DEF LostIn
  <2> QED BY <1>5, <2>3, <2>7, <2>8, <2>9, <2>10
<1>8. CASE ~(w.x = "1" \/ (w.x = "0" /\ t.k \in {"res", "cres"}))
  <2>1. w.x \notin {"0", "1"} /\ r = Refused({}, {})
    BY <1>3, <1>8, Answers DEF OptionTaggedDecode, COptionDecode, ResultTaggedDecode, CResultDecode
  <2>2. ~HasPayload(w) BY <2>1 DEF HasPayload
  <2> QED BY <1>5, <2>1, <2>2, Answers
<1> QED BY <1>7, <1>8

(* Options and results with a niche: the niche is never refused, what else *)
(* is refused is the payload.                                              *)
LEMMA LosesNiche ==
  ASSUME Setting, Losing, NEW t \in Universe, Borrowing(t), t.k \notin Transparent, \A j \in DOMAIN t.s : Loses(t.s[j])
  PROVE  Loses(t)
<1> SUFFICES ASSUME NEW w, NEW st, NEW p \in Seq(Nat), IsCarrier(t, w), Sole(w), Avoids(w, p),
                    NEW r, r = Decode(t, w, p, st), ~r.ok
             PROVE  Allocs(w) \ r.old = Lost(t, w)
  BY DEF Loses
<1>1. r = DecodeRule(t, w, p, st) BY DecodesByRule
<1>2. CarrierLayer(t, w) BY CarrierIs
<1>3. (t.k = "opt" /\ NicheOption(t)) \/ (t.k = "res" /\ (OkNiche(t) \/ ErrNiche(t))) BY DEF Borrowing
<1>4. ASSUME NEW u \in {t.s[j] : j \in DOMAIN t.s}, NicheCarrier(u, w), ~IsNiche(u, w), NEW s, r = Decode(u, w, p, s)
      PROVE  Allocs(w) \ r.old = Lost(u, w)
  <2>1. IsCarrier(u, w) BY <1>4 DEF NicheCarrier
  <2>2. Loses(u) BY <1>4
  <2> QED BY <1>4, <2>1, <2>2 DEF Loses
<1>5. CASE t.k = "opt" /\ NicheOption(t)
  <2> DEFINE s == DefaultDecodeStore(t.s[1])
             c == Decode(t.s[1], w, p, s)
  <2>1. r = OptionNicheDecode(t, w, c)
    BY <1>1, <1>5 DEF DecodeRule, Structs, DataEnums, Fieldless, Elem
  <2>2. ~IsNiche(t.s[1], w) /\ r = c BY <2>1, Answers DEF OptionNicheDecode, Wrapped, Elem
  <2>3. NicheCarrier(t.s[1], w) BY <1>2, <1>5, CarrierLayers DEF Elem
  <2>4. 1 \in DOMAIN t.s BY <1>5, Kind
  <2>5. Lost(t, w) = Lost(t.s[1], w) BY <1>5, LostIs DEF LostBelow, Transparent, DataEnums, Records, Structs, Elem
  <2> QED BY <1>4, <2>2, <2>3, <2>4, <2>5
<1>6. CASE t.k = "res" /\ OkNiche(t)
  <2>1. ~ErrNiche(t) BY <1>6 DEF OkNiche, ErrNiche
  <2> DEFINE c == Decode(t.s[1], w, p, st)
  <2>2. r = OkNicheDecode(t, w, c, st)
    BY <1>1, <1>6, <2>1 DEF DecodeRule, Structs, DataEnums, Fieldless
  <2>3. ~IsNiche(t.s[1], w) /\ r = c BY <2>2, Answers DEF OkNicheDecode, Wrapped
  <2>4. NicheCarrier(t.s[1], w) BY <1>2, <1>6, <2>1, CarrierLayers
  <2>5. 1 \in DOMAIN t.s BY <1>6, Kind
  <2>6. Lost(t, w) = Lost(t.s[1], w) BY <1>6, <2>1, LostIs DEF LostBelow, Transparent, DataEnums, Records, Structs
  <2> QED BY <1>4, <2>3, <2>4, <2>5, <2>6
<1>7. CASE t.k = "res" /\ ~OkNiche(t) /\ ErrNiche(t)
  <2> DEFINE c == Decode(t.s[2], w, p, st)
  <2>2. r = ErrNicheDecode(t, w, c, st)
    BY <1>1, <1>7 DEF DecodeRule, Structs, DataEnums, Fieldless
  <2>3. ~IsNiche(t.s[2], w) /\ r = c BY <2>2, Answers DEF ErrNicheDecode, Wrapped
  <2>4. NicheCarrier(t.s[2], w) BY <1>2, <1>7, CarrierLayers
  <2>5. 2 \in DOMAIN t.s BY <1>7, Kind
  <2>6. Lost(t, w) = Lost(t.s[2], w) BY <1>7, LostIs DEF LostBelow, Transparent, DataEnums, Records, Structs
  <2> QED BY <1>4, <2>3, <2>4, <2>5, <2>6
<1> QED BY <1>3, <1>5, <1>6, <1>7

(* Just the components I were visited and dropped. *)
FreesParts(t, w, rs, r, I) ==
  I \subseteq DOMAIN rs /\ r.old = (UNION {rs[j].old : j \in I}) \cup DroppedParts(t, w, rs, I)

(* What remains then. *)
LeavesParts(t, w, rs, r, I) ==
  Allocs(w) \ r.old = LostIn(t, w, I \cap RefusedIn(rs)) \cup HeldIn(w, DOMAIN w.s \ I)

(* The case of a carrier that is no pointer. *)
LEMMA PartsLeft ==
  ASSUME Setting, NoManual, NEW p \in Seq(Nat), NEW t, NEW w, NEW rs, NEW I,
         PartsAccounted(t, w, p, rs), Sole(w), Avoids(w, p), w.x \notin Marks, NEW r, FreesParts(t, w, rs, r, I)
  PROVE  LeavesParts(t, w, rs, r, I)
<1> USE DEF FreesParts, LeavesParts
<1> DEFINE b == {}
<1>1. Reading BY DEF Setting
<1>2. r.old = FreedIn(t, w, rs, b, I) BY DEF FreedIn
<1>3. b \subseteq Here(w) OBVIOUS
<1> HIDE DEF b
<1>4. Remaining(t, w, rs, b, I) BY <1>1, <1>3, LeftBy
<1>5. Allocs(w) = Below(w) BY <1>1 DEF Reading, AllocsRule, Here, Marks
<1> QED BY <1>2, <1>4, <1>5 DEF Remaining

(* Tuples, arrays and structs: what follows the first member refused is *)
(* lost, but for arrays, all of whose elements are visited.             *)
LEMMA LosesPair ==
  ASSUME Setting, Losing, NoManual, NEW t \in Universe, t.k \in {"tup", "arr", "onevariant"} \cup Structs,
         \A j \in DOMAIN t.s : Loses(t.s[j])
  PROVE  Loses(t)
<1> SUFFICES ASSUME NEW w, NEW st, NEW p \in Seq(Nat), IsCarrier(t, w), Sole(w), Avoids(w, p),
                    NEW r, r = Decode(t, w, p, st), ~r.ok
             PROVE  Allocs(w) \ r.old = Lost(t, w)
  BY DEF Loses
<1> DEFINE rs == DecodeKept(t, w, p, st)
<1>1. r = DecodeRule(t, w, p, st) BY DecodesByRule
<1>2. DOMAIN w.s = {1, 2} /\ w.x \notin Marks
  <2>1. CarrierLayer(t, w) BY CarrierIs
  <2>2. Pair(w) BY <2>1, CarrierLayers DEF Structs
  <2> QED BY <2>2, Shapes1 DEF Marks, Owning
<1>3. ~Borrowing(t) /\ Readable(t, w) BY DEF Borrowing, Transparent, Readable, DataEnums, Structs
<1>4. /\ t.k = "tup" => r = TupleDecode(t, w, rs)
      /\ t.k = "arr" => r = ArrayDecode(t, w, rs, Robust(t.s[1]))
      /\ t.k \in {"onevariant"} \cup Structs => r = StructDecode(t, w, rs)
  BY <1>1 DEF DecodeRule, Structs, DataEnums, Fieldless, Elem, OneVariantDecode
<1>5. DOMAIN rs = {1, 2} /\ PartsDecoded(t, w, p, rs) BY <1>2 DEF DecodeKept, Kids, PartsDecoded
<1> HIDE DEF rs
<1>6. PartsAccounted(t, w, p, rs) /\ RefusedAt(t, w) = RefusedIn(rs) BY <1>3, <1>5, PartsLost
<1>7. ASSUME NEW I, FreesParts(t, w, rs, r, I) PROVE LeavesParts(t, w, rs, r, I)
  BY <1>2, <1>6, <1>7, PartsLeft
<1>8. r = RefuseVisited(t, w, rs, {}) => Allocs(w) \ r.old = LostIn(t, w, RefusedIn(rs))
  <2> SUFFICES ASSUME r = RefuseVisited(t, w, rs, {}) PROVE Allocs(w) \ r.old = LostIn(t, w, RefusedIn(rs)) OBVIOUS
  <2> DEFINE I == DOMAIN rs
  <2>1. r.old = (UNION {rs[j].old : j \in I}) \cup DroppedParts(t, w, rs, I) BY Answers DEF RefuseVisited, Olds
  <2>2. I \subseteq DOMAIN rs OBVIOUS
  <2>3. I \cap RefusedIn(rs) = RefusedIn(rs) /\ HeldIn(w, {1, 2} \ I) = {} BY <1>5 DEF RefusedIn, HeldIn
  <2> HIDE DEF I
  <2>4. LeavesParts(t, w, rs, r, I) BY <1>7, <2>1, <2>2 DEF FreesParts
  <2> QED BY <1>2, <2>3, <2>4 DEF LeavesParts
<1>9. CASE t.k = "arr"
  <2>1. r = RefuseVisited(t, w, rs, {})
    BY <1>4, <1>9, Answers DEF ArrayDecode, DecodeArrayElements
  <2>2. Lost(t, w) = LostIn(t, w, RefusedAt(t, w))
    BY <1>9, LostIs DEF LostBelow, LostIn, Transparent, DataEnums, Records, Structs
  <2> QED BY <1>6, <1>8, <2>1, <2>2
<1>10. CASE t.k # "arr" /\ Fails(rs)
  <2> DEFINE f == CHOOSE i \in RefusedAt(t, w) : \A j \in RefusedAt(t, w) : i <= j
             I == Visited(rs)
  <2>1. r = RefuseAtFirst(t, w, rs) BY <1>4, <1>10 DEF TupleDecode, StructDecode
  <2>2. r.old = (UNION {rs[j].old : j \in I}) \cup DroppedParts(t, w, rs, I) BY <2>1, Answers DEF RefuseAtFirst
  <2>3. RefusedAt(t, w) = {i \in {1, 2} : ~rs[i].ok} BY <1>5, <1>6 DEF RefusedIn
  <2>4. RefusedAt(t, w) # {} BY <1>5, <1>10, <2>3 DEF Fails
  <2>5. Lost(t, w) = LostIn(t, w, {f}) \cup HeldIn(w, {i \in {1, 2} : i > f})
    <3>1. t.k \in {"tup"} \cup Records /\ Kids(w) = {1, 2} BY <1>2, <1>10 DEF Records, Kids
    <3> QED BY <2>4, <3>1, LostIs DEF LostBelow, LostIn, HeldIn, Transparent, DataEnums, Records, Structs
  <2>6. f = (IF rs[1].ok THEN 2 ELSE 1)
    <3> DEFINE g == IF rs[1].ok THEN 2 ELSE 1
    <3>1. g \in RefusedAt(t, w) /\ \A j \in RefusedAt(t, w) : g <= j BY <2>3, <2>4
    <3>2. \A i \in RefusedAt(t, w) : (\A j \in RefusedAt(t, w) : i <= j) => i = g BY <2>3, <3>1
    <3> HIDE DEF g
    <3>3. f \in RefusedAt(t, w) /\ \A j \in RefusedAt(t, w) : f <= j BY <3>1
    <3>4. f = g BY <3>2, <3>3
    <3> QED BY <3>4 DEF g
  <2>7. I = (IF rs[1].ok THEN {1, 2} ELSE {1})
    <3>1. I = {i \in {1, 2} : \A j \in 1..(i - 1) : rs[j].ok} BY <1>5 DEF Visited
    <3>2. 1 \in I BY <3>1
    <3>3. 2 \in I <=> rs[1].ok BY <3>1
    <3> QED BY <3>1, <3>2, <3>3
  <2> HIDE DEF f, I
  <2>8. I \cap RefusedIn(rs) = {f} /\ {1, 2} \ I = {i \in {1, 2} : i > f} /\ I \subseteq DOMAIN rs
    BY <1>5, <1>6, <2>3, <2>4, <2>6, <2>7
  <2>9. LeavesParts(t, w, rs, r, I) BY <1>7, <2>2, <2>8 DEF FreesParts
  <2> QED BY <1>2, <2>5, <2>8, <2>9 DEF LeavesParts
<1>11. CASE t.k # "arr" /\ ~Fails(rs)
  <2>1. r = RefuseVisited(t, w, rs, {})
    BY <1>4, <1>11, Answers DEF TupleDecode, StructDecode
  <2>2. RefusedIn(rs) = {} BY <1>11 DEF Fails, RefusedIn
  <2>3. Lost(t, w) = {}
    <3>1. t.k \in {"tup"} \cup Records BY <1>11 DEF Records
    <3> QED BY <1>6, <2>2, <3>1, LostIs DEF LostBelow, Transparent, DataEnums, Records, Structs
  <2>4. LostIn(t, w, {}) = {} BY DEF LostIn
  <2> QED BY <1>8, <2>1, <2>2, <2>3, <2>4
<1> QED BY <1>9, <1>10, <1>11

(* Data enums: an unknown tag leaves the fields alone. *)
LEMMA LosesEnum ==
  ASSUME Setting, Losing, NoManual, NEW t \in Universe, t.k \in DataEnums, \A j \in DOMAIN t.s : Loses(t.s[j])
  PROVE  Loses(t)
<1> SUFFICES ASSUME NEW w, NEW st, NEW p \in Seq(Nat), IsCarrier(t, w), Sole(w), Avoids(w, p),
                    NEW r, r = Decode(t, w, p, st), ~r.ok
             PROVE  Allocs(w) \ r.old = Lost(t, w)
  BY DEF Loses
<1> DEFINE rs == DecodeParts(t, w, p)
<1>1. r = DecodeRule(t, w, p, st) BY DecodesByRule
<1>2. r = EnumDecode(t, w, rs) BY <1>1 DEF DecodeRule, Structs, DataEnums, Fieldless
<1>3. w.x \notin Marks /\ DOMAIN w.s \subseteq {1}
  <2>1. CarrierLayer(t, w) BY CarrierIs
  <2>2. EnumCarrier(t, w) BY <2>1, CarrierLayers DEF DataEnums
  <2> QED BY <2>2, EnumShape
<1>4. Lost(t, w) = IF KnownTag(t, w) THEN LostIn(t, w, DOMAIN w.s) ELSE Allocs(w)
  BY LostIs DEF LostBelow, LostIn, Kids, Transparent, DataEnums, Records, Structs
<1>5. CASE ~KnownTag(t, w) BY <1>2, <1>4, <1>5, Answers DEF EnumDecode
<1>6. CASE KnownTag(t, w)
  <2>1. PartsDecoded(t, w, p, rs) BY DEF DecodeParts, DecodePart, Kids, PartsDecoded
  <2> HIDE DEF rs
  <2>2. ~Borrowing(t) /\ Readable(t, w) BY <1>6 DEF Borrowing, Transparent, Readable, DataEnums
  <2>3. PartsAccounted(t, w, p, rs) BY <2>1, <2>2, PartsLost
  <2>4. Fails(rs) /\ r = RefuseAtFirst(t, w, rs) BY <1>2, <1>6, Answers DEF EnumDecode
  <2>5. DOMAIN rs = DOMAIN w.s /\ DOMAIN w.s = {1} /\ ~rs[1].ok BY <1>3, <2>3, <2>4 DEF PartsAccounted, Fails
  <2> DEFINE I == Visited(rs)
  <2>6. I = {1} BY <2>5 DEF Visited
  <2>7. r.old = (UNION {rs[j].old : j \in I}) \cup DroppedParts(t, w, rs, I) BY <2>4, Answers DEF RefuseAtFirst
  <2> HIDE DEF I
  <2>8. I \subseteq DOMAIN rs BY <2>5, <2>6
  <2>11. FreesParts(t, w, rs, r, I) BY <2>7, <2>8 DEF FreesParts
  <2>9. LeavesParts(t, w, rs, r, I) BY <1>3, <2>3, <2>11, PartsLeft
  <2>10. I \cap RefusedIn(rs) = DOMAIN w.s /\ HeldIn(w, DOMAIN w.s \ I) = {} BY <2>5, <2>6 DEF RefusedIn, HeldIn
  <2> QED BY <1>4, <1>6, <2>9, <2>10 DEF LeavesParts
<1> QED BY <1>5, <1>6

(* For every owned type without ManuallyDrop, a refused carrier loses *)
(* exactly what Lost names: the rest is freed, and freed once.        *)
THEOREM AllLose ==
  ASSUME Setting, Losing, NoManual
  PROVE  \A t \in Universe : Loses(t)
<1> DEFINE G == {t \in Universe : Loses(t)}
<1>1. ASSUME NEW t \in Universe, \A i \in DOMAIN t.s : t.s[i] \in G PROVE t \in G
  <2>1. \A j \in DOMAIN t.s : Loses(t.s[j]) BY <1>1
  <2>2. CASE t.k \in {"int", "bool", "nz", "unit", "single", "identity"} \cup Fieldless BY <2>2, LosesAlone
  <2>3. CASE t.k \in Transparent BY <2>1, <2>3, LosesTransparent
  <2>4. CASE t.k = "box" BY <2>1, <2>4, LosesBox
  <2>5. CASE t.k \in {"slice", "vec"} BY <2>1, <2>5, LosesBuffer
  <2>6. CASE t.k \in {"opt", "copt", "res", "cres"} /\ ~Borrowing(t) BY <2>1, <2>6, LosesTagged
  <2>7. CASE t.k \in {"opt", "copt", "res", "cres"} /\ Borrowing(t)
    <3>1. t.k \notin Transparent BY <2>7 DEF Transparent
    <3> QED BY <2>1, <2>7, <3>1, LosesNiche
  <2>8. CASE t.k \in {"tup", "arr", "onevariant"} \cup Structs BY <2>1, <2>8, LosesPair
  <2>9. CASE t.k \in DataEnums BY <2>1, <2>9, LosesEnum
  <2> QED BY <2>2, <2>3, <2>4, <2>5, <2>6, <2>7, <2>8, <2>9, Kind DEF Fieldless, Transparent, Structs, DataEnums
<1> HIDE DEF G
<1>2. Universe \subseteq G BY <1>1, RankInduction DEF Setting
<1> QED BY <1>2 DEF G

(* Once refused, what the wire owns that was not freed is Lost. *)
Accounted ==
  ty \in Universe /\ phase = "refused" => ~dec.ok /\ Allocs(wire) \ dec.old = Lost(ty, wire)

(* Receiving establishes it, and every other step leaves the phase. *)
LEMMA AccountedStep ==
  ASSUME Setting, Distinct, Supplied, Losing, NoManual PROVE IInv /\ Accounted /\ [Next]_vars => Accounted'
<1> SUFFICES ASSUME IInv, Accounted, [Next]_vars PROVE Accounted' OBVIOUS
<1>1. CASE Receive
  <2>1. /\ dec' = Decode(ty, wire, DecAt, DefaultDecodeStore(ty)) /\ phase' = (IF dec'.ok THEN "held" ELSE "refused")
        /\ ty' = ty /\ wire' = wire /\ phase = "sent"
    BY <1>1 DEF Receive
  <2> SUFFICES ASSUME ty \in Universe, ~dec'.ok PROVE Allocs(wire) \ dec'.old = Lost(ty, wire)
    BY <2>1 DEF Accounted
  <2>2. IsCarrier(ty, wire) /\ Sole(wire) /\ Avoids(wire, DecAt) BY <2>1 DEF IInv, Carried, Sent
  <2>3. DecAt \in Seq(Nat) /\ Loses(ty) BY Addresses, AllLose
  <2> QED BY <2>1, <2>2, <2>3 DEF Loses
<1>2. CASE EncodeValue \/ EncodeAgain \/ ForeignCall
  <2>1. phase' = "sent" BY <1>2 DEF EncodeValue, EncodeAgain, ForeignCall
  <2> QED BY <2>1 DEF Accounted
<1>3. CASE ForeignEdit \/ Edit \/ SyncCallee \/ SyncCaller
  <2>1. phase' \in {"returned", "edited", "done"} BY <1>3 DEF ForeignEdit, Edit, SyncCallee, SyncCaller
  <2> QED BY <2>1 DEF Accounted
<1>4. CASE UNCHANGED vars BY <1>4 DEF vars, Accounted
<1> QED BY <1>1, <1>2, <1>3, <1>4 DEF Next

(* RefusalReclaims, for every owned type without ManuallyDrop: whatever was *)
(* sent, a refusal frees what the decoder allocated and all of the carrier  *)
(* but Lost.                                                                *)
THEOREM RefusalsReclaim ==
  ASSUME Setting, Distinct, Supplied, Losing, NoManual
  PROVE  Spec => [](ty \in Universe => RefusalReclaims)
<1>1. Init => Accounted BY DEF Init, Accounted
<1>2. IInv /\ Accounted /\ [Next]_vars => Accounted' BY AccountedStep
<1>3. IInv /\ Accounted => (ty \in Universe => RefusalReclaims)
  <2> SUFFICES ASSUME IInv, Accounted, ty \in Universe, phase = "refused"
               PROVE  /\ dec.new \subseteq dec.old
                      /\ dec.old \subseteq Allocs(wire) \cup dec.new
                      /\ Allocs(wire) \ dec.old = Lost(ty, wire)
    BY DEF RefusalReclaims
  <2>1. Moved(wire, DecAt, dec) /\ ~dec.ok BY DEF IInv, Carried, DecodedAs
  <2> QED BY <2>1 DEF Moved, Accounted
<1> QED BY <1>1, <1>2, <1>3, ExchangeInvariant, PTL DEF Spec
=============================================================================
