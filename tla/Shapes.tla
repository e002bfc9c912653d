------------------------------- MODULE Shapes -------------------------------
(***************************************************************************)
(* Which nodes are values of a type, and which are carriers of it: what    *)
(* Rust code may hold, and what may arrive.  A carrier has the shape its C *)
(* type gives it and any bits; a value also obeys Rust's validity rules.   *)
(* A unique owner is a node that reaches each of its allocations once.     *)
(***************************************************************************)
EXTENDS DerivedConversion

CONSTANTS
  IsValue(_, _),     \* the node is a value of the type
  IsCarrier(_, _),   \* the node is a carrier of the type
  Allocs(_),         \* the allocations a node owns
  Sole(_)            \* no allocation is owned twice by the node

(* The addresses at and below p: those of a conversion that was given p. *)
Under(p) == {a \in Seq(Nat) : Len(p) <= Len(a) /\ \A j \in 1..Len(p) : a[j] = p[j]}
Avoids(n, p) == \A a \in Allocs(n) : a \notin Under(p)

Tuple(s) == Len(s) \in Nat /\ DOMAIN s = 1..Len(s)

(* Owning pointers; what lies behind a vector's header may be unreadable. *)
Owning == {"box", "vec", "bad"}
Marks == Owning \cup {"ref", "mut"}
Here(n) == IF n.x \in Owning THEN {n.a} ELSE {}
Below(n) == UNION {Allocs(n.s[i]) : i \in DOMAIN n.s}

AllocsRule(n) == IF n.x \in {"ref", "mut"} THEN {} ELSE Here(n) \cup Below(n)

SoleRule(n) ==
  \/ n.x \in {"ref", "mut"}
  \/ /\ Here(n) \cap Below(n) = {}
     /\ \A i, j \in DOMAIN n.s : i # j => Allocs(n.s[i]) \cap Allocs(n.s[j]) = {}
     /\ \A i \in DOMAIN n.s : Sole(n.s[i])

Scalar(n) == n = Atom(n.x) /\ n.x \notin Marks
Around(x, a, n) == DOMAIN n.s = {1} /\ n = Node(x, a, <<n.s[1]>>)
Pointing(x, n) == n.a # NoAddr /\ Around(x, n.a, n)
Buffered(x, n) == n.a # NoAddr /\ n = Node(x, n.a, n.s) /\ Tuple(n.s)
Pair(n) == DOMAIN n.s = {1, 2} /\ n = Compound(<<n.s[1], n.s[2]>>)

(* The names of the variants of a type, in order. *)
Names(t) == IF Stable(t) \/ t.k = "cenum" THEN VariantTags(t) ELSE SubSeq(VariantNames, 1, Len(VariantTags(t)))

ValueLayer(t, v) ==
  CASE t.k = "int" -> Scalar(v)
    [] t.k = "bool" -> Scalar(v) /\ v.x \in {"0", "1"}
    [] t.k = "nz" -> Scalar(v) /\ v.x # "0"
    [] t.k \in {"unit", "single"} -> v = UnitV
    [] t.k \in Fieldless -> Scalar(v) /\ \E i \in DOMAIN Names(t) : v.x = Names(t)[i]
    [] t.k \in {"box", "ref", "mut"} -> Pointing(t.k, v)
    [] t.k \in {"slice", "vec"} -> Buffered("vec", v)
    [] t.k = "seq" -> v = Compound(v.s) /\ Tuple(v.s)
    [] t.k = "opt" -> v = NoneV \/ Around("Some", NoAddr, v)
    [] t.k = "copt" -> v = Zeroed \/ Around("1", NoAddr, v)
    [] t.k = "res" -> Around("Ok", NoAddr, v) \/ Around("Err", NoAddr, v)
    [] t.k = "cres" -> Around("0", NoAddr, v) \/ Around("1", NoAddr, v)
    [] t.k \in {"tup", "arr"} \cup Records -> Pair(v) /\ Satisfies(t, v)
    [] t.k \in DataEnums -> \E i \in DOMAIN Names(t) :
                              IF i \in DOMAIN t.s THEN Around(Names(t)[i], NoAddr, v) ELSE v = Atom(Names(t)[i])
    [] t.k \in Transparent -> IsValue(Elem(t), v)

IsValueRule(t, v) ==
  /\ ValueLayer(t, v)
  /\ t.k \notin Transparent => \A i \in DOMAIN v.s : IsValue(Part(t, v, i), v.s[i])

(* A tag byte and a payload, which the given tags have and others may have. *)
TagAndPayload(tags, w) == /\ w.x \notin Marks
                          /\ \/ w = Atom(w.x) /\ w.x \notin tags
                             \/ Around(w.x, NoAddr, w)

EnumCarrier(t, w) ==
  LET i == VariantIn(VariantTags(t), w.x)
  IN CASE i = 0 -> TagAndPayload({}, w)
       [] i \in DOMAIN t.s -> TagAndPayload({w.x}, w)
       [] OTHER -> Scalar(w)

(* Where a niche stands for a variant without payload, the rest of the     *)
(* carrier owns nothing.                                                   *)
NicheCarrier(u, w) == IF IsNiche(u, w) THEN Allocs(w) = {} ELSE IsCarrier(u, w)

(* The types whose carrier is that of one of their parameters. *)
Borrowing(t) == t.k \in Transparent \/ (t.k = "opt" /\ NicheOption(t))
                \/ (t.k = "res" /\ (OkNiche(t) \/ ErrNiche(t)))

CarrierLayer(t, w) ==
  CASE t.k \in {"int", "bool", "nz"} \cup Fieldless -> Scalar(w)
    [] t.k \in {"unit", "single"} -> w = UnitV
    [] t.k \in {"box", "ref", "mut"} -> w = Null \/ Pointing(t.k, w)
    [] t.k = "slice" -> w = Null \/ Buffered("vec", w)
    [] t.k = "vec" -> w = Null \/ Buffered("vec", w) \/ Buffered("bad", w)
    [] t.k = "seq" -> w = Compound(w.s) /\ Tuple(w.s)
    [] t.k = "opt" -> IF NicheOption(t) THEN NicheCarrier(Elem(t), w)
                      ELSE (Scalar(w) /\ w.x # "1") \/ Around("1", NoAddr, w)
    [] t.k = "copt" -> (Scalar(w) /\ w.x # "1") \/ Around("1", NoAddr, w)
    [] t.k = "res" -> CASE OkNiche(t) -> NicheCarrier(t.s[1], w)
                        [] ErrNiche(t) -> NicheCarrier(t.s[2], w)
                        [] OTHER -> TagAndPayload({"0", "1"}, w)
    [] t.k = "cres" -> TagAndPayload({"0", "1"}, w)
    [] t.k \in {"tup", "arr"} \cup Records -> Pair(w)
    [] t.k \in DataEnums -> EnumCarrier(t, w)
    [] t.k \in Transparent -> IsCarrier(Elem(t), w)

(* The payload behind an unknown tag is of no type. *)
Readable(t, w) == CASE t.k \in {"res", "cres"} -> w.x \in {"0", "1"}
                    [] t.k \in DataEnums -> KnownTag(t, w)
                    [] OTHER -> TRUE

IsCarrierRule(t, w) ==
  /\ CarrierLayer(t, w)
  /\ ~Borrowing(t) /\ Readable(t, w) => \A i \in DOMAIN w.s : IsCarrier(Part(t, w, i), w.s[i])
=============================================================================
