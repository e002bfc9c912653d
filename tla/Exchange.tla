------------------------------ MODULE Exchange ------------------------------
(***************************************************************************)
(* The life of one exchanged value: encoded by the caller, possibly twice  *)
(* into the same store, decoded by the callee, edited, and synchronized by *)
(* both sides.  A foreign caller sends any carrier of the right shape; a   *)
(* foreign callee leaves any carrier where it was lent one.                *)
(***************************************************************************)
EXTENDS Conversion

CONSTANTS
  (* The inputs: the values of a type, what they point at allocated under  *)
  (* an address; what foreign code may turn a carrier into; and what the   *)
  (* borrower, Rust code or not, may leave in the places lent exclusively. *)
  Values(_, _), Rewrites(_, _), Lent(_, _, _),
  (* Readings of values and carriers. *)
  Strip(_), Mentions(_, _), Lost(_, _), Settles(_, _, _), After(_, _, _)

VARIABLES
  ty,        \* the type exchanged
  mode,      \* the caller's encode functions: "checked" or "unchecked"
  phase,     \* start, sent, held, refused, edited, returned, done
  foreign,   \* the side that is foreign code: "none", "caller" or "callee"
  prior,     \* a value encoded into the same store before, or NoneV
  val,       \* the caller's value
  enc,       \* what encoding it answered
  wire,      \* the carrier, with the memory it points at
  dec,       \* what decoding answered
  settled    \* what the two synchronizations answered

vars == <<ty, mode, phase, foreign, prior, val, enc, wire, dec, settled>>

(* What encoding and decoding allocate is named after these addresses. *)
CallerAt == <<11>>
AgainAt == <<12>>
EncAt == <<13>>
EncAgainAt == <<14>>
DecAt == <<15>>

-----------------------------------------------------------------------------
Init ==
  /\ ty \in Types
  /\ mode \in {"checked", "unchecked"}
  /\ val \in Values(ty, CallerAt)
  /\ phase = "start" /\ foreign = "none" /\ prior = NoneV
  /\ wire = Null /\ enc = Kept(Null) /\ dec = Kept(Null)
  /\ settled = [caller |-> TRUE, callee |-> TRUE]

EncodeValue ==
  /\ phase = "start"
  /\ enc' = Encode(mode, ty, val, EncAt, NoStore)
  /\ wire' = enc'.n
  /\ phase' = "sent"
  /\ UNCHANGED <<ty, mode, foreign, prior, val, dec, settled>>

(* Another value into the store that was not synchronized for the first. *)
EncodeAgain ==
  /\ phase = "sent" /\ foreign = "none" /\ prior = NoneV /\ Lends(val) # {}
  /\ val' \in Values(ty, AgainAt)
  /\ enc' = Encode(mode, ty, val', EncAgainAt, enc.st)
  /\ wire' = enc'.n
  /\ prior' = val
  /\ UNCHANGED <<ty, mode, phase, foreign, dec, settled>>

(* Any bits, in the shape of the type, owning what they own alone. *)
Sent(t, w) == IsCarrier(t, w) /\ Sole(w) /\ Avoids(w, DecAt)

ForeignCall ==
  /\ phase = "sent" /\ foreign = "none" /\ prior = NoneV /\ mode = "checked"
  /\ wire' \in {w \in Rewrites(ty, wire) \ {wire} : Sent(ty, w)}
  /\ foreign' = "caller"
  /\ UNCHANGED <<ty, mode, phase, prior, val, enc, dec, settled>>

Receive ==
  /\ phase = "sent"
  /\ dec' = Decode(ty, wire, DecAt, DefaultDecodeStore(ty))
  /\ phase' = IF dec'.ok THEN "held" ELSE "refused"
  /\ UNCHANGED <<ty, mode, foreign, prior, val, enc, wire, settled>>

(* The unchecked functions trust the callee; only the checked ones do not. *)
ForeignEdit ==
  /\ phase = "sent" /\ foreign = "none" /\ mode = "checked" /\ Lends(wire) # {}
  /\ wire' \in Lent(FALSE, ty, wire)
  /\ foreign' = "callee" /\ phase' = "returned"
  /\ UNCHANGED <<ty, mode, prior, val, enc, dec, settled>>

Edit ==
  /\ phase = "held"
  /\ dec' \in {[dec EXCEPT !.n = v] : v \in Lent(TRUE, ty, dec.n)}
  /\ phase' = "edited"
  /\ UNCHANGED <<ty, mode, foreign, prior, val, enc, wire, settled>>

SyncCallee ==
  /\ phase = "edited"
  /\ LET s == SyncDecode(dec.st, Lends(dec.n))
     IN /\ wire' = Assign(wire, NoAddr, Lends(dec.n) \cup s.writes)
        /\ settled' = [settled EXCEPT !.callee = s.ok]
  /\ phase' = "returned"
  /\ UNCHANGED <<ty, mode, foreign, prior, val, enc, dec>>

SyncCaller ==
  /\ phase = "returned" /\ foreign # "caller"
  /\ LET s == SyncEncode(enc.st, Lends(wire))
         left(v) == Assign(v, NoAddr, Vacated(enc.st))
     IN /\ val' = Assign(left(val), NoAddr, Lends(wire) \cup s.writes)
        /\ settled' = [settled EXCEPT !.caller = s.ok]
  /\ phase' = "done"
  /\ UNCHANGED <<ty, mode, foreign, prior, enc, wire, dec>>

Next == EncodeValue \/ EncodeAgain \/ ForeignCall \/ Receive \/ ForeignEdit \/ Edit
        \/ SyncCallee \/ SyncCaller

Spec == Init /\ [][Next]_vars

-----------------------------------------------------------------------------
(* Reading values and carriers without their addresses. *)
StripRule(n) == [x |-> n.x, s |-> [i \in Kids(n) |-> Strip(n.s[i])]]

MentionsRule(K, t) == t.k \in K \/ \E i \in DOMAIN t.s : Mentions(K, t.s[i])
OwnedType == ~Mentions({"ref", "mut"}, ty)

Accepts(t, w) == Decode(t, w, DecAt, DefaultDecodeStore(t)).ok
HasPayload(w) == w.x \in {"0", "1"} /\ w.s # <<>>
BadHeader(w) == w.a = NoAddr \/ w.x = "bad"

(* What is lost when the carrier `w` is refused: a box the validator      *)
(* refused, what lies behind a header that names no buffer, the elements   *)
(* of a buffer freed as carriers, and what follows a tuple's refusal.      *)
(* Nothing is when a struct's closure refuses fields that were accepted.   *)
LostBelow(t, w, refused) ==
  LET below(I) == UNION {Lost(Part(t, w, i), w.s[i]) : i \in I}
      whole(I) == UNION {Allocs(w.s[i]) : i \in I}
  IN CASE t.k = "box" -> IF Stable(Elem(t)) THEN Allocs(w) ELSE below(Kids(w))
       [] t.k \in {"slice", "vec"} ->
            IF BadHeader(w) THEN Allocs(w) ELSE IF Stable(Elem(t)) THEN whole(Kids(w)) ELSE below(refused)
       [] t.k = "opt" /\ NicheOption(t) -> Lost(Elem(t), w)
       [] t.k = "res" /\ OkNiche(t) -> Lost(t.s[1], w)
       [] t.k = "res" /\ ErrNiche(t) -> Lost(t.s[2], w)
       [] t.k \in {"opt", "copt", "res", "cres"} /\ ~Borrowing(t) -> IF HasPayload(w) THEN below({1}) ELSE Allocs(w)
       [] t.k = "arr" -> below(refused)
       [] t.k \in Transparent -> Lost(Elem(t), w)
       [] t.k \in DataEnums -> IF KnownTag(t, w) THEN below(Kids(w)) ELSE Allocs(w)
       [] t.k \in {"tup"} \cup Records /\ refused # {} ->
            LET f == CHOOSE i \in refused : \A j \in refused : i <= j
            IN below({f}) \cup whole({i \in Kids(w) : i > f})
       [] OTHER -> {}

LostRule(t, w) == LostBelow(t, w, {i \in Kids(w) : ~Accepts(Part(t, w, i), w.s[i])})

(* What the caller finds in `v` once it synchronized what a callee left in *)
(* the carrier `w`, read off the type: each place lent is restored when    *)
(* the content is a value, except behind a refused member of a tuple.      *)
ElementWise(t) == t.k \in {"arr", "seq", "vec"}
TakenFrom(t, v) == IF t.k \in {"box", "slice", "copt"} THEN DefaultOf(t, NoAddr) ELSE v
SameHeader(t, w) == t.k = "vec" => ~BadHeader(w)
Element(w, i) == Node("mut", NoAddr, <<w.s[i]>>)
WirePart(t, w) == IF t.k = "opt" /\ ~NicheOption(t) THEN w.s[1] ELSE w

SettlesRule(t, v, w) ==
  CASE t.k \in Transparent -> Settles(Elem(t), v, w)
    [] t.k = "mut" /\ Robust(Elem(t)) -> TRUE
    [] t.k = "mut" /\ ElementWise(Elem(t)) ->
         /\ SameHeader(Elem(t), w.s[1])
         /\ \A i \in Kids(w.s[1]) : Settles(Mut(Elem(Elem(t))), Element(v.s[1], i), Element(w.s[1], i))
    [] t.k = "mut" -> Accepts(Elem(t), w.s[1])
    [] t.k = "opt" -> v.x = "None" \/ Settles(Elem(t), v.s[1], WirePart(t, w))
    [] t.k = "res" /\ (OkNiche(t) \/ ErrNiche(t)) -> IsNiche(t.s[IF OkNiche(t) THEN 1 ELSE 2], w)
                                                    \/ Settles(Part(t, v, 1), v.s[1], w)
    [] OTHER -> \A i \in Kids(v) : Settles(Part(t, v, i), v.s[i], w.s[i])

AfterRule(t, v, w) ==
  LET settled1(i) == Settles(Part(t, v, i), v.s[i], w.s[i])
      member(i) == IF \A j \in 1..(i - 1) : settled1(j) THEN After(Part(t, v, i), v.s[i], w.s[i])
                   ELSE Assign(v.s[i], NoAddr, Lends(w.s[i]))
      restored(u, x, c) == IF Accepts(u, c) THEN Decode(u, c, DecAt, NoStore).n ELSE TakenFrom(u, x)
      element(i) == After(Mut(Elem(Elem(t))), Element(v.s[1], i), Element(w.s[1], i)).s[1]
  IN CASE t.k \in Transparent -> After(Elem(t), v, w)
       [] t.k = "mut" /\ Robust(Elem(t)) -> [v EXCEPT !.s = w.s]
       [] t.k = "mut" /\ ElementWise(Elem(t)) ->
            IF Kids(w.s[1]) # Kids(v.s[1]) THEN v
            ELSE [v EXCEPT !.s[1].s = [i \in DOMAIN @ |-> element(i)]]
       [] t.k = "mut" -> [v EXCEPT !.s = <<restored(Elem(t), v.s[1], w.s[1])>>]
       [] t.k = "opt" -> IF v.x = "None" THEN v ELSE SomeV(After(Elem(t), v.s[1], WirePart(t, w)))
       [] t.k = "res" /\ (OkNiche(t) \/ ErrNiche(t)) ->
            IF IsNiche(t.s[IF OkNiche(t) THEN 1 ELSE 2], w) THEN v
            ELSE [v EXCEPT !.s = <<After(Part(t, v, 1), v.s[1], w)>>]
       [] t.k \in {"tup"} \cup Records -> [v EXCEPT !.s = [i \in DOMAIN @ |-> member(i)]]
       [] OTHER -> [v EXCEPT !.s = [i \in DOMAIN @ |-> After(Part(t, v, i), @[i], w.s[i])]]

(* The checked conversion of a niche result keeps the store of a variant    *)
(* it no longer has.                                                       *)
NicheResult(t) == t.k = "res" /\ (OkNiche(t) \/ ErrNiche(t))
NicheSide(t, v) == NicheResult(t) /\ (OkNiche(t) <=> v.x = "Err")

-----------------------------------------------------------------------------
(* What the sides hold is what their types say. *)
TypeOK ==
  /\ ty \in Types /\ mode \in {"checked", "unchecked"}
  /\ phase \in {"start", "sent", "held", "refused", "edited", "returned", "done"}
  /\ foreign \in {"none", "caller", "callee"}
  /\ phase = "start" => IsValue(ty, val) /\ Sole(val)
  /\ phase = "sent" => Sent(ty, wire)

(* Whatever arrives, what a decoder accepts is a value of its type: no bit  *)
(* pattern gets past it that Rust code may not hold.                        *)
OnlyValues == phase = "held" => IsValue(ty, dec.n) /\ Sole(dec.n)

(* Two Rust sides agree on the value: what the callee decodes is what the   *)
(* caller encoded, and is never refused, whichever encode functions and     *)
(* whichever carrier, tag or niche the type is sent with.                   *)
RoundTrip ==
  foreign = "none" /\ phase \in {"held", "refused"} => dec.ok /\ Strip(dec.n) = Strip(val)

(* No allocation is owned twice or by nobody: those of the value and those  *)
(* encoding made are the carrier's or were freed, and likewise on decoding, *)
(* from a foreign caller as well.                                           *)
Ownership ==
  OwnedType =>
    /\ phase = "sent" /\ foreign = "none" =>
         /\ Allocs(wire) = (OwnedBy(ty, val) \cup enc.new) \ enc.old
         /\ enc.old \subseteq OwnedBy(ty, val) \cup enc.new
    /\ phase = "held" =>
         /\ OwnedBy(ty, dec.n) = (Allocs(wire) \cup dec.new) \ dec.old
         /\ dec.old \subseteq Allocs(wire) \cup dec.new

(* A refused owned carrier is reclaimed, and nothing else is freed: what    *)
(* the decoder allocated is gone, and of the carrier exactly Lost remains.  *)
RefusalReclaims ==
  OwnedType /\ phase = "refused" =>
    /\ dec.new \subseteq dec.old
    /\ dec.old \subseteq Allocs(wire) \cup dec.new
    /\ Allocs(wire) \ dec.old = Lost(ty, wire)

(* The decoder of a Stable type accepts exactly what its validator accepts, *)
(* and no decoder of a type with a niche accepts the niche, so the carrier  *)
(* of an Option around it is never ambiguous.  The one decoder that accepts *)
(* its niche is that of a struct that declares its own, which only          *)
(* validation behind a borrow, a box or a vector compares with.             *)
OnlyValidAccepted ==
  phase \in {"held", "refused"} =>
    /\ Stable(ty) => (dec.ok <=> IsValid(ty, wire) \/ (ty.k = "trap" /\ IsNiche(ty, wire)))
    /\ HasNiche(ty) /\ IsNiche(ty, wire) => (dec.ok <=> ty.k = "trap")

(* The checked and the unchecked encoding of one value are the same carrier *)
(* but for the addresses in it.                                             *)
TwinsAgree ==
  phase = "sent" /\ foreign = "none" /\ prior = NoneV =>
    Strip(wire) = Strip(Encode(IF mode = "checked" THEN "unchecked" ELSE "checked",
                               ty, val, EncAt, NoStore).n)

(* Whatever a foreign callee leaves, the caller's sync restores the places  *)
(* it lent as the type says (After), nothing else changes, and the answer   *)
(* tells whether all of them were restored.                                 *)
SyncWrites ==
  [][phase = "returned" /\ foreign = "callee" /\ prior = NoneV =>
       /\ Strip(val') = Strip(After(ty, val, wire))
       /\ settled'.caller = Settles(ty, val, wire)]_vars

(* A store that is encoded into again restores the last value only: its     *)
(* sync writes to no place of the value before, except for the checked      *)
(* niche result, whose store survives a variant without payload.            *)
StoreFresh ==
  phase = "sent" /\ prior # NoneV /\ ~(mode = "checked" /\ NicheSide(ty, val)) =>
    LET marked == {<<x[1], Null>> : x \in SyncEncode(enc.st, Lends(wire)).writes}
    IN Assign(prior, NoAddr, marked) = prior

(* An exchange between two Rust sides settles: both synchronizations        *)
(* succeed and the caller finds what the callee left.  A result whose       *)
(* payload is an unarmed exclusive borrow fails the callee's.               *)
SyncSettles ==
  phase = "done" /\ foreign = "none" =>
    /\ settled.caller
    /\ settled.callee <=> ~(NicheSide(ty, val) /\ DefaultDecodeStore(ty).k = "unarmed")
    /\ Strip(val) = Strip(dec.n)
=============================================================================
