--------------------------- MODULE MutEncodeStore ----------------------------
(***************************************************************************)
(* RefMutSizedEncodeStore (src/src/sync.rs): the store behind a soft       *)
(* `&mut R` that crosses the boundary as a pointer to a converted carrier. *)
(* RefMutDstEncodeStore has the same life cycle for `&mut str`.  The two   *)
(* builders of src/src/mutable.rs are chosen by MoveOut: impl_copy_mut     *)
(* reads the original, impl_move_out_mut takes it with core::mem::take.    *)
(*                                                                         *)
(* One store is alive at a time, and is reused or replaced by a new one.   *)
(* encode() is two steps because a caller's builder runs in its middle and *)
(* may unwind; finish() ends in one step unless decoding unwinds.          *)
(***************************************************************************)
EXTENDS Naturals

CONSTANTS
  Cells,        \* the places a `&'d mut R` may refer to
  Values,       \* the valid values of R
  Bad,          \* carrier content that decode_move rejects
  Default,      \* R::default()
  NoCarrier,    \* Option::None of `ctype`
  NoCell,       \* Option::None of `original`
  MoveOut,      \* TRUE for impl_move_out_mut, FALSE for impl_copy_mut
  MaxCarriers   \* bound on the carriers built in a behaviour

ASSUME EncodeAssumption ==
  /\ Default \in Values
  /\ Bad \notin Values
  /\ NoCell \notin Cells
  /\ MoveOut \in BOOLEAN
  /\ MaxCarriers \in Nat

Ids == 1..MaxCarriers
Carriers == [id : Ids, val : Values \cup {Bad}, from : Cells]

ASSUME NoCarrierAssumption ==
  /\ NoCarrier \notin Carriers
  /\ NoCarrier \notin Values \cup {Bad}

VARIABLES
  slot,       \* what each place holds
  ctype,      \* the carrier the foreign side points to, with the place it is of
  fields,     \* "clean", or the outcome the field stores' sync() will have
  original,   \* the borrow that will be written back
  pc,         \* "idle", "building" while the builder runs, "gone" when consumed
  target,     \* the place encode() was called with, while the builder runs
  lent,       \* the places whose borrow lives as long as this store
  built,      \* how many carriers were handed out
  decodes,    \* how often each of them was passed to decode_move
  outcome     \* what the last sync() returned: "none", "some"; or "dropped"

vars == <<slot, ctype, fields, original, pc, target, lent, built, decodes, outcome>>

Init ==
  /\ slot \in [Cells -> Values]
  /\ ctype = NoCarrier
  /\ fields = "clean"
  /\ original = NoCell
  /\ pc = "idle"
  /\ target = NoCell
  /\ lent = {}
  /\ built = 0
  /\ decodes = [i \in Ids |-> 0]
  /\ outcome = "none"

-----------------------------------------------------------------------------
(* finish() *)

(* `self.ctype.take()?` found no carrier: nothing else is touched.         *)
FinishNone == ctype = NoCarrier /\ UNCHANGED <<ctype, fields, original, decodes>>

(* Mutant: finish() copies the carrier out instead of taking it.           *)
CopyCarrier ==
  /\ ctype # NoCarrier
  /\ ctype' = ctype
  /\ decodes' = [decodes EXCEPT ![ctype.id] = @ + 1]

(* decode_move consumes the carrier before the field stores are synced.    *)
TakeCarrier ==
  /\ ctype # NoCarrier
  /\ ctype' = NoCarrier
  /\ decodes' = [decodes EXCEPT ![ctype.id] = @ + 1]

(* Both the field stores and the original are taken whatever they hold.    *)
FinishTaken ==
  /\ TakeCarrier
  /\ fields' = "clean"
  /\ original' = NoCell

(* A panic in decode_move, which runs validation code of the type.         *)
FinishPanics == TakeCarrier /\ UNCHANGED <<fields, original>>

Finish == FinishNone \/ FinishTaken

(* Mutant: the decoded value is restored without its validation.           *)
ValidatedUnchecked == ctype # NoCarrier /\ original # NoCell /\ fields # "fail"

(* Mutant: the result of the field stores is dropped (no `synced?`).       *)
ValidatedNoFields == ctype # NoCarrier /\ original # NoCell /\ ctype.val \in Values

(* finish() returns a pair: `synced?` and `value?` both succeed.           *)
Validated == ctype # NoCarrier /\ original # NoCell /\ fields # "fail" /\ ctype.val \in Values

-----------------------------------------------------------------------------
(* encode() *)

(* `drop(self.finish())`: a pending conversion is decoded, not written.    *)
EncodeReuse(c) ==
  /\ pc = "idle"
  /\ c \notin lent
  /\ built < MaxCarriers
  /\ lent' = lent \cup {c}
  /\ \/ Finish /\ pc' = "building" /\ target' = c
     \/ FinishPanics /\ UNCHANGED <<pc, target>>
  /\ UNCHANGED <<slot, built, outcome>>

(* Mutant: the builder copies a value it must move out.                    *)
LeftCopied(v) == v

(* What the builder leaves in the place: impl_copy_mut reads the value,    *)
(* impl_move_out_mut takes it.                                             *)
Left(v) == IF MoveOut THEN Default ELSE v

(* Mutant: `original` is kept when one is already there.                   *)
EncodeBuiltKeepsOriginal ==
  /\ pc = "building"
  /\ built' = built + 1
  /\ ctype' = [id |-> built + 1, val |-> slot[target], from |-> target]
  /\ slot' = [slot EXCEPT ![target] = Left(@)]
  /\ original' = IF original = NoCell THEN target ELSE original
  /\ fields' \in {"clean", "ok"}
  /\ pc' = "idle"
  /\ target' = NoCell
  /\ UNCHANGED <<lent, decodes, outcome>>

(* The builder returned: the original, then the carrier, are installed.    *)
EncodeBuilt ==
  /\ pc = "building"
  /\ built' = built + 1
  /\ ctype' = [id |-> built + 1, val |-> slot[target], from |-> target]
  /\ slot' = [slot EXCEPT ![target] = Left(@)]
  /\ original' = target
  /\ fields' \in {"clean", "ok"}
  /\ pc' = "idle"
  /\ target' = NoCell
  /\ UNCHANGED <<lent, decodes, outcome>>

(* The builder unwound: a value it had taken out by then is gone, and the  *)
(* field stores it had filled stay filled.                                 *)
EncodePanics ==
  /\ pc = "building"
  /\ slot' \in {slot, [slot EXCEPT ![target] = Left(@)]}
  /\ fields' \in {fields, "ok"}
  /\ pc' = "idle"
  /\ target' = NoCell
  /\ UNCHANGED <<ctype, original, lent, built, decodes, outcome>>

-----------------------------------------------------------------------------
(* The foreign side writes through the pointer encode() returned.          *)
ForeignWrite ==
  /\ pc = "idle"
  /\ ctype # NoCarrier
  /\ \E v \in Values \cup {Bad} : ctype' = [ctype EXCEPT !.val = v]
  /\ fields' \in (IF fields = "clean" THEN {"clean"} ELSE {"ok", "fail"})
  /\ UNCHANGED <<slot, original, pc, target, lent, built, decodes, outcome>>

(* The store is consumed: its borrows end.  Its Drop calls finish() again  *)
(* and finds no carrier.                                                   *)
Consume ==
  /\ pc = "idle"
  /\ ctype' = NoCarrier
  /\ decodes' = IF ctype = NoCarrier THEN decodes ELSE [decodes EXCEPT ![ctype.id] = @ + 1]
  /\ fields' = "clean"
  /\ original' = NoCell
  /\ pc' = "gone"
  /\ lent' = {}
  /\ UNCHANGED <<target, built>>

(* `let (original, value) = self.finish()?; *original = value;` *)
Sync ==
  /\ Consume
  /\ Validated
  /\ slot' = [slot EXCEPT ![original] = ctype.val]
  /\ outcome' = "some"

(* finish() returned None, or unwound, and nothing is written.             *)
SyncFails ==
  /\ Consume
  /\ \/ ~Validated
     \/ ctype # NoCarrier    \* decode_move panics
  /\ UNCHANGED slot
  /\ outcome' = "none"

Drop ==
  /\ Consume
  /\ UNCHANGED slot
  /\ outcome' = "dropped"

(* The places are free to be lent to another store.                        *)
NewStore ==
  /\ pc = "gone"
  /\ pc' = "idle"
  /\ UNCHANGED <<slot, ctype, fields, original, target, lent, built, decodes, outcome>>

(* Rust code uses a place that no store borrows.                           *)
RustWrite(c) ==
  /\ c \notin lent
  /\ \E v \in Values : slot' = [slot EXCEPT ![c] = v]
  /\ UNCHANGED <<ctype, fields, original, pc, target, lent, built, decodes, outcome>>

Next ==
  \/ \E c \in Cells : EncodeReuse(c) \/ RustWrite(c)
  \/ EncodeBuilt
  \/ EncodePanics
  \/ ForeignWrite
  \/ Sync
  \/ SyncFails
  \/ Drop
  \/ NewStore

Spec == Init /\ [][Next]_vars

-----------------------------------------------------------------------------
(* Types: a carrier is pending only while no builder runs.                 *)
TypeOK ==
  /\ slot \in [Cells -> Values]
  /\ ctype \in Carriers \cup {NoCarrier}
  /\ fields \in {"clean", "ok", "fail"}
  /\ original \in Cells \cup {NoCell}
  /\ pc \in {"idle", "building", "gone"}
  /\ target \in Cells \cup {NoCell}
  /\ lent \in SUBSET Cells
  /\ built \in 0..MaxCarriers
  /\ decodes \in [Ids -> Nat]
  /\ outcome \in {"none", "some", "dropped"}

(* Every carrier handed out is passed to decode_move exactly once: by      *)
(* reuse, sync() or Drop, however a builder or a decoder unwinds; the one  *)
(* still pending was not.  decode_move takes ownership, so a second call   *)
(* is a double free and none at all is a leak.                             *)
CarrierDecodedOnce ==
  \A i \in Ids : decodes[i] = IF i > built \/ (ctype # NoCarrier /\ ctype.id = i) THEN 0 ELSE 1

(* A pending carrier is always beside the borrow it was built from, and    *)
(* that borrow is still held: what an unwound finish() leaves in           *)
(* `original` is never written from another place's carrier.               *)
PendingOfOriginal ==
  ctype # NoCarrier => pc = "idle" /\ original = ctype.from /\ original \in lent

(* The store changes a place in two ways only: move-out staging leaves the *)
(* default in the place encode() was called with, and sync() stores a      *)
(* value in the place the carrier came from, after the carrier and its field stores     *)
(* validated (mutable.rs: "Synchronization must validate changes before    *)
(* restoring Rust values").                                                *)
WritebackOnlyToSource ==
  [][\A c \in Cells : slot'[c] # slot[c] /\ (c \in lent \/ pc' # pc) =>
       \/ MoveOut /\ pc = "building" /\ target = c /\ slot'[c] = Default
       \/ /\ ctype # NoCarrier
          /\ ctype.from = c
          /\ fields # "fail"
          /\ slot'[c] = ctype.val
          /\ slot'[c] \in Values
          /\ outcome' = "some"]_vars

(* sync() answers for what it did: Some means the pending value, whatever  *)
(* the foreign side made of it, is now in its place; None leaves every     *)
(* place alone.                                                            *)
SyncAnswers ==
  [][pc' = "gone" /\ pc # "gone" =>
       IF outcome' = "some"
       THEN ctype # NoCarrier /\ slot' = [slot EXCEPT ![ctype.from] = ctype.val]
       ELSE slot' = slot]_vars

(* The store implements Writeback: staged is the carrier it lent out.      *)
Staged == [c \in Cells |-> IF ctype # NoCarrier /\ ctype.from = c THEN ctype.val ELSE NoCarrier]
W == INSTANCE Writeback WITH cell <- slot, staged <- Staged, Nothing <- NoCarrier
ImplementsWriteback == W!WBSpec

=============================================================================
