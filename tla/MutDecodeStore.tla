--------------------------- MODULE MutDecodeStore ----------------------------
(***************************************************************************)
(* RefMutSizedDecodeStore::decode (src/src/sync.rs): the store behind a    *)
(* `&mut R` that Rust code gets for a foreign carrier of a type converted  *)
(* as a whole (tuples, arrays, Option, Result, `&mut &T`).  The value Rust *)
(* changed is encoded over the source when the store is synced or reused,  *)
(* the stores of its fields first.                                         *)
(***************************************************************************)
EXTENDS DecodeStore

CONSTANTS
  Sources,       \* the foreign places that hold a carrier
  NoValue,       \* Option::None of `value`
  NoSource,      \* Option::None of `writeback`
  NullReleases   \* TRUE: callers take decode(null) for the reuse that ends
                 \* the exclusive access decode() asks for

ASSUME DecodeAssumption ==
  /\ Bad \notin Values
  /\ NoValue \notin Values \cup {Bad}
  /\ NoSource \notin Sources
  /\ NullReleases \in BOOLEAN

VARIABLES
  wb,        \* the source in `writeback`
  pc,        \* "idle", "building" while `build` runs, "gone" when consumed
  target     \* the source decode() was called with, while `build` runs

vars == <<mem, value, wb, fields, pc, target, held, answer>>

Init ==
  /\ mem \in [Sources -> Values \cup {Bad}]
  /\ value = NoValue
  /\ wb = NoSource
  /\ fields = "clean"
  /\ pc = "idle"
  /\ target = NoSource
  /\ held = NoSource
  /\ answer = "fresh"

-----------------------------------------------------------------------------
(* finish(): `writeback`, `value` and the field stores are taken first.    *)
Taken ==
  /\ value' = NoValue
  /\ wb' = NoSource
  /\ fields' = "clean"

(* Mutant: the result of the field stores is ignored.                      *)
FinishIgnoringFields ==
  /\ wb # NoSource
  /\ Taken
  /\ mem' = [mem EXCEPT ![wb] = value]

(* The fields synced: `source.write(encode_move(value))`.                  *)
FinishOk ==
  /\ wb # NoSource
  /\ fields # "broken"
  /\ Taken
  /\ mem' = [mem EXCEPT ![wb] = value]

(* The fields did not sync: the whole value is not committed.              *)
FinishFails ==
  /\ wb # NoSource
  /\ fields = "broken"
  /\ Taken
  /\ UNCHANGED mem

-----------------------------------------------------------------------------
(* A null source is refused before a pending writeback is looked at.       *)
DecodeNull ==
  /\ pc = "idle"
  /\ answer' = "none"
  /\ held' = IF NullReleases THEN NoSource ELSE held
  /\ UNCHANGED <<mem, value, wb, fields, pc, target>>

(* Mutant: reuse forgets the pending value instead of syncing it.          *)
DecodeForgets(s) ==
  /\ pc = "idle"
  /\ Taken
  /\ pc' = "building" /\ target' = s /\ held' = s /\ answer' = "pending"
  /\ UNCHANGED mem

(* decode() of a source: a pending value is finished first, and a failure  *)
(* of that ends the call before anything is built.                         *)
Decode(s) ==
  /\ pc = "idle"
  /\ \/ /\ \/ wb = NoSource /\ UNCHANGED <<mem, value, wb, fields>>
           \/ FinishOk
        /\ pc' = "building" /\ target' = s /\ held' = s /\ answer' = "pending"
     \/ /\ FinishFails
        /\ held' = NoSource /\ answer' = "none"
        /\ UNCHANGED <<pc, target>>

(* Mutant: the writeback is armed with another source than this call's.    *)
BuildWrongSource ==
  /\ pc = "building"
  /\ mem[target] \in Values
  /\ value' = mem[target]
  /\ wb' = CHOOSE s \in Sources : TRUE
  /\ fields' \in {"clean", "armed"}
  /\ pc' = "idle" /\ target' = NoSource /\ answer' = "some"
  /\ UNCHANGED <<mem, held>>

(* `build` read the source and every field store decoded.                  *)
BuildOk ==
  /\ pc = "building"
  /\ mem[target] \in Values
  /\ value' = mem[target]
  /\ wb' = target
  /\ fields' \in {"clean", "armed"}
  /\ pc' = "idle" /\ target' = NoSource /\ answer' = "some"
  /\ UNCHANGED <<mem, held>>

(* `build` returned None or unwound, after arming any of the field stores. *)
BuildFails ==
  /\ pc = "building"
  /\ fields' \in {fields, "armed"}
  /\ pc' = "idle" /\ target' = NoSource /\ held' = NoSource /\ answer' = "none"
  /\ UNCHANGED <<mem, value, wb>>

(* Rust code writes through the `&mut R` the last decode() returned, or    *)
(* through a reference inside it, which a field store may then reject.     *)
RustWrite ==
  /\ pc = "idle" /\ answer = "some"
  /\ \E v \in Values : value' = v
  /\ fields' \in IF fields = "clean" THEN {"clean"} ELSE {"armed", "broken"}
  /\ UNCHANGED <<mem, wb, pc, target, held, answer>>

(* The foreign side uses any carrier it has not left to the store.         *)
ForeignWrite(s) ==
  /\ s # held
  /\ \E v \in Values \cup {Bad} : mem' = [mem EXCEPT ![s] = v]
  /\ UNCHANGED <<value, wb, fields, pc, target, held, answer>>

(* sync() consumes the store; one that armed nothing answers None.         *)
Sync ==
  /\ pc = "idle"
  /\ \/ FinishOk /\ answer' = "some"
     \/ FinishFails /\ answer' = "none"
     \/ wb = NoSource /\ Taken /\ UNCHANGED mem /\ answer' = "none"
  /\ pc' = "gone" /\ held' = NoSource
  /\ UNCHANGED target

(* The store has no Drop: an armed value is given up.                      *)
Drop ==
  /\ pc = "idle"
  /\ Taken
  /\ pc' = "gone" /\ held' = NoSource /\ answer' = "dropped"
  /\ UNCHANGED <<mem, target>>

NewStore ==
  /\ pc = "gone"
  /\ pc' = "idle" /\ answer' = "fresh"
  /\ UNCHANGED <<mem, value, wb, fields, target, held>>

Next ==
  \/ DecodeNull
  \/ \E s \in Sources : Decode(s) \/ ForeignWrite(s)
  \/ BuildOk
  \/ BuildFails
  \/ RustWrite
  \/ Sync
  \/ Drop
  \/ NewStore

Spec == Init /\ [][Next]_vars

-----------------------------------------------------------------------------
TypeOK ==
  /\ mem \in [Sources -> Values \cup {Bad}]
  /\ value \in Values \cup {NoValue}
  /\ wb \in Sources \cup {NoSource}
  /\ fields \in {"clean", "armed", "broken"}
  /\ pc \in {"idle", "building", "gone"}
  /\ target \in Sources \cup {NoSource}
  /\ held \in Sources \cup {NoSource}
  /\ answer \in {"fresh", "pending", "some", "none", "dropped"}

(* `value` and `writeback` are armed together and disarmed together, never *)
(* while `build` runs: no call path, failing or unwinding, leaves half of  *)
(* a conversion for a later sync().                                        *)
ArmedTogether ==
  /\ value = NoValue <=> wb = NoSource
  /\ pc = "building" => wb = NoSource /\ target = held /\ target \in Sources
  /\ pc = "gone" => wb = NoSource

(* The store writes only the source the caller still leaves to it, with    *)
(* the value Rust last saw, and only when the field stores synced; every   *)
(* other write is the foreign side's.  (sync.rs: "The source must remain   *)
(* valid and exclusively accessible until synchronization or reuse.")      *)
WritesHeldSource ==
  [][\A s \in Sources : mem'[s] # mem[s] =>
       \/ s = held /\ wb = s /\ mem'[s] = value /\ fields # "broken"
       \/ s # held /\ UNCHANGED <<value, wb, pc>>]_vars

(* What Rust code wrote reaches the source, or the call that ended the     *)
(* conversion answered None and wrote nothing: reuse is never silent.      *)
NothingLostSilently ==
  [][wb # NoSource /\ wb' = NoSource =>
       IF answer' \in {"none", "dropped"} THEN mem' = mem ELSE mem'[wb] = value]_vars

(* The store implements Writeback, its value being what is staged.         *)
Staged == [s \in Sources |-> IF wb = s THEN value ELSE NoValue]
W == INSTANCE Writeback
       WITH Cells <- Sources, cell <- mem, staged <- Staged,
            Nothing <- NoValue, Default <- NoValue, MoveOut <- FALSE
ImplementsWriteback == W!WBSpec
=============================================================================
