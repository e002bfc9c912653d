-------------------------- MODULE SliceDecodeStore ---------------------------
(***************************************************************************)
(* RefMutSliceDecodeStore (src/src/sync.rs, built by `DecodeMut for [R]`   *)
(* of src/src/decoded.rs): the store behind a `&mut [R]` that Rust code    *)
(* gets for a foreign slice whose elements are converted one by one.       *)
(* Unlike its sized sibling it has no finish(): `source`, `store` and      *)
(* `value` are replaced separately, each when decode() gets to it.         *)
(***************************************************************************)
EXTENDS DecodeStore, Naturals

CONSTANTS
  Slices,      \* the foreign slices
  Len(_),      \* the length in each slice's carrier
  Null,        \* a carrier with a null data pointer
  None,        \* Option::None
  MaxDecodes   \* bound on the decode() calls of one store

ASSUME SliceAssumption ==
  /\ Bad \notin Values
  /\ Null \notin Slices
  /\ None \notin Slices \cup {Null}
  /\ \A s \in Slices : Len(s) \in Nat
  /\ MaxDecodes \in Nat

Contents(s) == [1..Len(s) -> Values \cup {Bad}]
Slice(s) == [1..Len(s) -> Values]

ASSUME NoneAssumption == \A s \in Slices : None \notin Slice(s)

(* `mem` holds the elements of each foreign slice, `value` is the Vec the   *)
(* `&mut [R]` points into, whose elements are of Values.                   *)
VARIABLES
  source,    \* the carrier decode() was last called with
  decoded    \* how many decode() calls the store has seen

sliceVars == <<mem, source, value, fields, held, answer, decoded>>

Memory == {m \in [Slices -> UNION {Contents(s) : s \in Slices}] : \A s \in Slices : m[s] \in Contents(s)}

SliceInit ==
  /\ mem \in Memory
  /\ source = None
  /\ value = None
  /\ fields = "clean"
  /\ held = None
  /\ answer = "fresh"
  /\ decoded = 0

(* `self.source = Some(source); source.into_mut()?` of a null slice.       *)
SliceDecodeNull ==
  /\ answer \notin {"synced", "rejected"}
  /\ decoded < MaxDecodes
  /\ source' = Null
  /\ held' = None
  /\ answer' = "none"
  /\ decoded' = decoded + 1
  /\ UNCHANGED <<mem, value, fields>>

(* Mutant: the elements are handed to Rust code without their validation.  *)
SliceDecodeUnvalidated(s) ==
  /\ answer \notin {"synced", "rejected"}
  /\ decoded < MaxDecodes
  /\ source' = s
  /\ value' = mem[s]
  /\ fields' \in {"clean", "armed"}
  /\ held' = s
  /\ answer' = "some"
  /\ decoded' = decoded + 1
  /\ UNCHANGED mem

(* Every element decoded into a fresh field store.                         *)
SliceDecode(s) ==
  /\ answer \notin {"synced", "rejected"}
  /\ decoded < MaxDecodes
  /\ mem[s] \in Slice(s)
  /\ source' = s
  /\ value' = mem[s]
  /\ fields' \in {"clean", "armed"}
  /\ held' = s
  /\ answer' = "some"
  /\ decoded' = decoded + 1
  /\ UNCHANGED mem

(* An element was rejected, or its decoder unwound: the field stores are   *)
(* new and some may be armed, `value` is still that of an earlier call.    *)
SliceDecodeFails(s) ==
  /\ answer \notin {"synced", "rejected"}
  /\ decoded < MaxDecodes
  /\ source' = s
  /\ fields' \in {"clean", "armed"}
  /\ held' = None
  /\ answer' = "none"
  /\ decoded' = decoded + 1
  /\ UNCHANGED <<mem, value>>

(* Rust code writes through the slice of the last decode(), or through     *)
(* references in its elements, which a field store may then reject.        *)
SliceRustWrite ==
  /\ answer = "some"
  /\ \E i \in DOMAIN value, v \in Values : value' = [value EXCEPT ![i] = v]
  /\ fields' \in IF fields = "clean" THEN {"clean"} ELSE {"armed", "broken"}
  /\ UNCHANGED <<mem, source, held, answer, decoded>>

(* The foreign side uses any slice it has not left to the store.           *)
SliceForeignWrite(s) ==
  /\ s # held
  /\ \E i \in 1..Len(s), v \in Values \cup {Bad} : mem' = [mem EXCEPT ![s][i] = v]
  /\ UNCHANGED <<source, value, fields, held, answer, decoded>>

(* sync()'s checks, in its order: source, field stores, value, length,     *)
(* data pointer.                                                           *)
Committable ==
  /\ source \in Slices
  /\ fields # "broken"
  /\ value # None
  /\ DOMAIN value = 1..Len(source)

Consumed ==
  /\ answer \notin {"synced", "rejected"}
  /\ source' = None
  /\ value' = None
  /\ fields' = "clean"
  /\ held' = None
  /\ decoded' = 0

(* Mutant: the last element is not written.                                *)
SliceSyncShort ==
  /\ Consumed
  /\ Committable
  /\ mem' = [mem EXCEPT ![source] =
               [i \in 1..Len(source) |-> IF i < Len(source) THEN value[i] ELSE mem[source][i]]]
  /\ answer' = "synced"

(* Every element of the source is overwritten with `encode_move(value)`.   *)
SliceSync ==
  /\ Consumed
  /\ Committable
  /\ mem' = [mem EXCEPT ![source] = value]
  /\ answer' = "synced"

SliceSyncFails ==
  /\ Consumed
  /\ ~Committable
  /\ answer' = "rejected"
  /\ UNCHANGED mem

(* The store has no Drop; another one follows.                             *)
SliceNewStore ==
  /\ answer' = "fresh"
  /\ source' = None
  /\ value' = None
  /\ fields' = "clean"
  /\ held' = None
  /\ decoded' = 0
  /\ UNCHANGED mem

SliceNext ==
  \/ SliceDecodeNull
  \/ \E s \in Slices : SliceDecode(s) \/ SliceDecodeFails(s) \/ SliceForeignWrite(s)
  \/ SliceRustWrite
  \/ SliceSync
  \/ SliceSyncFails
  \/ SliceNewStore

SliceSpec == SliceInit /\ [][SliceNext]_sliceVars

-----------------------------------------------------------------------------
SliceTypeOK ==
  /\ mem \in Memory
  /\ source \in Slices \cup {Null, None}
  /\ value \in (UNION {Slice(s) : s \in Slices}) \cup {None}
  /\ fields \in {"clean", "armed", "broken"}
  /\ held \in Slices \cup {None}
  /\ answer \in {"fresh", "some", "none", "synced", "rejected"}
  /\ decoded \in 0..MaxDecodes

(* The slice Rust code sees is the one the store will write: while a       *)
(* decode()d borrow is alive, `source`, `held` and the shape of `value`    *)
(* belong together, whatever earlier calls left in the store.              *)
LentMatchesSource ==
  answer = "some" => source = held /\ held \in Slices /\ value \in Slice(held)

(* sync() writes the source of the last decode() as a whole, every element *)
(* valid, or nothing; and it answers Some exactly when it wrote.           *)
SyncWhole ==
  [][answer' \in {"synced", "rejected"} /\ answer # answer' =>
       IF answer' = "synced"
       THEN mem' = [mem EXCEPT ![source] = value] /\ value \in Slice(source)
       ELSE mem' = mem]_sliceVars

(* What the crate's test says of mutable decoding, that it "only arms      *)
(* writeback after success": a sync() after a decode() that returned None  *)
(* answers None and writes nothing.                                        *)
ArmsOnlyAfterSuccess ==
  [][answer = "none" /\ answer' \in {"synced", "rejected"} => answer' = "rejected" /\ mem' = mem]_sliceVars
=============================================================================
