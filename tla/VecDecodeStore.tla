--------------------------- MODULE VecDecodeStore ----------------------------
(***************************************************************************)
(* The store behind a decoded `&mut Vec<T>`: RefMutSizedDecodeStore with   *)
(* decode_with (src/src/sync.rs, src/src/decoded.rs).  Rust code gets a    *)
(* vector of clones of the decoded elements; the writeback assigns the     *)
(* vector's elements to the places the elements were decoded to, and the   *)
(* element stores, synced after it, encode them over the foreign ones.     *)
(*                                                                         *)
(* With Direct the element needs no conversion: its store is () and the    *)
(* place is the foreign element itself.                                    *)
(***************************************************************************)
EXTENDS Naturals

CONSTANTS
  Sources,    \* the foreign vectors
  Len(_),     \* their lengths
  Values,     \* the valid values of T
  Bad,        \* an element that does not decode, or that its store will
              \* not commit
  None,       \* Option::None
  Direct      \* TRUE: `&mut T` refers to the foreign element itself

ASSUME VecDecodeAssumption ==
  /\ \A s \in Sources : Len(s) \in Nat
  /\ Bad \notin Values
  /\ None \notin Values \cup {Bad}
  /\ None \notin Sources
  /\ Direct \in BOOLEAN

Elements == UNION {{s} \X (1..Len(s)) : s \in Sources}
Contents == Values \cup IF Direct THEN {} ELSE {Bad}

VARIABLES
  mem,       \* the foreign elements
  inner,     \* the value in each element's store, None when it has none
  value,     \* the elements of the vector lent to Rust code
  kept,      \* its length and capacity are those it was built with
  src,       \* the source whose destinations `writeback` holds, or None
  pc,        \* "idle", "building" while `build` runs, "gone" when consumed
  target,    \* the source decode_mut() was called with, while `build` runs
  held,      \* the source the foreign side leaves alone for the store
  answer     \* what the last call returned

vars == <<mem, inner, value, kept, src, pc, target, held, answer>>

Empty == [e \in Elements |-> None]
Of(s) == {e \in Elements : e[1] = s}

Init ==
  /\ mem \in [Elements -> Values \cup {Bad}]
  /\ inner = Empty
  /\ value = Empty
  /\ kept = TRUE
  /\ src = None
  /\ pc = "idle"
  /\ target = None
  /\ held = None
  /\ answer = "fresh"

-----------------------------------------------------------------------------
(* finish() of a pending writeback. *)

Disarmed ==
  /\ inner' = Empty
  /\ value' = Empty
  /\ kept' = TRUE
  /\ src' = None

(* Mutant: the element stores are synced before the vector's elements are  *)
(* assigned to their destinations.                                         *)
WrittenLate == inner

(* The vector's elements are assigned to their destinations, unless its    *)
(* shape changed.                                                          *)
Written == IF kept /\ ~Direct THEN value ELSE inner

(* Then the element stores in S are synced, each on its own account.       *)
Synced(S) == [e \in Elements |-> IF e \in S /\ Written[e] \in Values THEN Written[e] ELSE mem[e]]

Finished ==
  IF Direct THEN [e \in Elements |-> IF kept /\ e \in Of(src) THEN value[e] ELSE mem[e]]
            ELSE Synced(Of(src))

Succeeds == kept /\ (Direct \/ \A e \in Of(src) : Written[e] # Bad)

FinishOk ==
  /\ src # None
  /\ Succeeds
  /\ mem' = Finished
  /\ Disarmed

FinishFails ==
  /\ src # None
  /\ ~Succeeds
  /\ mem' = Finished
  /\ Disarmed

(* Encoding an element unwinds in its store: those before it are synced.   *)
FinishPanics ==
  /\ src # None
  /\ ~Direct
  /\ \E x \in Of(src) : mem' = Synced({e \in Of(src) : e[2] < x[2]})
  /\ Disarmed

-----------------------------------------------------------------------------
(* decode_mut() *)

(* A null header, or one whose length exceeds its capacity, is refused     *)
(* before a pending writeback is looked at.                                *)
DecodeRefused ==
  /\ pc = "idle"
  /\ answer' = "none"
  /\ UNCHANGED <<mem, inner, value, kept, src, pc, target, held>>

(* A pending vector is finished first; `build` starts with new element     *)
(* stores, dropping those an earlier, failed one left behind.              *)
Decode(s) ==
  /\ pc = "idle"
  /\ \/ /\ FinishOk \/ (src = None /\ Disarmed /\ UNCHANGED mem)
        /\ pc' = "building" /\ target' = s /\ held' = s /\ answer' = "pending"
     \/ /\ \/ FinishFails /\ answer' = "none"
           \/ FinishPanics /\ answer' = "unwound"
        /\ held' = None
        /\ UNCHANGED <<pc, target>>

(* Mutant: the elements are taken without validation.                      *)
BuildUnvalidated ==
  /\ pc = "building"
  /\ value' = [e \in Elements |-> IF e \in Of(target) THEN mem[e] ELSE None]
  /\ inner' = IF Direct THEN Empty ELSE value'
  /\ src' = target
  /\ pc' = "idle" /\ target' = None /\ answer' = "some"
  /\ UNCHANGED <<mem, kept, held>>

(* Every element decodes into its store and is cloned into the vector.     *)
BuildOk ==
  /\ pc = "building"
  /\ \A e \in Of(target) : mem[e] \in Values
  /\ value' = [e \in Elements |-> IF e \in Of(target) THEN mem[e] ELSE None]
  /\ inner' = IF Direct THEN Empty ELSE value'
  /\ src' = target
  /\ pc' = "idle" /\ target' = None /\ answer' = "some"
  /\ UNCHANGED <<mem, kept, held>>

(* Element x is rejected, or its decoding or cloning unwinds; the stores   *)
(* of those before it, and in the last case its own, stay armed.           *)
BuildFails ==
  /\ pc = "building"
  /\ \E x \in Of(target), more \in {0, 1} :
       /\ \A e \in Of(target) : e[2] < x[2] => mem[e] \in Values
       /\ more = 1 => mem[x] \in Values
       /\ inner' = [e \in Elements |-> IF ~Direct /\ e[1] = target /\ e[2] < x[2] + more
                                       THEN mem[e] ELSE None]
       /\ answer' \in IF mem[x] \in Values THEN {"unwound"} ELSE {"none", "unwound"}
  /\ held' = None
  /\ pc' = "idle" /\ target' = None
  /\ UNCHANGED <<mem, value, kept, src>>

-----------------------------------------------------------------------------
(* Rust code changes an element of the vector it was lent, or its shape.   *)
RustWrite ==
  /\ pc = "idle" /\ answer = "some"
  /\ \/ /\ \E e \in Of(src), v \in Contents : value' = [value EXCEPT ![e] = v]
        /\ UNCHANGED kept
     \/ kept' \in BOOLEAN /\ UNCHANGED value
  /\ UNCHANGED <<mem, inner, src, pc, target, held, answer>>

(* The foreign side writes a vector it did not lend.                       *)
ForeignWrite ==
  /\ \E e \in Elements, v \in Values \cup {Bad} :
       e[1] # held /\ mem' = [mem EXCEPT ![e] = v]
  /\ UNCHANGED <<inner, value, kept, src, pc, target, held, answer>>

-----------------------------------------------------------------------------
(* sync() and Drop *)

Consumed ==
  /\ pc = "idle"
  /\ pc' = "gone"
  /\ held' = None
  /\ UNCHANGED target

(* Without a pending vector there is nothing to sync: the element stores a *)
(* failed `build` armed are dropped, not synced.                           *)
Sync ==
  /\ Consumed
  /\ \/ FinishOk /\ answer' = "synced"
     \/ FinishFails /\ answer' = "rejected"
     \/ FinishPanics /\ answer' = "unwound"
     \/ src = None /\ Disarmed /\ UNCHANGED mem /\ answer' = "rejected"

(* The store has no Drop: a pending vector is lost.                        *)
Drop ==
  /\ Consumed
  /\ Disarmed
  /\ answer' = "dropped"
  /\ UNCHANGED mem

NewStore ==
  /\ pc = "gone"
  /\ pc' = "idle"
  /\ answer' = "fresh"
  /\ UNCHANGED <<mem, inner, value, kept, src, target, held>>

Next ==
  \/ DecodeRefused
  \/ \E s \in Sources : Decode(s)
  \/ BuildOk
  \/ BuildFails
  \/ RustWrite
  \/ ForeignWrite
  \/ Sync
  \/ Drop
  \/ NewStore

Spec == Init /\ [][Next]_vars

-----------------------------------------------------------------------------
TypeOK ==
  /\ mem \in [Elements -> Values \cup {Bad}]
  /\ inner \in [Elements -> Values \cup {None}]
  /\ value \in [Elements -> Contents \cup {None}]
  /\ kept \in BOOLEAN
  /\ src \in Sources \cup {None}
  /\ pc \in {"idle", "building", "gone"}
  /\ target \in Sources \cup {None}
  /\ held \in Sources \cup {None}
  /\ answer \in {"fresh", "pending", "some", "none", "unwound", "synced", "rejected", "dropped"}

(* The destinations of a pending writeback lead into live element stores,  *)
(* all of the lent source's and no others, and each of them still holds    *)
(* what it decoded from its element: a writeback that gives up leaves the  *)
(* foreign vector as it was, though its element stores are synced.         *)
DestinationsLive ==
  src # None =>
    /\ src = held
    /\ \A e \in Elements : value[e] # None <=> e[1] = src
    /\ ~Direct => inner = [e \in Elements |-> IF e[1] = src THEN mem[e] ELSE None]
    /\ \A e \in Of(src) : mem[e] \in Values

(* A pending vector is never lost without an answer: whenever it stops     *)
(* being pending, by synchronization or by reuse, either each element that *)
(* can be committed and nothing else was written, and the call succeeded   *)
(* exactly when that was all of an unchanged shape; or the call said so.   *)
ElementsArrive ==
  [][src # None /\ src' = None /\ answer' \notin {"unwound", "dropped"} =>
       /\ mem' = [e \in Elements |-> IF kept /\ e[1] = src /\ value[e] \in Values
                                     THEN value[e] ELSE mem[e]]
       /\ answer' \in {"synced", "pending"} <=> kept /\ \A e \in Of(src) : value[e] \in Values]_vars

(* The store implements Writeback, a vector's elements being the places.   *)
Staged == IF src = None THEN Empty ELSE value
W == INSTANCE Writeback
       WITH Cells <- Elements, cell <- mem, staged <- Staged, Nothing <- None,
            Default <- Bad, MoveOut <- FALSE
ImplementsWriteback == W!WBSpec
=============================================================================
