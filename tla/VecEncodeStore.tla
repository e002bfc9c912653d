--------------------------- MODULE VecEncodeStore ----------------------------
(***************************************************************************)
(* The store behind a soft `&mut Vec<T>`: impl_vec_mut (src/src/mutable.rs)*)
(* over RefMutReferenceEncodeStore, RefMutWideEncodeStore and one encode   *)
(* store per element (src/src/sync.rs).  The foreign side gets a header    *)
(* that points to an array of element carriers; copy_back puts the array's *)
(* content back into the carriers of the element stores, each of which     *)
(* then validates and restores its own element.                            *)
(*                                                                         *)
(* The element stores are those of MutEncodeStore, used once each; with    *)
(* Kind = "direct" the element needs no conversion, its store is () and    *)
(* the pointer refers to the element itself.                               *)
(***************************************************************************)
EXTENDS Naturals

CONSTANTS
  Places,     \* the vectors a `&'d mut Vec<T>` may refer to
  Len(_),     \* their lengths
  Values,     \* the valid values of T
  Bad,        \* an element carrier that decode_move rejects
  Default,    \* T::default()
  None,       \* Option::None
  Kind        \* how `&mut T` encodes: "direct", "copy" or "take"

ASSUME VecEncodeAssumption ==
  /\ \A p \in Places : Len(p) \in Nat
  /\ Default \in Values
  /\ Bad \notin Values
  /\ None \notin Values \cup {Bad}
  /\ None \notin Places
  /\ Kind \in {"direct", "copy", "take"}

Elements == UNION {{p} \X (1..Len(p)) : p \in Places}
Contents == Values \cup IF Kind = "direct" THEN {} ELSE {Bad}

VARIABLES
  slot,      \* what each element holds
  carrier,   \* the carrier in each element's store, None when it has none
  array,     \* the carriers of `ctype`, None outside of it
  wb,        \* the vector whose element pointers `writeback` holds
  header,    \* `value` against `original`: "none", "same" or "replaced"
  pc,        \* "idle", "building" while the builder runs, "gone"
  target,    \* the vector encode() was called with, while the builder runs
  at,        \* the element the builder is at
  lent,      \* the vectors whose borrow lives as long as this store
  answer     \* what the last sync() returned: "none", "some"; "unwound"; or "dropped"

vars == <<slot, carrier, array, wb, header, pc, target, at, lent, answer>>

Init ==
  /\ slot \in [Elements -> Values]
  /\ carrier = [e \in Elements |-> None]
  /\ array = [e \in Elements |-> None]
  /\ wb = None
  /\ header = "none"
  /\ pc = "idle"
  /\ target = None
  /\ at = 1
  /\ lent = {}
  /\ answer = "none"

Empty == [e \in Elements |-> None]
Armed == {e \in Elements : carrier[e] # None}
Left(v) == IF Kind = "take" THEN Default ELSE v

-----------------------------------------------------------------------------
(* encode() *)

(* Mutant: reuse keeps the pending writeback until the builder is done.    *)
EncodeKeepsWriteback(p) ==
  /\ pc = "idle"
  /\ p \notin lent
  /\ lent' = lent \cup {p}
  /\ carrier' = Empty
  /\ \/ pc' = "building" /\ target' = p /\ at' = 1
     \/ Armed # {} /\ UNCHANGED <<pc, target, at>>
  /\ UNCHANGED <<slot, array, wb, header, answer>>

(* The header and the writeback are cancelled first; the builder starts by *)
(* replacing the element stores, whose Drop decodes what they hold, writes *)
(* nothing, and may unwind.                                                *)
Encode(p) ==
  /\ pc = "idle"
  /\ p \notin lent
  /\ lent' = lent \cup {p}
  /\ carrier' = Empty
  /\ array' = Empty
  /\ wb' = None
  /\ header' = "none"
  /\ \/ pc' = "building" /\ target' = p /\ at' = 1
     \/ Armed # {} /\ UNCHANGED <<pc, target, at>>
  /\ UNCHANGED <<slot, answer>>

(* One element encodes into its store; its carrier is copied on to the     *)
(* array under construction.                                               *)
EncodeElement ==
  /\ pc = "building"
  /\ at \in 1..Len(target)
  /\ IF Kind = "direct"
     THEN UNCHANGED <<slot, carrier>>
     ELSE /\ carrier' = [carrier EXCEPT ![<<target, at>>] = slot[<<target, at>>]]
          /\ slot' = [slot EXCEPT ![<<target, at>>] = Left(@)]
  /\ at' = at + 1
  /\ UNCHANGED <<array, wb, header, pc, target, lent, answer>>

(* Encoding an element unwinds, after taking its value or before.          *)
ElementPanics ==
  /\ pc = "building"
  /\ Kind # "direct"
  /\ at \in 1..Len(target)
  /\ slot' \in {slot, [slot EXCEPT ![<<target, at>>] = Left(@)]}
  /\ pc' = "idle" /\ target' = None /\ at' = 1
  /\ UNCHANGED <<carrier, array, wb, header, lent, answer>>

(* The array, the element pointers and the header are installed.           *)
EncodeBuilt ==
  /\ pc = "building"
  /\ at = Len(target) + 1
  /\ array' = [e \in Elements |-> IF e[1] # target THEN None
                                  ELSE IF Kind = "direct" THEN slot[e] ELSE carrier[e]]
  /\ wb' = target
  /\ header' = "same"
  /\ pc' = "idle" /\ target' = None /\ at' = 1
  /\ UNCHANGED <<slot, carrier, lent, answer>>

-----------------------------------------------------------------------------
(* The foreign side writes an element of the array, or the header.         *)
ForeignWrite ==
  /\ pc = "idle"
  /\ \E e \in Elements, v \in Contents : array[e] # None /\ array' = [array EXCEPT ![e] = v]
  /\ UNCHANGED <<slot, carrier, wb, header, pc, target, at, lent, answer>>

ForeignHeader ==
  /\ pc = "idle"
  /\ header \in {"same", "replaced"}
  /\ header' \in {"same", "replaced"}
  /\ UNCHANGED <<slot, carrier, array, wb, pc, target, at, lent, answer>>

-----------------------------------------------------------------------------
(* sync() and Drop *)

(* Mutant: the array is not copied back.                                   *)
NotCopiedBack == carrier

(* The carriers once copy_back ran, if a writeback is pending.             *)
CopiedBack == IF wb = None \/ Kind = "direct" THEN carrier ELSE array

Consumed ==
  /\ pc = "idle"
  /\ carrier' = Empty
  /\ array' = Empty
  /\ wb' = None
  /\ header' = "none"
  /\ pc' = "gone"
  /\ lent' = {}
  /\ UNCHANGED <<target, at>>

(* Mutant: the element stores stop at the first that rejects its carrier.  *)
RestoredUntilRejected ==
  [e \in Elements |->
     IF \A i \in 1..e[2] : CopiedBack[<<e[1], i>>] \in Values THEN CopiedBack[e] ELSE slot[e]]

(* Every element store whose carrier is valid restores its element.        *)
Restored == [e \in Elements |-> IF CopiedBack[e] \in Values THEN CopiedBack[e] ELSE slot[e]]

(* copy_back into the elements themselves, which need no validation.       *)
CopiedDirect == [e \in Elements |-> IF array[e] # None THEN array[e] ELSE slot[e]]

(* RefMutReferenceEncodeStore::sync: the elements are restored even when   *)
(* the header was replaced, and every element store is synced even when    *)
(* one of them rejected its carrier.                                       *)
Sync ==
  /\ Consumed
  /\ slot' = IF Kind = "direct" THEN CopiedDirect ELSE Restored
  /\ answer' = IF header = "same" /\ Bad \notin {CopiedBack[e] : e \in Elements} THEN "some" ELSE "none"

(* decode_move unwinds in an element store: those before it are restored,  *)
(* the carriers of those after it are decoded and dropped.                 *)
SyncPanics ==
  /\ Consumed
  /\ \E x \in Armed :
       slot' = [e \in Elements |-> IF e[2] < x[2] THEN Restored[e] ELSE slot[e]]
  /\ answer' = "unwound"

Drop ==
  /\ Consumed
  /\ UNCHANGED slot
  /\ answer' = "dropped"

NewStore ==
  /\ pc = "gone"
  /\ pc' = "idle"
  /\ UNCHANGED <<slot, carrier, array, wb, header, target, at, lent, answer>>

(* Rust code uses an element of a vector that no store borrows.            *)
RustWrite(p) ==
  /\ p \notin lent
  /\ \E i \in 1..Len(p), v \in Values : slot' = [slot EXCEPT ![<<p, i>>] = v]
  /\ UNCHANGED <<carrier, array, wb, header, pc, target, at, lent, answer>>

Next ==
  \/ \E p \in Places : Encode(p) \/ RustWrite(p)
  \/ EncodeElement
  \/ ElementPanics
  \/ EncodeBuilt
  \/ ForeignWrite
  \/ ForeignHeader
  \/ Sync
  \/ SyncPanics
  \/ Drop
  \/ NewStore

Spec == Init /\ [][Next]_vars

-----------------------------------------------------------------------------
TypeOK ==
  /\ slot \in [Elements -> Values]
  /\ carrier \in [Elements -> Values \cup {None}]
  /\ array \in [Elements -> Contents \cup {None}]
  /\ wb \in Places \cup {None}
  /\ header \in {"none", "same", "replaced"}
  /\ pc \in {"idle", "building", "gone"}
  /\ target \in Places \cup {None}
  /\ at \in Nat \ {0}
  /\ lent \in SUBSET Places
  /\ answer \in {"none", "some", "unwound", "dropped"}

(* The element pointers that copy_back follows lead into element stores    *)
(* that hold a carrier of the very vector the array was built from, all of *)
(* them and no others; nothing is pending while a builder runs or after    *)
(* one unwound.                                                            *)
WritebackPaired ==
  /\ wb # None =>
       /\ pc = "idle" /\ wb \in lent
       /\ \A e \in Elements : array[e] # None <=> e[1] = wb
       /\ Kind # "direct" => \A e \in Elements : carrier[e] # None <=> e[1] = wb
  /\ wb = None => header = "none" /\ array = Empty

(* sync() of a pending writeback restores each element the foreign side    *)
(* left valid, whatever it did to the others and to the header; and it     *)
(* answers Some exactly when nothing was rejected and the header was left  *)
(* alone.  ("Restore the original pointee even when pointer replacement is *)
(* rejected", sync.rs.)                                                    *)
SyncRestores ==
  [][pc' = "gone" /\ answer' \in {"none", "some"} /\ pc # "gone" /\ wb # None =>
       LET left == [i \in 1..Len(wb) |-> array[<<wb, i>>]]
       IN  /\ \A i \in 1..Len(wb) : slot'[<<wb, i>>] = IF left[i] = Bad THEN slot[<<wb, i>>] ELSE left[i]
           /\ answer' = "some" <=> header = "same" /\ \A i \in 1..Len(wb) : left[i] # Bad]_vars

(* The store implements Writeback, a vector's elements being the places.   *)
(* An element whose store was armed by a builder that has not finished, or *)
(* unwound, still counts as holding its value: sync() gives it back.       *)
Cell == [e \in Elements |-> IF wb = None /\ carrier[e] # None THEN carrier[e] ELSE slot[e]]
W == INSTANCE Writeback
       WITH Cells <- Elements, cell <- Cell, staged <- array,
            Nothing <- None, MoveOut <- (Kind = "take")
ImplementsWriteback == W!WBSpec
=============================================================================
