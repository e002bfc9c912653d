-------------------------- MODULE DecodeStoreProofs --------------------------
(***************************************************************************)
(* Proofs about MutDecodeStore, for every set of sources and every type,   *)
(* and about its sibling SliceDecodeStore, for slices of every length.     *)
(* What depends on the exclusive access the callers grant is proved for    *)
(* callers that do not take decode(null) for a reuse.                      *)
(***************************************************************************)
EXTENDS MutDecodeStore, SliceDecodeStore, TLAPS

(* The exclusive access lasts as long as the pending writeback.            *)
HeldWhileArmed == NullReleases = FALSE /\ wb # NoSource => held = wb

(* Rust code holds a `&mut R` only to the value that is armed.             *)
LentIsArmed == pc = "idle" /\ answer = "some" => wb # NoSource

IInv == TypeOK /\ ArmedTogether /\ HeldWhileArmed /\ LentIsArmed

LEMMA InitInv == Init => IInv
  BY DecodeAssumption DEF Init, IInv, TypeOK, ArmedTogether, HeldWhileArmed, LentIsArmed

(* Whichever way finish() goes, nothing stays armed.                       *)
LEMMA FinishDisarms ==
  ASSUME IInv, FinishOk \/ FinishFails
  PROVE  /\ mem' \in [Sources -> Values \cup {Bad}]
         /\ value' = NoValue /\ wb' = NoSource /\ fields' = "clean"
  BY DecodeAssumption DEF FinishOk, FinishFails, Taken, IInv, TypeOK, ArmedTogether

LEMMA NextInv == IInv /\ [Next]_vars => IInv'
<1> SUFFICES ASSUME IInv, [Next]_vars PROVE IInv'
  OBVIOUS
<1> USE DecodeAssumption
<1>1. CASE DecodeNull
  BY <1>1 DEF DecodeNull, IInv, TypeOK, ArmedTogether, HeldWhileArmed, LentIsArmed
<1>2. ASSUME NEW s \in Sources, Decode(s) PROVE IInv'
  <2>1. CASE wb = NoSource /\ UNCHANGED <<mem, value, wb, fields>>
    BY <1>2, <2>1 DEF Decode, FinishFails, IInv, TypeOK, ArmedTogether, HeldWhileArmed, LentIsArmed
  <2>2. CASE FinishOk \/ FinishFails
    BY <1>2, <2>2, FinishDisarms DEF Decode, IInv, TypeOK, ArmedTogether, HeldWhileArmed, LentIsArmed
  <2>. QED BY <1>2, <2>1, <2>2 DEF Decode
<1>3. CASE BuildOk
  BY <1>3 DEF BuildOk, IInv, TypeOK, ArmedTogether, HeldWhileArmed, LentIsArmed
<1>4. CASE BuildFails
  BY <1>4 DEF BuildFails, IInv, TypeOK, ArmedTogether, HeldWhileArmed, LentIsArmed
<1>5. CASE RustWrite
  BY <1>5 DEF RustWrite, IInv, TypeOK, ArmedTogether, HeldWhileArmed, LentIsArmed
<1>6. ASSUME NEW s \in Sources, ForeignWrite(s) PROVE IInv'
  BY <1>6 DEF ForeignWrite, IInv, TypeOK, ArmedTogether, HeldWhileArmed, LentIsArmed
<1>7. CASE Sync
  <2>1. CASE FinishOk \/ FinishFails
    BY <1>7, <2>1, FinishDisarms DEF Sync, IInv, TypeOK, ArmedTogether, HeldWhileArmed, LentIsArmed
  <2>2. CASE wb = NoSource /\ Taken /\ UNCHANGED mem
    BY <1>7, <2>2 DEF Sync, Taken, IInv, TypeOK, ArmedTogether, HeldWhileArmed, LentIsArmed
  <2>. QED BY <1>7, <2>1, <2>2 DEF Sync
<1>8. CASE Drop
  BY <1>8 DEF Drop, Taken, IInv, TypeOK, ArmedTogether, HeldWhileArmed, LentIsArmed
<1>9. CASE NewStore
  BY <1>9 DEF NewStore, IInv, TypeOK, ArmedTogether, HeldWhileArmed, LentIsArmed
<1>10. CASE UNCHANGED vars
  BY <1>10 DEF vars, IInv, TypeOK, ArmedTogether, HeldWhileArmed, LentIsArmed
<1>. QED BY <1>1, <1>2, <1>3, <1>4, <1>5, <1>6, <1>7, <1>8, <1>9, <1>10 DEF Next

LEMMA SpecInv == Spec => []IInv
  BY InitInv, NextInv, PTL DEF Spec

(* Every variable keeps to its type in every behaviour of the store.       *)
THEOREM TypeCorrect == Spec => []TypeOK
  BY SpecInv, PTL DEF IInv

(* No path through decode() and finish() leaves half of a conversion.      *)
THEOREM Armed == Spec => []ArmedTogether
  BY SpecInv, PTL DEF IInv

-----------------------------------------------------------------------------
(* What a step does to foreign memory.                                     *)

LEMMA StepWrites ==
  ASSUME IInv, [Next]_vars, NullReleases = FALSE, NEW s \in Sources, mem'[s] # mem[s]
  PROVE  \/ s = held /\ wb = s /\ mem'[s] = value /\ fields # "broken"
         \/ s # held /\ UNCHANGED <<value, wb, pc>>
<1>1. CASE FinishOk
  BY <1>1 DEF FinishOk, IInv, TypeOK, HeldWhileArmed
<1>2. CASE \E r \in Sources : ForeignWrite(r)
  BY <1>2 DEF ForeignWrite, IInv, TypeOK
<1>3. CASE mem' = mem
  BY <1>3
<1>. QED BY <1>1, <1>2, <1>3
     DEF Next, DecodeNull, Decode, FinishFails, BuildOk, BuildFails, RustWrite, Sync, Drop, NewStore, vars

(* The store never overwrites what the foreign side may use: it writes the *)
(* source it still holds, with the value Rust last saw, fields validated.  *)
THEOREM WritesHeld == NullReleases = FALSE /\ Spec => WritesHeldSource
<1> SUFFICES ASSUME NullReleases = FALSE PROVE Spec => WritesHeldSource
  OBVIOUS
<1>1. IInv /\ [Next]_vars =>
        [\A s \in Sources : mem'[s] # mem[s] =>
           \/ s = held /\ wb = s /\ mem'[s] = value /\ fields # "broken"
           \/ s # held /\ UNCHANGED <<value, wb, pc>>]_vars
  BY StepWrites
<1>. QED BY <1>1, SpecInv, PTL DEF Spec, WritesHeldSource

(* A conversion that ends commits what Rust wrote, or answers None.        *)
THEOREM NothingLost == Spec => NothingLostSilently
<1>1. IInv /\ [Next]_vars =>
        [wb # NoSource /\ wb' = NoSource =>
           IF answer' \in {"none", "dropped"} THEN mem' = mem ELSE mem'[wb] = value]_vars
  <2> SUFFICES ASSUME IInv, Next, wb # NoSource, wb' = NoSource
               PROVE  IF answer' \in {"none", "dropped"} THEN mem' = mem ELSE mem'[wb] = value
    OBVIOUS
  <2>1. CASE \E s \in Sources : Decode(s)
    BY <2>1 DEF Decode, FinishOk, FinishFails, IInv, TypeOK
  <2>2. CASE Sync
    BY <2>2 DEF Sync, FinishOk, FinishFails, IInv, TypeOK
  <2>3. CASE Drop
    BY <2>3 DEF Drop
  <2>4. (\E s \in Sources : Decode(s)) \/ Sync \/ Drop
    BY DEF Next, DecodeNull, BuildOk, BuildFails, RustWrite, ForeignWrite, NewStore, IInv, ArmedTogether
  <2>. QED BY <2>1, <2>2, <2>3, <2>4
<1>. QED BY <1>1, SpecInv, PTL DEF Spec, NothingLostSilently

-----------------------------------------------------------------------------
(* The refinement.                                                         *)

LEMMA Commits ==
  ASSUME IInv, FinishOk
  PROVE  W!Settle({wb})
<1>1. wb \in Sources /\ value \in Values /\ Staged[wb] = value
  BY DecodeAssumption DEF FinishOk, IInv, TypeOK, ArmedTogether, Staged
<1>2. Staged' = W!Unstaged
  BY DecodeAssumption DEF FinishOk, Taken, Staged, W!Unstaged
<1>3. mem' = [s \in Sources |-> IF s \in {wb} THEN Staged[s] ELSE mem[s]]
  BY <1>1 DEF FinishOk, IInv, TypeOK
<1>. QED BY <1>1, <1>2, <1>3 DEF W!Settle

LEMMA GivesUp ==
  ASSUME IInv, wb' = NoSource, mem' = mem
  PROVE  W!Settle({})
<1>1. Staged' = W!Unstaged
  BY DecodeAssumption DEF Staged, W!Unstaged
<1>2. mem' = [s \in Sources |-> IF s \in {} THEN Staged[s] ELSE mem[s]]
  BY DEF IInv, TypeOK
<1>. QED BY <1>1, <1>2 DEF W!Settle

LEMMA Stages ==
  ASSUME IInv, BuildOk
  PROVE  W!Stage({target})
<1>1. target \in Sources /\ wb = NoSource
  BY DEF BuildOk, IInv, ArmedTogether
<1>2. Staged = W!Unstaged
  BY <1>1, DecodeAssumption DEF Staged, W!Unstaged
<1>3. Staged' = [s \in Sources |-> IF s \in {target} THEN mem[s] ELSE NoValue]
  BY <1>1 DEF BuildOk, Staged
<1>4. mem' = [s \in Sources |-> IF s \in {target} THEN W!Left(mem[s]) ELSE mem[s]]
  BY <1>1 DEF BuildOk, W!Left, IInv, TypeOK
<1>. QED BY <1>1, <1>2, <1>3, <1>4 DEF BuildOk, W!Stage

LEMMA Changes ==
  ASSUME IInv, RustWrite
  PROVE  W!Change
<1>1. PICK v \in Values : value' = v
  BY DEF RustWrite
<1>2. DEFINE new == [s \in Sources |-> v]
<1>3. new \in [Sources -> Values \cup {Bad}]
  OBVIOUS
<1>4. Staged' = [s \in Sources |-> IF Staged[s] = NoValue THEN NoValue ELSE new[s]]
  BY <1>1, DecodeAssumption DEF RustWrite, Staged, IInv, TypeOK, ArmedTogether, LentIsArmed
<1>. QED BY <1>3, <1>4 DEF RustWrite, W!Change

LEMMA Owns ==
  ASSUME IInv, NullReleases = FALSE, NEW s \in Sources, ForeignWrite(s)
  PROVE  W!Own(s)
<1>1. Staged' = Staged /\ Staged[s] = NoValue
  BY DecodeAssumption DEF ForeignWrite, Staged, IInv, HeldWhileArmed
<1>. QED BY <1>1 DEF ForeignWrite, W!Own

LEMMA StepRefines ==
  ASSUME IInv, [Next]_vars, NullReleases = FALSE
  PROVE  [W!WBNext]_(W!wbVars)
<1>1. CASE FinishOk
  <2>1. wb \in Sources
    BY <1>1 DEF FinishOk, IInv, TypeOK
  <2>. QED BY <1>1, <2>1, Commits DEF W!WBNext
<1>2. CASE FinishFails \/ Drop
  BY <1>2, GivesUp DEF FinishFails, Drop, Taken, W!WBNext
<1>3. CASE BuildOk
  <2>1. target \in Sources
    BY <1>3 DEF BuildOk, IInv, ArmedTogether
  <2>. QED BY <1>3, <2>1, Stages DEF W!WBNext
<1>4. CASE RustWrite
  BY <1>4, Changes DEF W!WBNext
<1>5. CASE \E s \in Sources : ForeignWrite(s)
  BY <1>5, Owns DEF W!WBNext
<1>6. CASE mem' = mem /\ wb' = wb /\ value' = value
  BY <1>6 DEF Staged, W!wbVars
<1>7. CASE wb = NoSource /\ Taken /\ UNCHANGED mem
  BY <1>7, GivesUp DEF Taken, W!WBNext
<1>. QED BY <1>1, <1>2, <1>3, <1>4, <1>5, <1>6, <1>7
     DEF Next, DecodeNull, Decode, BuildFails, Sync, NewStore, vars

(* The store implements Writeback: the source's owner sees its carrier     *)
(* staged, changed by Rust code, and committed valid or given up.          *)
THEOREM Refinement == NullReleases = FALSE /\ Spec => ImplementsWriteback
<1> SUFFICES ASSUME NullReleases = FALSE PROVE Spec => ImplementsWriteback
  OBVIOUS
<1>1. Init => W!WBInit
  BY DecodeAssumption DEF Init, W!WBInit, W!Unstaged, Staged
<1>2. IInv /\ [Next]_vars => [W!WBNext]_(W!wbVars)
  BY StepRefines
<1>. QED BY <1>1, <1>2, SpecInv, PTL DEF Spec, ImplementsWriteback, W!WBSpec

-----------------------------------------------------------------------------
(***************************************************************************)
(* The slice store, which shares the memory, the element type and the kind *)
(* of answers with the sized one.                                          *)
(***************************************************************************)

(* The two invariants of the run are inductive together: a write through   *)
(* the borrow keeps the type of `value` because it fits the slice it was   *)
(* read from.                                                              *)
SliceIInv == SliceTypeOK /\ LentMatchesSource

LEMMA SliceInitInv == SliceInit => SliceIInv
  BY SliceAssumption DEF SliceInit, SliceIInv, SliceTypeOK, LentMatchesSource

(* What the foreign side writes, it writes within the slice.               *)
LEMMA SliceForeignWriteTyped ==
  ASSUME SliceIInv, NEW s \in Slices, SliceForeignWrite(s)
  PROVE  mem' \in Memory
<1>1. PICK i \in 1..Len(s), v \in Values \cup {Bad} : mem' = [mem EXCEPT ![s][i] = v]
  BY DEF SliceForeignWrite
<1>2. mem \in [Slices -> UNION {Contents(r) : r \in Slices}] /\ \A r \in Slices : mem[r] \in Contents(r)
  BY DEF SliceIInv, SliceTypeOK, Memory
<1>3. [mem[s] EXCEPT ![i] = v] \in Contents(s)
  BY <1>2 DEF Contents
<1>4. mem' = [mem EXCEPT ![s] = [mem[s] EXCEPT ![i] = v]]
  BY <1>1
<1>. QED BY <1>2, <1>3, <1>4 DEF Memory

(* What Rust code writes keeps the length of the slice it borrowed.        *)
LEMMA SliceRustWriteTyped ==
  ASSUME SliceIInv, SliceRustWrite
  PROVE  source = held /\ held \in Slices /\ value' \in Slice(held)
<1>1. source = held /\ held \in Slices /\ value \in Slice(held)
  BY DEF SliceRustWrite, SliceIInv, LentMatchesSource
<1>2. PICK i \in DOMAIN value, v \in Values : value' = [value EXCEPT ![i] = v]
  BY DEF SliceRustWrite
<1>. QED BY <1>1, <1>2 DEF Slice

(* The check of the lengths in sync() is what makes a value a slice's own:  *)
(* of all the slices it may have been read from, it fits this one.         *)
LEMMA CommittableFits ==
  ASSUME SliceIInv, Committable
  PROVE  source \in Slices /\ value \in Slice(source)
<1>1. PICK s \in Slices : value \in Slice(s)
  BY DEF Committable, SliceIInv, SliceTypeOK
<1>2. DOMAIN value = 1..Len(s) /\ DOMAIN value = 1..Len(source)
  BY <1>1 DEF Slice, Committable
<1>. QED BY <1>1, <1>2 DEF Slice, Committable

LEMMA SliceSyncTyped ==
  ASSUME SliceIInv, SliceSync
  PROVE  mem' \in Memory
<1>1. source \in Slices /\ value \in Contents(source)
  BY CommittableFits DEF SliceSync, Slice, Contents
<1>. QED BY <1>1 DEF SliceSync, SliceIInv, SliceTypeOK, Memory

LEMMA SliceNextInv ==
  ASSUME SliceIInv, [SliceNext]_sliceVars
  PROVE  SliceIInv'
<1> USE SliceAssumption
<1>1. CASE SliceDecodeNull
  BY <1>1 DEF SliceDecodeNull, SliceIInv, SliceTypeOK, LentMatchesSource
<1>2. ASSUME NEW s \in Slices, SliceDecode(s) PROVE SliceIInv'
  BY <1>2 DEF SliceDecode, SliceIInv, SliceTypeOK, LentMatchesSource
<1>3. ASSUME NEW s \in Slices, SliceDecodeFails(s) PROVE SliceIInv'
  BY <1>3 DEF SliceDecodeFails, SliceIInv, SliceTypeOK, LentMatchesSource
<1>4. ASSUME NEW s \in Slices, SliceForeignWrite(s) PROVE SliceIInv'
  BY <1>4, SliceForeignWriteTyped DEF SliceForeignWrite, SliceIInv, SliceTypeOK, LentMatchesSource
<1>5. CASE SliceRustWrite
  BY <1>5, SliceRustWriteTyped DEF SliceRustWrite, SliceIInv, SliceTypeOK, LentMatchesSource
<1>6. CASE SliceSync
  BY <1>6, SliceSyncTyped DEF SliceSync, Consumed, SliceIInv, SliceTypeOK, LentMatchesSource
<1>7. CASE SliceSyncFails
  BY <1>7 DEF SliceSyncFails, Consumed, SliceIInv, SliceTypeOK, LentMatchesSource
<1>8. CASE SliceNewStore
  BY <1>8 DEF SliceNewStore, SliceIInv, SliceTypeOK, LentMatchesSource
<1>9. CASE UNCHANGED sliceVars
  BY <1>9 DEF sliceVars, SliceIInv, SliceTypeOK, LentMatchesSource
<1>. QED BY <1>1, <1>2, <1>3, <1>4, <1>5, <1>6, <1>7, <1>8, <1>9 DEF SliceNext

LEMMA SliceSpecInv == SliceSpec => []SliceIInv
  BY SliceInitInv, SliceNextInv, PTL DEF SliceSpec

(* Every variable keeps to its type, the elements of each slice to its     *)
(* length, whatever is decoded, written and synchronized.                  *)
THEOREM SliceTypeCorrect == SliceSpec => []SliceTypeOK
  BY SliceSpecInv, PTL DEF SliceIInv

(* decode() never lends the elements of one slice beside the source of      *)
(* another, however often the store was used before.                       *)
THEOREM LentFits == SliceSpec => []LentMatchesSource
  BY SliceSpecInv, PTL DEF SliceIInv

-----------------------------------------------------------------------------
(* sync() overwrites the whole source with valid elements, or nothing.     *)
THEOREM WholeOrNothing == SliceSpec => SyncWhole
<1>1. SliceIInv /\ [SliceNext]_sliceVars =>
        [answer' \in {"synced", "rejected"} /\ answer # answer' =>
           IF answer' = "synced"
           THEN mem' = [mem EXCEPT ![source] = value] /\ value \in Slice(source)
           ELSE mem' = mem]_sliceVars
  <2> SUFFICES ASSUME SliceIInv, SliceNext, answer' \in {"synced", "rejected"}, answer # answer'
               PROVE  IF answer' = "synced"
                      THEN mem' = [mem EXCEPT ![source] = value] /\ value \in Slice(source)
                      ELSE mem' = mem
    OBVIOUS
  <2>1. CASE SliceSync
    BY <2>1, CommittableFits DEF SliceSync
  <2>2. CASE SliceSyncFails
    BY <2>2 DEF SliceSyncFails
  <2>. QED BY <2>1, <2>2 DEF SliceNext, SliceDecodeNull, SliceDecode, SliceDecodeFails, SliceForeignWrite, SliceRustWrite, SliceNewStore
<1>. QED BY <1>1, SliceSpecInv, PTL DEF SliceSpec, SyncWhole

(* When nothing is lent, as after a decode() that was null or rejected, a   *)
(* sync() that still writes, which is the finding ArmsOnlyAfterSuccess, *)
(* writes the value of an earlier slice to one of the same length.         *)
THEOREM StaleWritesFit ==
  ASSUME SliceIInv, SliceSync, held = None
  PROVE  answer # "some" /\ DOMAIN value = DOMAIN mem[source] /\ mem'[source] = value
<1>1. answer # "some"
  BY SliceAssumption DEF SliceIInv, LentMatchesSource
<1>2. source \in Slices /\ value \in Slice(source)
  BY CommittableFits DEF SliceSync
<1>. QED BY <1>1, <1>2 DEF SliceSync, SliceIInv, SliceTypeOK, Memory, Contents, Slice
=============================================================================
