------------------------ MODULE MutEncodeStoreProofs -------------------------
(***************************************************************************)
(* Proofs about MutEncodeStore, for every set of places, every type and    *)
(* every number of carriers.                                               *)
(***************************************************************************)
EXTENDS MutEncodeStore, TLAPS

(* While the builder runs no carrier is pending, so it can unwind freely;  *)
(* a pending carrier is one of those that were handed out.                 *)
Building ==
  pc = "building" =>
    /\ ctype = NoCarrier
    /\ target \in Cells
    /\ target \in lent
    /\ built < MaxCarriers

PendingBuilt == ctype # NoCarrier => ctype.id <= built

IInv ==
  /\ TypeOK
  /\ CarrierDecodedOnce
  /\ PendingOfOriginal
  /\ Building
  /\ PendingBuilt

(* A carrier's fields, as records in Carriers have them.                   *)
LEMMA CarrierFields ==
  ASSUME NEW x \in Carriers
  PROVE  x.id \in Ids /\ x.val \in Values \cup {Bad} /\ x.from \in Cells
  BY DEF Carriers

(* The field lets a decode be counted once: it makes the pending carrier's *)
(* count 1 and touches no other, whichever way the carrier is consumed.    *)
LEMMA TakenOnce ==
  ASSUME TypeOK, CarrierDecodedOnce, PendingBuilt,
         built' = built, ctype' = NoCarrier,
         \/ ctype = NoCarrier /\ decodes' = decodes
         \/ ctype # NoCarrier /\ decodes' = [decodes EXCEPT ![ctype.id] = @ + 1]
  PROVE  CarrierDecodedOnce' /\ decodes' \in [Ids -> Nat]
<1>1. CASE ctype = NoCarrier /\ decodes' = decodes
  BY <1>1 DEF CarrierDecodedOnce, TypeOK
<1>2. CASE ctype # NoCarrier /\ decodes' = [decodes EXCEPT ![ctype.id] = @ + 1]
  <2>1. ctype.id \in Ids /\ ctype.id <= built
    BY <1>2, CarrierFields DEF TypeOK, PendingBuilt
  <2>2. decodes[ctype.id] = 0
    BY <1>2, <2>1 DEF CarrierDecodedOnce
  <2>3. decodes' \in [Ids -> Nat]
    BY <1>2, <2>1 DEF TypeOK
  <2>4. ASSUME NEW i \in Ids
        PROVE  decodes'[i] = IF i > built THEN 0 ELSE 1
    <3>1. CASE i = ctype.id
      BY <1>2, <2>1, <2>2, <3>1 DEF TypeOK, Ids
    <3>2. CASE i # ctype.id
      BY <1>2, <2>1, <3>2 DEF TypeOK, CarrierDecodedOnce
    <3>. QED BY <3>1, <3>2
  <2>. QED BY <2>3, <2>4 DEF CarrierDecodedOnce
<1>. QED BY <1>1, <1>2

(* What the builder hands out is a carrier of the place it was given.      *)
LEMMA BuiltCarrier ==
  ASSUME IInv, EncodeBuilt
  PROVE  /\ ctype' \in Carriers
         /\ ctype'.id = built + 1 /\ ctype'.from = target /\ ctype'.val = slot[target]
<1>1. built + 1 \in Ids /\ target \in Cells /\ slot[target] \in Values
  BY EncodeAssumption DEF EncodeBuilt, IInv, Building, TypeOK, Ids
<1>. QED BY <1>1 DEF EncodeBuilt, Carriers

LEMMA InitInv == Init => IInv
  BY EncodeAssumption, NoCarrierAssumption
  DEF Init, IInv, TypeOK, CarrierDecodedOnce, PendingOfOriginal, Building, PendingBuilt, Ids

LEMMA NextInv == IInv /\ [Next]_vars => IInv'
<1> SUFFICES ASSUME IInv, [Next]_vars PROVE IInv'
  OBVIOUS
<1> USE EncodeAssumption, NoCarrierAssumption
<1>1. ASSUME NEW c \in Cells, EncodeReuse(c) PROVE IInv'
  <2>1. CASE Finish /\ pc' = "building" /\ target' = c
    <3>1. CarrierDecodedOnce' /\ decodes' \in [Ids -> Nat]
      BY <1>1, <2>1, TakenOnce DEF IInv, EncodeReuse, Finish, FinishNone, FinishTaken, TakeCarrier
    <3>2. ctype' = NoCarrier
      BY <2>1 DEF Finish, FinishNone, FinishTaken, TakeCarrier
    <3>3. TypeOK'
      BY <1>1, <2>1, <3>1, <3>2
      DEF IInv, TypeOK, EncodeReuse, Finish, FinishNone, FinishTaken
    <3>. QED BY <1>1, <2>1, <3>1, <3>2, <3>3
         DEF IInv, PendingOfOriginal, Building, PendingBuilt, EncodeReuse
  <2>2. CASE FinishPanics /\ UNCHANGED <<pc, target>>
    <3>1. CarrierDecodedOnce' /\ decodes' \in [Ids -> Nat]
      BY <1>1, <2>2, TakenOnce DEF IInv, EncodeReuse, FinishPanics, TakeCarrier
    <3>2. ctype' = NoCarrier
      BY <2>2 DEF FinishPanics, TakeCarrier
    <3>3. TypeOK'
      BY <1>1, <2>2, <3>1, <3>2 DEF IInv, TypeOK, EncodeReuse, FinishPanics
    <3>. QED BY <1>1, <2>2, <3>1, <3>2, <3>3
         DEF IInv, PendingOfOriginal, Building, PendingBuilt, EncodeReuse
  <2>. QED BY <1>1, <2>1, <2>2 DEF EncodeReuse
<1>2. CASE EncodeBuilt
  <2>1. built + 1 \in Ids /\ built' \in 0..MaxCarriers /\ target \in Cells /\ slot[target] \in Values
    BY <1>2 DEF EncodeBuilt, IInv, Building, TypeOK, Ids
  <2>2. ctype' \in Carriers /\ ctype'.id = built + 1 /\ ctype'.from = target
    BY <1>2, BuiltCarrier
  <2>3. TypeOK'
    BY <1>2, <2>1, <2>2 DEF EncodeBuilt, IInv, TypeOK, Left
  <2>4. CarrierDecodedOnce'
    BY <1>2, <2>1, <2>2 DEF EncodeBuilt, IInv, TypeOK, CarrierDecodedOnce, Building, Ids
  <2>. QED BY <1>2, <2>1, <2>2, <2>3, <2>4
       DEF EncodeBuilt, IInv, PendingOfOriginal, Building, PendingBuilt, TypeOK
<1>3. CASE EncodePanics
  <2>1. TypeOK'
    BY <1>3 DEF EncodePanics, IInv, TypeOK, Building, Left
  <2>. QED BY <1>3, <2>1
       DEF EncodePanics, IInv, CarrierDecodedOnce, PendingOfOriginal, Building, PendingBuilt
<1>4. CASE ForeignWrite
  <2>1. PICK v \in Values \cup {Bad} : ctype' = [ctype EXCEPT !.val = v]
    BY <1>4 DEF ForeignWrite
  <2>2. ctype' \in Carriers /\ ctype'.id = ctype.id /\ ctype'.from = ctype.from
    BY <1>4, <2>1 DEF ForeignWrite, IInv, TypeOK, Carriers
  <2>. QED BY <1>4, <2>2
       DEF ForeignWrite, IInv, TypeOK, CarrierDecodedOnce, PendingOfOriginal, Building, PendingBuilt
<1>5. ASSUME Consume, slot' \in [Cells -> Values], outcome' \in {"none", "some", "dropped"}
      PROVE  IInv'
  <2>1. CarrierDecodedOnce' /\ decodes' \in [Ids -> Nat]
    BY <1>5, TakenOnce DEF IInv, Consume
  <2>. QED BY <1>5, <2>1
       DEF IInv, Consume, TypeOK, PendingOfOriginal, Building, PendingBuilt
<1>6. CASE Sync
  BY <1>5, <1>6 DEF Sync, Validated, IInv, TypeOK
<1>7. CASE SyncFails
  BY <1>5, <1>7 DEF SyncFails, IInv, TypeOK
<1>8. CASE Drop
  BY <1>5, <1>8 DEF Drop, IInv, TypeOK
<1>9. CASE NewStore
  BY <1>9 DEF NewStore, IInv, TypeOK, CarrierDecodedOnce, PendingOfOriginal, Building, PendingBuilt
<1>10. ASSUME NEW c \in Cells, RustWrite(c) PROVE IInv'
  BY <1>10 DEF RustWrite, IInv, TypeOK, CarrierDecodedOnce, PendingOfOriginal, Building, PendingBuilt
<1>11. CASE UNCHANGED vars
  BY <1>11 DEF vars, IInv, TypeOK, CarrierDecodedOnce, PendingOfOriginal, Building, PendingBuilt
<1>. QED BY <1>1, <1>2, <1>3, <1>4, <1>6, <1>7, <1>8, <1>9, <1>10, <1>11 DEF Next

LEMMA SpecInv == Spec => []IInv
  BY InitInv, NextInv, PTL DEF Spec

(* Every variable keeps to its type in every behaviour of the store.       *)
THEOREM TypeCorrect == Spec => []TypeOK
  BY SpecInv, PTL DEF IInv

(* finish() neither leaks a carrier nor frees one twice, whatever number   *)
(* of carriers one store or its successors hand out.                       *)
THEOREM DecodedOnce == Spec => []CarrierDecodedOnce
  BY SpecInv, PTL DEF IInv

(* encode() and finish() keep `ctype` and `original` of one conversion.    *)
THEOREM PendingMatches == Spec => []PendingOfOriginal
  BY SpecInv, PTL DEF IInv

-----------------------------------------------------------------------------
(* What a step does to the places.                                         *)

LEMMA StepWritesSource ==
  ASSUME IInv, [Next]_vars, NEW c \in Cells, slot'[c] # slot[c], c \in lent \/ pc' # pc
  PROVE  \/ MoveOut /\ pc = "building" /\ target = c /\ slot'[c] = Default
         \/ /\ ctype # NoCarrier
            /\ ctype.from = c
            /\ fields # "fail"
            /\ slot'[c] = ctype.val
            /\ slot'[c] \in Values
            /\ outcome' = "some"
<1>1. CASE EncodeBuilt
  BY <1>1 DEF EncodeBuilt, IInv, TypeOK, Left
<1>2. CASE EncodePanics
  BY <1>2 DEF EncodePanics, IInv, TypeOK, Left
<1>3. CASE Sync
  BY <1>3 DEF Sync, Validated, IInv, TypeOK, PendingOfOriginal
<1>4. CASE slot' = slot
  BY <1>4
<1>5. CASE \E d \in Cells : RustWrite(d)
  BY <1>5 DEF RustWrite, IInv, TypeOK
<1>. QED BY <1>1, <1>2, <1>3, <1>4, <1>5
     DEF Next, EncodeReuse, ForeignWrite, SyncFails, Drop, NewStore, vars

(* sync() restores a value only where it came from, and only after it and  *)
(* its field stores validated.                                             *)
THEOREM WritebackSafe == Spec => WritebackOnlyToSource
<1>1. IInv /\ [Next]_vars =>
        [\A c \in Cells : slot'[c] # slot[c] /\ (c \in lent \/ pc' # pc) =>
           \/ MoveOut /\ pc = "building" /\ target = c /\ slot'[c] = Default
           \/ /\ ctype # NoCarrier
              /\ ctype.from = c
              /\ fields # "fail"
              /\ slot'[c] = ctype.val
              /\ slot'[c] \in Values
              /\ outcome' = "some"]_vars
  BY StepWritesSource
<1>. QED BY <1>1, SpecInv, PTL DEF Spec, WritebackOnlyToSource

(* Some and None tell the caller what became of the pending value.         *)
THEOREM SyncTells == Spec => SyncAnswers
<1>1. IInv /\ [Next]_vars =>
        [pc' = "gone" /\ pc # "gone" =>
           IF outcome' = "some"
           THEN ctype # NoCarrier /\ slot' = [slot EXCEPT ![ctype.from] = ctype.val]
           ELSE slot' = slot]_vars
  <2> SUFFICES ASSUME IInv, Next, pc' = "gone", pc # "gone"
               PROVE  IF outcome' = "some"
                      THEN ctype # NoCarrier /\ slot' = [slot EXCEPT ![ctype.from] = ctype.val]
                      ELSE slot' = slot
    OBVIOUS
  <2>1. CASE Sync
    BY <2>1 DEF Sync, Validated, IInv, PendingOfOriginal
  <2>2. CASE SyncFails \/ Drop
    BY <2>2 DEF SyncFails, Drop
  <2>3. Sync \/ SyncFails \/ Drop
    BY DEF Next, EncodeReuse, Finish, FinishPanics, EncodeBuilt, EncodePanics, ForeignWrite, NewStore, RustWrite
  <2>. QED BY <2>1, <2>2, <2>3
<1>. QED BY <1>1, SpecInv, PTL DEF Spec, SyncAnswers

-----------------------------------------------------------------------------
(* The refinement: what is staged is the pending carrier's content.        *)

LEMMA NothingStaged ==
  ASSUME ctype = NoCarrier
  PROVE  Staged = W!Unstaged
  BY DEF Staged, W!Unstaged

(* What is given up: a conversion ends and no place is written.            *)
LEMMA GivenUp ==
  ASSUME IInv, ctype' = NoCarrier, slot' = slot
  PROVE  W!WBNext
<1>1. Staged' = W!Unstaged
  BY DEF Staged, W!Unstaged
<1>2. slot' = [c \in Cells |-> IF c \in {} THEN Staged[c] ELSE slot[c]]
  BY DEF IInv, TypeOK
<1>3. W!Settle({})
  BY <1>1, <1>2 DEF W!Settle
<1>. QED BY <1>3 DEF W!WBNext

LEMMA BuiltStages ==
  ASSUME IInv, EncodeBuilt
  PROVE  W!WBNext
<1>1. target \in Cells /\ ctype = NoCarrier /\ slot[target] \in Values
  BY DEF EncodeBuilt, IInv, Building, TypeOK
<1>2. ctype' # NoCarrier /\ ctype'.from = target /\ ctype'.val = slot[target]
  BY BuiltCarrier, NoCarrierAssumption
<1>3. Staged' = [c \in Cells |-> IF c \in {target} THEN slot[c] ELSE NoCarrier]
  BY <1>1, <1>2 DEF Staged
<1>4. slot' = [c \in Cells |-> IF c \in {target} THEN W!Left(slot[c]) ELSE slot[c]]
  BY <1>1 DEF EncodeBuilt, Left, W!Left, IInv, TypeOK
<1>5. W!Stage({target})
  BY <1>1, <1>3, <1>4, NothingStaged DEF W!Stage
<1>. QED BY <1>1, <1>5 DEF W!WBNext

LEMMA PanicAbandons ==
  ASSUME IInv, EncodePanics
  PROVE  [W!WBNext]_(W!wbVars)
<1>1. target \in Cells /\ ctype = NoCarrier /\ ctype' = NoCarrier
  BY DEF EncodePanics, IInv, Building
<1>2. Staged' = Staged
  BY <1>1 DEF Staged
<1>3. CASE slot' = slot
  BY <1>2, <1>3 DEF W!wbVars
<1>4. CASE slot' = [slot EXCEPT ![target] = Left(@)]
  <2>1. slot' = [c \in Cells |-> IF c \in {target} THEN W!Left(slot[c]) ELSE slot[c]]
    BY <1>4 DEF Left, W!Left, IInv, TypeOK
  <2>2. W!Abandon({target})
    BY <1>1, <1>2, <2>1 DEF W!Abandon, Staged
  <2>. QED BY <1>1, <2>2 DEF W!WBNext
<1>. QED BY <1>3, <1>4 DEF EncodePanics

LEMMA ForeignChanges ==
  ASSUME IInv, ForeignWrite
  PROVE  W!WBNext
<1>1. PICK v \in Values \cup {Bad} : ctype' = [ctype EXCEPT !.val = v]
  BY DEF ForeignWrite
<1>2. ctype # NoCarrier /\ ctype \in Carriers /\ slot' = slot
  BY DEF ForeignWrite, IInv, TypeOK
<1>3. ctype' \in Carriers /\ ctype'.from = ctype.from /\ ctype'.val = v
  BY <1>1, <1>2 DEF Carriers
<1>4. ctype' # NoCarrier
  BY <1>3, NoCarrierAssumption
<1>5. ctype.from \in Cells /\ ctype.val # NoCarrier
  BY <1>2, CarrierFields, NoCarrierAssumption
<1>6. DEFINE new == [c \in Cells |-> v]
<1>7. new \in [Cells -> Values \cup {Bad}]
  OBVIOUS
<1>8. Staged' = [c \in Cells |-> IF Staged[c] = NoCarrier THEN NoCarrier ELSE new[c]]
  BY <1>2, <1>3, <1>4, <1>5 DEF Staged
<1>9. W!Change
  BY <1>2, <1>7, <1>8 DEF W!Change
<1>. QED BY <1>9 DEF W!WBNext

LEMMA SyncCommits ==
  ASSUME IInv, Sync
  PROVE  W!WBNext
<1>1. ctype # NoCarrier /\ original = ctype.from /\ original \in Cells /\ ctype.val \in Values
  BY DEF Sync, Validated, IInv, TypeOK, PendingOfOriginal
<1>2. Staged[original] = ctype.val
  BY <1>1 DEF Staged
<1>3. Staged' = W!Unstaged
  BY DEF Sync, Consume, Staged, W!Unstaged
<1>4. slot' = [c \in Cells |-> IF c \in {original} THEN Staged[c] ELSE slot[c]]
  BY <1>1, <1>2 DEF Sync, IInv, TypeOK
<1>5. W!Settle({original})
  BY <1>1, <1>2, <1>3, <1>4 DEF W!Settle
<1>. QED BY <1>1, <1>5 DEF W!WBNext

LEMMA OwnerWrites ==
  ASSUME IInv, NEW c \in Cells, RustWrite(c)
  PROVE  W!WBNext
<1>1. Staged' = Staged
  BY DEF RustWrite, Staged
<1>2. Staged[c] = NoCarrier
  BY DEF RustWrite, Staged, IInv, PendingOfOriginal
<1>3. W!Own(c)
  BY <1>1, <1>2 DEF RustWrite, W!Own
<1>. QED BY <1>3 DEF W!WBNext

LEMMA StepRefines ==
  ASSUME IInv, [Next]_vars
  PROVE  [W!WBNext]_(W!wbVars)
<1>1. CASE \E c \in Cells : EncodeReuse(c)
  <2>1. ctype' = NoCarrier /\ slot' = slot
    BY <1>1 DEF EncodeReuse, Finish, FinishNone, FinishTaken, FinishPanics, TakeCarrier
  <2>. QED BY <2>1, GivenUp
<1>2. CASE EncodeBuilt
  BY <1>2, BuiltStages
<1>3. CASE EncodePanics
  BY <1>3, PanicAbandons
<1>4. CASE ForeignWrite
  BY <1>4, ForeignChanges
<1>5. CASE Sync
  BY <1>5, SyncCommits
<1>6. CASE SyncFails \/ Drop
  BY <1>6, GivenUp DEF SyncFails, Drop, Consume
<1>7. CASE \E c \in Cells : RustWrite(c)
  BY <1>7, OwnerWrites
<1>8. CASE NewStore \/ UNCHANGED vars
  <2>1. ctype' = ctype /\ slot' = slot
    BY <1>8 DEF NewStore, vars
  <2>2. Staged' = Staged
    BY <2>1 DEF Staged
  <2>. QED BY <2>1, <2>2 DEF W!wbVars
<1>. QED BY <1>1, <1>2, <1>3, <1>4, <1>5, <1>6, <1>7, <1>8 DEF Next

(* The store implements Writeback: seen from its caller, a value is staged,*)
(* changed by the other side, and committed valid or given up.             *)
THEOREM Refinement == Spec => ImplementsWriteback
<1>1. Init => W!WBInit
  BY NothingStaged DEF Init, W!WBInit
<1>2. IInv /\ [Next]_vars => [W!WBNext]_(W!wbVars)
  BY StepRefines
<1>. QED BY <1>1, <1>2, SpecInv, PTL DEF Spec, ImplementsWriteback, W!WBSpec
=============================================================================
