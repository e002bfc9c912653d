------------------------ MODULE VecEncodeStoreProofs -------------------------
(***************************************************************************)
(* Proofs about VecEncodeStore for any vectors, lengths, element values    *)
(* and each of the three ways an element encodes.                          *)
(*                                                                         *)
(* The inductive invariant adds to the checked ones what a builder that is *)
(* under way has done (Building), that nothing is kept for a vector that   *)
(* is not lent (OnlyLent), and that an element whose carrier is in a store *)
(* holds what encoding left in it (Staging): so giving a conversion up     *)
(* costs at most the values that were moved out.                           *)
(***************************************************************************)
EXTENDS VecEncodeStore, TLAPS

Building ==
  pc = "building" =>
    /\ target \in lent
    /\ wb = None
    /\ at \in 1..(Len(target) + 1)
    /\ Kind # "direct" => \A e \in Elements : carrier[e] # None <=> e[1] = target /\ e[2] < at

OnlyLent ==
  /\ \A e \in Elements : carrier[e] # None => e[1] \in lent
  /\ Kind = "direct" => carrier = Empty
  /\ pc = "gone" => lent = {} /\ wb = None

Staging == \A e \in Elements : carrier[e] # None => slot[e] = Left(carrier[e])

IInv == TypeOK /\ WritebackPaired /\ Building /\ OnlyLent /\ Staging

USE VecEncodeAssumption

LEMMA ElementFacts ==
  /\ \A e \in Elements : e[1] \in Places /\ e[2] \in 1..Len(e[1]) /\ e = <<e[1], e[2]>>
  /\ \A p \in Places : \A i \in 1..Len(p) : <<p, i>> \in Elements
BY DEF Elements

LEMMA LeftValue == \A v \in Values : Left(v) \in Values
BY DEF Left

LEMMA InitInv == Init => IInv
BY DEF Init, IInv, TypeOK, WritebackPaired, Building, OnlyLent, Staging, Empty

LEMMA EncodeInv ==
  ASSUME IInv, NEW p \in Places, Encode(p)
  PROVE  IInv'
<1>. USE DEF IInv, Encode, Empty
<1>1. TypeOK'
  BY DEF TypeOK
<1>2. WritebackPaired'
  BY DEF WritebackPaired
<1>3. Building'
  <2>1. Len(p) \in Nat /\ \A e \in Elements : e[2] \in Nat \ {0}
    BY ElementFacts
  <2>. QED BY <2>1, ElementFacts DEF Building
<1>4. OnlyLent' /\ Staging'
  BY DEF OnlyLent, Staging
<1>. QED BY <1>1, <1>2, <1>3, <1>4

LEMMA ElementInv ==
  ASSUME IInv, EncodeElement
  PROVE  IInv'
<1>. DEFINE x == <<target, at>>
<1>1. /\ target \in Places /\ at \in 1..Len(target) /\ Len(target) \in Nat
      /\ x \in Elements /\ wb = None /\ target \in lent
  BY ElementFacts DEF EncodeElement, IInv, TypeOK, Building
<1>2. slot[x] \in Values /\ Left(slot[x]) \in Values
  BY <1>1, LeftValue DEF IInv, TypeOK
<1>3. TypeOK'
  BY <1>1, <1>2 DEF EncodeElement, IInv, TypeOK
<1>4. WritebackPaired'
  BY <1>1 DEF EncodeElement, IInv, WritebackPaired
<1>5. Building'
  <2>1. /\ pc' = "building" /\ target' = target /\ target' \in lent' /\ wb' = None
        /\ at' \in 1..(Len(target) + 1)
    BY <1>1 DEF EncodeElement
  <2>2. ASSUME Kind # "direct", NEW e \in Elements
        PROVE  carrier'[e] # None <=> e[1] = target /\ e[2] < at'
    <3>1. carrier[e] # None <=> e[1] = target /\ e[2] < at
      BY <2>2 DEF EncodeElement, IInv, Building
    <3>2. carrier' = [carrier EXCEPT ![x] = slot[x]] /\ at' = at + 1
      BY <2>2 DEF EncodeElement
    <3>3. CASE e = x
      BY <1>1, <1>2, <3>2, <3>3 DEF IInv, TypeOK
    <3>4. CASE e # x
      <4>1. carrier'[e] = carrier[e]
        BY <3>2, <3>4 DEF IInv, TypeOK
      <4>2. e[1] = target => e[2] # at
        BY <3>4, ElementFacts
      <4>. QED BY <1>1, <3>1, <3>2, <4>1, <4>2, ElementFacts
    <3>. QED BY <3>3, <3>4
  <2>. QED BY <2>1, <2>2 DEF Building
<1>6. OnlyLent' /\ Staging'
  <2>1. CASE Kind = "direct"
    BY <2>1 DEF EncodeElement, IInv, OnlyLent, Staging, Empty
  <2>2. CASE Kind # "direct"
    <3>1. /\ carrier' = [carrier EXCEPT ![x] = slot[x]]
          /\ slot' = [slot EXCEPT ![x] = Left(slot[x])]
          /\ lent' = lent /\ pc' = pc /\ pc = "building"
      BY <2>2 DEF EncodeElement
    <3>2. OnlyLent'
      BY <1>1, <2>2, <3>1 DEF IInv, TypeOK, OnlyLent
    <3>3. Staging'
      BY <1>1, <3>1 DEF IInv, TypeOK, Staging, Left
    <3>. QED BY <3>2, <3>3
  <2>. QED BY <2>1, <2>2
<1>. QED BY <1>3, <1>4, <1>5, <1>6 DEF IInv

LEMMA PanicInv ==
  ASSUME IInv, ElementPanics
  PROVE  IInv'
<1>. DEFINE x == <<target, at>>
<1>1. x \in Elements /\ carrier[x] = None /\ wb = None
  <2>1. target \in Places /\ at \in 1..Len(target) /\ at \in Nat
    BY DEF ElementPanics, IInv, TypeOK, Building
  <2>2. x \in Elements
    BY <2>1, ElementFacts
  <2>. QED BY <2>1, <2>2 DEF ElementPanics, IInv, Building
<1>2. slot' \in [Elements -> Values] /\ \A e \in Elements : e # x => slot'[e] = slot[e]
  <2>1. Left(slot[x]) \in Values
    BY <1>1, LeftValue DEF IInv, TypeOK
  <2>. QED BY <1>1, <2>1 DEF ElementPanics, IInv, TypeOK
<1>3. TypeOK' /\ WritebackPaired' /\ Building'
  BY <1>1, <1>2 DEF ElementPanics, IInv, TypeOK, WritebackPaired, Building
<1>4. OnlyLent' /\ Staging'
  BY <1>1, <1>2 DEF ElementPanics, IInv, OnlyLent, Staging
<1>. QED BY <1>3, <1>4 DEF IInv

LEMMA BuiltInv ==
  ASSUME IInv, EncodeBuilt
  PROVE  IInv'
<1>1. target \in Places /\ target \in lent /\ Len(target) \in Nat
  BY DEF EncodeBuilt, IInv, Building, TypeOK
<1>2. Kind # "direct" => \A e \in Elements : carrier[e] # None <=> e[1] = target
  <2>1. \A e \in Elements : e[1] = target => e[2] < at
    BY <1>1, ElementFacts DEF EncodeBuilt
  <2>. QED BY <2>1 DEF EncodeBuilt, IInv, Building
<1>3. \A e \in Elements : array'[e] # None <=> e[1] = target
  BY <1>2 DEF EncodeBuilt, IInv, TypeOK
<1>4. TypeOK'
  BY <1>1, <1>2 DEF EncodeBuilt, IInv, TypeOK, Contents
<1>5. WritebackPaired'
  BY <1>1, <1>2, <1>3 DEF EncodeBuilt, WritebackPaired
<1>6. Building' /\ OnlyLent' /\ Staging'
  BY DEF EncodeBuilt, IInv, Building, OnlyLent, Staging
<1>. QED BY <1>4, <1>5, <1>6 DEF IInv

LEMMA ForeignInv ==
  ASSUME IInv, ForeignWrite \/ ForeignHeader
  PROVE  IInv'
<1>1. /\ array' \in [Elements -> Contents \cup {None}]
      /\ \A e \in Elements : array'[e] # None <=> array[e] # None
  BY DEF ForeignWrite, ForeignHeader, IInv, TypeOK, Contents
<1>2. UNCHANGED <<slot, carrier, wb, pc, target, at, lent, answer>> /\ pc = "idle"
  BY DEF ForeignWrite, ForeignHeader
<1>3. wb = None => array' = array /\ header' = "none"
  BY DEF ForeignWrite, ForeignHeader, IInv, WritebackPaired, Empty
<1>4. header' \in {"none", "same", "replaced"}
  BY DEF ForeignWrite, ForeignHeader, IInv, TypeOK
<1>5. TypeOK'
  BY <1>1, <1>2, <1>4 DEF IInv, TypeOK
<1>6. WritebackPaired'
  BY <1>1, <1>2, <1>3 DEF IInv, WritebackPaired, Empty
<1>7. Building' /\ OnlyLent' /\ Staging'
  BY <1>2 DEF IInv, Building, OnlyLent, Staging, Empty
<1>. QED BY <1>5, <1>6, <1>7 DEF IInv

LEMMA RestoredTypes ==
  ASSUME IInv
  PROVE  /\ Restored \in [Elements -> Values]
         /\ Kind = "direct" => CopiedDirect \in [Elements -> Values]
BY DEF IInv, TypeOK, Restored, CopiedDirect, CopiedBack, Contents

LEMMA ConsumedInv ==
  ASSUME IInv, Consumed, slot' \in [Elements -> Values],
         answer' \in {"none", "some", "unwound", "dropped"}
  PROVE  IInv'
BY DEF Consumed, IInv, TypeOK, WritebackPaired, Building, OnlyLent, Staging, Empty

LEMMA EndInv ==
  ASSUME IInv, Sync \/ SyncPanics \/ Drop
  PROVE  IInv'
<1>1. CASE Sync
  BY <1>1, RestoredTypes, ConsumedInv DEF Sync
<1>2. CASE SyncPanics
  <2>1. slot' \in [Elements -> Values]
    BY <1>2, RestoredTypes DEF SyncPanics, IInv, TypeOK
  <2>. QED BY <1>2, <2>1, ConsumedInv DEF SyncPanics
<1>3. CASE Drop
  BY <1>3, ConsumedInv DEF Drop, IInv, TypeOK
<1>. QED BY <1>1, <1>2, <1>3

LEMMA RustInv ==
  ASSUME IInv, NEW p \in Places, RustWrite(p)
  PROVE  IInv'
<1>1. /\ slot' \in [Elements -> Values]
      /\ \A e \in Elements : e[1] \in lent => slot'[e] = slot[e]
  BY ElementFacts DEF RustWrite, IInv, TypeOK
<1>2. TypeOK'
  BY <1>1 DEF RustWrite, IInv, TypeOK
<1>3. WritebackPaired' /\ Building' /\ OnlyLent'
  BY DEF RustWrite, IInv, WritebackPaired, Building, OnlyLent, Empty
<1>4. Staging'
  BY <1>1 DEF RustWrite, IInv, OnlyLent, Staging
<1>. QED BY <1>2, <1>3, <1>4 DEF IInv

LEMMA StepInv == IInv /\ [Next]_vars => IInv'
<1>. SUFFICES ASSUME IInv, [Next]_vars
              PROVE  IInv'
  OBVIOUS
<1>1. CASE NewStore \/ UNCHANGED vars
  BY <1>1 DEF NewStore, vars, IInv, TypeOK, WritebackPaired, Building, OnlyLent, Staging, Empty
<1>. QED BY <1>1, EncodeInv, ElementInv, PanicInv, BuiltInv, ForeignInv, EndInv, RustInv DEF Next

LEMMA SpecInv == Spec => []IInv
BY InitInv, StepInv, PTL DEF Spec

(* Every variable has its type.                                            *)
THEOREM TypeCorrect == Spec => []TypeOK
BY SpecInv, PTL DEF IInv

(* copy_back only ever follows pointers into live element stores of the    *)
(* vector the array was built from.                                        *)
THEOREM Paired == Spec => []WritebackPaired
BY SpecInv, PTL DEF IInv

(* A pending writeback restores each element left valid, whatever became   *)
(* of the others and of the header.                                        *)
THEOREM AlwaysRestores == Spec => SyncRestores
<1>1. IInv /\ [Next]_vars =>
        [pc' = "gone" /\ answer' \in {"none", "some"} /\ pc # "gone" /\ wb # None =>
           LET left == [i \in 1..Len(wb) |-> array[<<wb, i>>]]
           IN  /\ \A i \in 1..Len(wb) : slot'[<<wb, i>>] = IF left[i] = Bad THEN slot[<<wb, i>>] ELSE left[i]
               /\ answer' = "some" <=> header = "same" /\ \A i \in 1..Len(wb) : left[i] # Bad]_vars
  <2>. SUFFICES ASSUME IInv, Next, pc' = "gone", answer' \in {"none", "some"}, pc # "gone", wb # None
                PROVE  /\ \A i \in 1..Len(wb) : slot'[<<wb, i>>] =
                            IF array[<<wb, i>>] = Bad THEN slot[<<wb, i>>] ELSE array[<<wb, i>>]
                       /\ answer' = "some" <=> header = "same" /\ \A i \in 1..Len(wb) : array[<<wb, i>>] # Bad
    OBVIOUS
  <2>1. Sync
    BY DEF Next, Encode, EncodeElement, ElementPanics, EncodeBuilt, ForeignWrite, ForeignHeader,
           SyncPanics, Drop, NewStore, RustWrite
  <2>2. /\ wb \in Places
        /\ \A e \in Elements : array[e] # None <=> e[1] = wb
        /\ \A e \in Elements : array[e] \in Contents \cup {None}
    BY DEF IInv, TypeOK, WritebackPaired
  <2>3. /\ \A i \in 1..Len(wb) : <<wb, i>> \in Elements /\ array[<<wb, i>>] \in Contents
        /\ \A e \in Elements : e[1] = wb => e[2] \in 1..Len(wb) /\ e = <<wb, e[2]>>
    BY <2>2, ElementFacts DEF Contents
  <2>4. CASE Kind = "direct"
    <3>1. Bad \notin {CopiedBack[e] : e \in Elements}
      BY <2>4 DEF CopiedBack, IInv, OnlyLent, Empty
    <3>. QED BY <2>1, <2>3, <2>4, <3>1 DEF Sync, CopiedDirect, Contents
  <2>5. CASE Kind # "direct"
    <3>1. CopiedBack = array
      BY <2>5 DEF CopiedBack
    <3>2. Bad \notin {CopiedBack[e] : e \in Elements} <=> \A i \in 1..Len(wb) : array[<<wb, i>>] # Bad
      BY <2>2, <2>3, <3>1
    <3>. QED BY <2>1, <2>3, <2>5, <3>1, <3>2 DEF Sync, Restored, Contents
  <2>. QED BY <2>4, <2>5
<1>. QED BY <1>1, SpecInv, PTL DEF Spec, SyncRestores

-----------------------------------------------------------------------------
(* The refinement.  A conversion that ends with a writeback pending settles*)
(* the elements it restored; one that ends without abandons those whose    *)
(* carriers it did not put back.                                           *)

LEMMA EndSettles ==
  ASSUME IInv, wb # None, carrier' = Empty, array' = Empty, wb' = None,
         NEW D \in SUBSET Elements, \A e \in D : array[e] \in Values,
         slot' = [e \in Elements |-> IF e \in D THEN array[e] ELSE slot[e]]
  PROVE  W!WBNext
<1>1. Cell' = slot' /\ Cell = slot
  BY DEF Cell, Empty, IInv, TypeOK
<1>2. W!Settle(D)
  BY <1>1 DEF W!Settle, W!Unstaged, Empty
<1>. QED BY <1>2 DEF W!WBNext

LEMMA EndAbandons ==
  ASSUME IInv, wb = None, carrier' = Empty, array' = Empty, wb' = None,
         NEW D \in SUBSET Armed,
         slot' = [e \in Elements |-> IF e \in D THEN slot[e] ELSE Cell[e]]
  PROVE  W!WBNext
<1>1. Cell' = slot' /\ array' = array /\ array = Empty
  BY DEF Cell, Empty, IInv, TypeOK, WritebackPaired
<1>2. \A e \in D : e \in Elements /\ slot[e] = W!Left(Cell[e])
  BY DEF Armed, Cell, Left, W!Left, IInv, Staging
<1>3. Cell' = [e \in Elements |-> IF e \in D THEN W!Left(Cell[e]) ELSE Cell[e]]
  BY <1>1, <1>2
<1>4. W!Abandon(D)
  BY <1>1, <1>2, <1>3 DEF W!Abandon, Empty
<1>. QED BY <1>2, <1>4 DEF W!WBNext

LEMMA GivenUp ==
  ASSUME IInv, carrier' = Empty, array' = Empty, wb' = None, slot' = slot
  PROVE  W!WBNext
<1>1. CASE wb # None
  <2>. DEFINE D == {}
  <2>1. /\ D \in SUBSET Elements /\ \A e \in D : array[e] \in Values
        /\ slot' = [e \in Elements |-> IF e \in D THEN array[e] ELSE slot[e]]
    BY DEF IInv, TypeOK
  <2>. HIDE DEF D
  <2>. QED BY <1>1, <2>1, EndSettles
<1>2. CASE wb = None
  <2>. DEFINE D == Armed
  <2>1. slot' = [e \in Elements |-> IF e \in D THEN slot[e] ELSE Cell[e]] /\ D \in SUBSET Armed
    BY <1>2 DEF Armed, Cell, IInv, TypeOK
  <2>. HIDE DEF D
  <2>. QED BY <1>2, <2>1, EndAbandons
<1>. QED BY <1>1, <1>2

LEMMA SyncSettles ==
  ASSUME IInv, Sync
  PROVE  W!WBNext
<1>. USE DEF IInv, TypeOK
<1>1. carrier' = Empty /\ array' = Empty /\ wb' = None
  BY DEF Sync, Consumed
<1>2. CASE wb # None /\ Kind = "direct"
  <2>. DEFINE D == {e \in Elements : array[e] # None}
  <2>1. /\ \A e \in D : array[e] \in Values
        /\ slot' = [e \in Elements |-> IF e \in D THEN array[e] ELSE slot[e]]
    BY <1>2 DEF Sync, CopiedDirect, Contents
  <2>2. D \in SUBSET Elements
    OBVIOUS
  <2>. HIDE DEF D
  <2>. QED BY <1>1, <1>2, <2>1, <2>2, EndSettles
<1>3. CASE wb # None /\ Kind # "direct"
  <2>. DEFINE D == {e \in Elements : array[e] \in Values}
  <2>1. slot' = [e \in Elements |-> IF e \in D THEN array[e] ELSE slot[e]]
    BY <1>3 DEF Sync, Restored, CopiedBack
  <2>2. D \in SUBSET Elements /\ \A e \in D : array[e] \in Values
    OBVIOUS
  <2>. HIDE DEF D
  <2>. QED BY <1>1, <1>3, <2>1, <2>2, EndSettles
<1>4. CASE wb = None
  <2>. DEFINE D == {}
  <2>1. slot' = [e \in Elements |-> IF e \in D THEN slot[e] ELSE Cell[e]]
    <3>1. CASE Kind = "direct"
      BY <1>4, <3>1 DEF Sync, CopiedDirect, Cell, WritebackPaired, OnlyLent, Empty
    <3>2. CASE Kind # "direct"
      BY <1>4, <3>2 DEF Sync, Restored, CopiedBack, Cell
    <3>. QED BY <3>1, <3>2
  <2>2. D \in SUBSET Armed
    OBVIOUS
  <2>. HIDE DEF D
  <2>. QED BY <1>1, <1>4, <2>1, <2>2, EndAbandons
<1>. QED BY <1>2, <1>3, <1>4

LEMMA SyncPanicSettles ==
  ASSUME IInv, SyncPanics
  PROVE  W!WBNext
<1>. USE DEF IInv, TypeOK
<1>1. carrier' = Empty /\ array' = Empty /\ wb' = None
  BY DEF SyncPanics, Consumed
<1>2. PICK x \in Armed : slot' = [e \in Elements |-> IF e[2] < x[2] THEN Restored[e] ELSE slot[e]]
  BY DEF SyncPanics
<1>3. CASE wb # None
  <2>. DEFINE D == {e \in Elements : e[2] < x[2] /\ array[e] \in Values}
  <2>1. CopiedBack = array
    BY <1>2, <1>3 DEF Armed, CopiedBack, OnlyLent, Empty
  <2>2. slot' = [e \in Elements |-> IF e \in D THEN array[e] ELSE slot[e]]
    BY <1>2, <2>1 DEF Restored
  <2>3. D \in SUBSET Elements /\ \A e \in D : array[e] \in Values
    OBVIOUS
  <2>. HIDE DEF D
  <2>. QED BY <1>1, <1>3, <2>2, <2>3, EndSettles
<1>4. CASE wb = None
  <2>. DEFINE D == {e \in Armed : ~ (e[2] < x[2])}
  <2>1. slot' = [e \in Elements |-> IF e \in D THEN slot[e] ELSE Cell[e]]
    BY <1>2, <1>4 DEF Restored, CopiedBack, Cell, Armed
  <2>2. D \in SUBSET Armed
    OBVIOUS
  <2>. HIDE DEF D
  <2>. QED BY <1>1, <1>4, <2>1, <2>2, EndAbandons
<1>. QED BY <1>3, <1>4

LEMMA ElementStutters ==
  ASSUME IInv, EncodeElement
  PROVE  UNCHANGED W!wbVars
<1>. DEFINE x == <<target, at>>
<1>1. wb = None /\ wb' = None /\ array' = array
  BY DEF EncodeElement, IInv, Building
<1>2. CASE Kind = "direct"
  BY <1>1, <1>2 DEF EncodeElement, Cell, W!wbVars
<1>3. CASE Kind # "direct"
  <2>1. /\ carrier' = [carrier EXCEPT ![x] = slot[x]]
        /\ slot' = [slot EXCEPT ![x] = Left(slot[x])]
    BY <1>3 DEF EncodeElement
  <2>2. x \in Elements /\ carrier[x] = None
    BY <1>3, ElementFacts DEF EncodeElement, IInv, TypeOK, Building
  <2>3. \A e \in Elements : Cell'[e] = Cell[e]
    BY <1>1, <2>1, <2>2 DEF Cell, IInv, TypeOK
  <2>4. Cell' = Cell
    BY <2>3 DEF Cell
  <2>. QED BY <1>1, <2>4 DEF W!wbVars
<1>. QED BY <1>2, <1>3

LEMMA PanicAbandons ==
  ASSUME IInv, ElementPanics
  PROVE  [W!WBNext]_(W!wbVars)
<1>. DEFINE x == <<target, at>>
<1>1. x \in Elements /\ carrier[x] = None
  <2>1. target \in Places /\ at \in 1..Len(target) /\ at \in Nat
    BY DEF ElementPanics, IInv, TypeOK, Building
  <2>. QED BY <2>1, ElementFacts DEF ElementPanics, IInv, Building
<1>2. array' = array /\ carrier' = carrier /\ wb' = wb /\ wb = None /\ array = Empty
  BY DEF ElementPanics, IInv, Building, WritebackPaired
<1>3. CASE slot' = slot
  BY <1>2, <1>3 DEF Cell, W!wbVars
<1>4. CASE slot' = [slot EXCEPT ![x] = Left(@)]
  <2>1. Cell' = [e \in Elements |-> IF e \in {x} THEN W!Left(Cell[e]) ELSE Cell[e]]
    BY <1>1, <1>2, <1>4 DEF Cell, Left, W!Left, IInv, TypeOK
  <2>2. W!Abandon({x})
    BY <1>1, <1>2, <2>1 DEF W!Abandon, Empty
  <2>. QED BY <1>1, <2>2 DEF W!WBNext
<1>. QED BY <1>3, <1>4 DEF ElementPanics

LEMMA BuiltStages ==
  ASSUME IInv, EncodeBuilt
  PROVE  W!WBNext
<1>. DEFINE S == {e \in Elements : e[1] = target}
<1>1. target \in Places /\ Len(target) \in Nat /\ wb = None /\ wb' = target /\ wb' # None
  BY DEF EncodeBuilt, IInv, Building, TypeOK
<1>2. /\ Kind # "direct" => \A e \in Elements : carrier[e] # None <=> e \in S
      /\ Kind = "direct" => carrier = Empty
  <2>1. \A e \in Elements : e[1] = target => e[2] < at
    BY <1>1, ElementFacts DEF EncodeBuilt
  <2>. QED BY <2>1 DEF EncodeBuilt, IInv, Building, OnlyLent
<1>3. Cell' = slot /\ array = W!Unstaged
  BY <1>1 DEF EncodeBuilt, Cell, IInv, TypeOK, WritebackPaired, W!Unstaged, Empty
<1>4. \A e \in Elements : Cell[e] \in Values
  BY DEF Cell, IInv, TypeOK
<1>5. array' = [e \in Elements |-> IF e \in S THEN Cell[e] ELSE None]
  BY <1>1, <1>2 DEF EncodeBuilt, Cell, Empty
<1>6. slot = [e \in Elements |-> IF e \in S THEN W!Left(Cell[e]) ELSE Cell[e]]
  BY <1>1, <1>2 DEF Cell, IInv, TypeOK, Staging, Left, W!Left, Empty
<1>7. W!Stage(S)
  BY <1>3, <1>4, <1>5, <1>6 DEF W!Stage
<1>. QED BY <1>7 DEF W!WBNext

LEMMA ForeignChanges ==
  ASSUME IInv, ForeignWrite
  PROVE  W!WBNext
<1>1. PICK x \in Elements, v \in Contents : array[x] # None /\ array' = [array EXCEPT ![x] = v]
  BY DEF ForeignWrite
<1>2. Cell' = Cell
  BY DEF ForeignWrite, Cell
<1>. DEFINE new == [e \in Elements |-> IF array'[e] # None THEN array'[e] ELSE Bad]
<1>3. new \in [Elements -> Values \cup {Bad}]
  BY <1>1 DEF IInv, TypeOK, Contents
<1>4. array' = [e \in Elements |-> IF array[e] = None THEN None ELSE new[e]]
  BY <1>1 DEF IInv, TypeOK, Contents
<1>5. W!Change
  BY <1>2, <1>3, <1>4 DEF W!Change
<1>. QED BY <1>5 DEF W!WBNext

LEMMA OwnerWrites ==
  ASSUME IInv, NEW p \in Places, RustWrite(p)
  PROVE  W!WBNext
<1>1. PICK i \in 1..Len(p), v \in Values : slot' = [slot EXCEPT ![<<p, i>>] = v]
  BY DEF RustWrite
<1>2. <<p, i>> \in Elements /\ carrier[<<p, i>>] = None /\ array[<<p, i>>] = None
  BY ElementFacts DEF RustWrite, IInv, OnlyLent, WritebackPaired, Empty
<1>3. Cell' = [Cell EXCEPT ![<<p, i>>] = v]
  BY <1>1, <1>2 DEF RustWrite, Cell, IInv, TypeOK
<1>4. W!Own(<<p, i>>)
  BY <1>2, <1>3 DEF RustWrite, W!Own
<1>. QED BY <1>2, <1>4 DEF W!WBNext

LEMMA StepRefines ==
  ASSUME IInv, [Next]_vars
  PROVE  [W!WBNext]_(W!wbVars)
<1>1. CASE \E p \in Places : Encode(p)
  BY <1>1, GivenUp DEF Encode
<1>2. CASE Drop
  BY <1>2, GivenUp DEF Drop, Consumed
<1>3. CASE ForeignHeader \/ NewStore \/ UNCHANGED vars
  <2>1. slot' = slot /\ carrier' = carrier /\ array' = array /\ wb' = wb
    BY <1>3 DEF ForeignHeader, NewStore, vars
  <2>. QED BY <2>1 DEF Cell, W!wbVars
<1>. QED BY <1>1, <1>2, <1>3, ElementStutters, PanicAbandons, BuiltStages, ForeignChanges,
            SyncSettles, SyncPanicSettles, OwnerWrites DEF Next

(* The store implements Writeback, element by element.                     *)
THEOREM Refinement == Spec => ImplementsWriteback
<1>1. Init => W!WBInit
  BY DEF Init, W!WBInit, Cell, W!Unstaged
<1>2. IInv /\ [Next]_vars => [W!WBNext]_(W!wbVars)
  BY StepRefines
<1>. QED BY <1>1, <1>2, SpecInv, PTL DEF Spec, ImplementsWriteback, W!WBSpec
=============================================================================
