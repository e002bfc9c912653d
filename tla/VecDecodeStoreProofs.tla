------------------------ MODULE VecDecodeStoreProofs -------------------------
(***************************************************************************)
(* Proofs about VecDecodeStore for any vectors, lengths and element        *)
(* values, with elements converted or not.                                 *)
(*                                                                         *)
(* The inductive invariant adds to the checked one that a store with       *)
(* nothing pending lends nothing (Idle), so that Rust code writes only     *)
(* while the destinations are live.                                        *)
(***************************************************************************)
EXTENDS VecDecodeStore, TLAPS

Idle ==
  /\ src = None => value = Empty /\ kept = TRUE
  /\ Direct => inner = Empty
  /\ pc = "building" => src = None /\ target \in Sources /\ held = target
  /\ pc = "gone" => src = None /\ held = None
  /\ answer = "some" => src # None /\ pc = "idle"

IInv == TypeOK /\ DestinationsLive /\ Idle

USE VecDecodeAssumption

LEMMA ElementFacts ==
  /\ \A e \in Elements : e[1] \in Sources /\ e[2] \in 1..Len(e[1]) /\ e = <<e[1], e[2]>>
  /\ \A s \in Sources : \A i \in 1..Len(s) : <<s, i>> \in Elements
BY DEF Elements

LEMMA InitInv == Init => IInv
BY DEF Init, IInv, TypeOK, DestinationsLive, Idle, Empty

(* What finish() leaves in foreign memory, and what the vector's elements  *)
(* have to do with it.                                                     *)
LEMMA FinishedIs ==
  ASSUME IInv, src # None
  PROVE  /\ Finished = [e \in Elements |-> IF kept /\ e[1] = src /\ value[e] \in Values
                                           THEN value[e] ELSE mem[e]]
         /\ Succeeds <=> kept /\ \A e \in Of(src) : value[e] \in Values
<1>. USE DEF IInv, TypeOK, DestinationsLive, Of, Contents
<1>1. CASE Direct
  BY <1>1 DEF Finished, Succeeds
<1>2. CASE ~Direct /\ kept
  <2>1. Written = value
    BY <1>2 DEF Written
  <2>2. Finished = Synced(Of(src))
    BY <1>2 DEF Finished
  <2>3. \A e \in Of(src) : value[e] # Bad <=> value[e] \in Values
    OBVIOUS
  <2>. QED BY <1>2, <2>1, <2>2, <2>3 DEF Synced, Succeeds
<1>3. CASE ~Direct /\ ~kept
  <2>1. Written = inner
    BY <1>3 DEF Written
  <2>2. Finished = [e \in Elements |-> IF e \in Of(src) /\ inner[e] \in Values THEN inner[e] ELSE mem[e]]
    BY <1>3, <2>1 DEF Finished, Synced
  <2>3. Finished = [e \in Elements |-> mem[e]]
    BY <1>3, <2>2
  <2>. QED BY <1>3, <2>3 DEF Succeeds
<1>. QED BY <1>1, <1>2, <1>3

LEMMA SyncedTypes ==
  ASSUME IInv, NEW S
  PROVE  Synced(S) \in [Elements -> Values \cup {Bad}]
BY DEF IInv, TypeOK, Synced

LEMMA FinishTypes ==
  ASSUME IInv, FinishOk \/ FinishFails \/ FinishPanics
  PROVE  mem' \in [Elements -> Values \cup {Bad}] /\ src # None /\ Disarmed
<1>1. CASE FinishOk \/ FinishFails
  BY <1>1, FinishedIs DEF FinishOk, FinishFails, IInv, TypeOK
<1>2. CASE FinishPanics
  BY <1>2, SyncedTypes DEF FinishPanics
<1>. QED BY <1>1, <1>2

LEMMA DecodeInv ==
  ASSUME IInv, NEW s \in Sources, Decode(s)
  PROVE  IInv'
<1>1. Disarmed /\ mem' \in [Elements -> Values \cup {Bad}]
  BY FinishTypes DEF Decode, IInv, TypeOK
<1>2. /\ pc = "idle" /\ pc' \in {"idle", "building"} /\ target' \in Sources \cup {None}
      /\ held' \in Sources \cup {None} /\ answer' \in {"pending", "none", "unwound"}
      /\ pc' = "building" => target' = s /\ held' = s
  BY DEF Decode, IInv, TypeOK
<1>3. TypeOK'
  BY <1>1, <1>2 DEF Disarmed, Empty, TypeOK
<1>4. DestinationsLive' /\ Idle'
  BY <1>1, <1>2 DEF Disarmed, Empty, DestinationsLive, Idle
<1>. QED BY <1>3, <1>4 DEF IInv

LEMMA BuildOkInv ==
  ASSUME IInv, BuildOk
  PROVE  IInv'
<1>. USE DEF BuildOk, IInv, Of
<1>1. src = None /\ target \in Sources /\ held = target
  BY DEF Idle
<1>2. /\ value' \in [Elements -> Values \cup {None}]
      /\ \A e \in Elements : value'[e] # None <=> e[1] = target
  BY DEF TypeOK
<1>3. inner' \in [Elements -> Values \cup {None}]
  BY <1>2 DEF Empty
<1>4. TypeOK'
  BY <1>1, <1>2, <1>3 DEF TypeOK, Contents
<1>5. DestinationsLive'
  BY <1>1, <1>2 DEF DestinationsLive, TypeOK
<1>6. Idle'
  BY <1>1 DEF Idle
<1>. QED BY <1>4, <1>5, <1>6

LEMMA BuildFailsInv ==
  ASSUME IInv, BuildFails
  PROVE  IInv'
<1>. USE DEF BuildFails, IInv
<1>1. src = None /\ target \in Sources
  BY DEF Idle
<1>2. PICK x \in Of(target), more \in {0, 1} :
        /\ \A e \in Of(target) : e[2] < x[2] => mem[e] \in Values
        /\ more = 1 => mem[x] \in Values
        /\ inner' = [e \in Elements |-> IF ~Direct /\ e[1] = target /\ e[2] < x[2] + more
                                        THEN mem[e] ELSE None]
        /\ answer' \in IF mem[x] \in Values THEN {"unwound"} ELSE {"none", "unwound"}
  OBVIOUS
<1>3. ASSUME NEW e \in Elements, e[1] = target, e[2] < x[2] + more
      PROVE  mem[e] \in Values
  <2>1. e \in Of(target) /\ e[2] \in Nat /\ x[2] \in Nat /\ x \in Elements /\ x[1] = target
    BY <1>3, <1>1, ElementFacts DEF Of
  <2>2. CASE e[2] < x[2]
    BY <1>2, <2>1, <2>2
  <2>3. CASE e[2] = x[2] /\ more = 1
    <3>1. e = x
      BY <1>3, <2>1, <2>3, ElementFacts
    <3>. QED BY <1>2, <2>3, <3>1
  <2>. QED BY <1>2, <1>3, <2>1, <2>2, <2>3
<1>4. inner' \in [Elements -> Values \cup {None}]
  BY <1>2, <1>3
<1>5. answer' \in {"none", "unwound"}
  BY <1>2
<1>6. TypeOK'
  BY <1>4, <1>5 DEF TypeOK
<1>7. DestinationsLive' /\ Idle'
  BY <1>1, <1>2, <1>5 DEF DestinationsLive, Idle, Empty
<1>. QED BY <1>6, <1>7

LEMMA RustInv ==
  ASSUME IInv, RustWrite
  PROVE  IInv'
<1>1. /\ value' \in [Elements -> Contents \cup {None}]
      /\ \A e \in Elements : value'[e] # None <=> value[e] # None
      /\ kept' \in BOOLEAN
  BY DEF RustWrite, IInv, TypeOK, DestinationsLive, Idle, Of, Contents
<1>2. TypeOK'
  BY <1>1 DEF RustWrite, IInv, TypeOK
<1>3. DestinationsLive' /\ Idle'
  BY <1>1 DEF RustWrite, IInv, DestinationsLive, Idle, Empty, Of
<1>. QED BY <1>2, <1>3 DEF IInv

LEMMA ForeignInv ==
  ASSUME IInv, ForeignWrite
  PROVE  IInv'
<1>1. /\ mem' \in [Elements -> Values \cup {Bad}]
      /\ \A e \in Elements : e[1] = held => mem'[e] = mem[e]
  BY DEF ForeignWrite, IInv, TypeOK
<1>2. TypeOK' /\ Idle'
  BY <1>1 DEF ForeignWrite, IInv, TypeOK, Idle, Empty
<1>3. DestinationsLive'
  BY <1>1 DEF ForeignWrite, IInv, DestinationsLive, Of
<1>. QED BY <1>2, <1>3 DEF IInv

LEMMA EndInv ==
  ASSUME IInv, Sync \/ Drop
  PROVE  IInv'
<1>1. Disarmed /\ mem' \in [Elements -> Values \cup {Bad}] /\ Consumed
  BY FinishTypes DEF Sync, Drop, IInv, TypeOK
<1>2. answer' \in {"synced", "rejected", "unwound", "dropped"}
  BY DEF Sync, Drop
<1>3. TypeOK'
  BY <1>1, <1>2 DEF Disarmed, Consumed, Empty, IInv, TypeOK
<1>4. DestinationsLive' /\ Idle'
  BY <1>1, <1>2 DEF Disarmed, Consumed, Empty, DestinationsLive, Idle
<1>. QED BY <1>3, <1>4 DEF IInv

LEMMA StepInv == IInv /\ [Next]_vars => IInv'
<1>. SUFFICES ASSUME IInv, [Next]_vars
              PROVE  IInv'
  OBVIOUS
<1>1. CASE DecodeRefused \/ NewStore \/ UNCHANGED vars
  BY <1>1 DEF DecodeRefused, NewStore, vars, IInv, TypeOK, DestinationsLive, Idle, Empty, Of
<1>. QED BY <1>1, DecodeInv, BuildOkInv, BuildFailsInv, RustInv, ForeignInv, EndInv DEF Next

LEMMA SpecInv == Spec => []IInv
BY InitInv, StepInv, PTL DEF Spec

(* Every variable has its type.                                            *)
THEOREM TypeCorrect == Spec => []TypeOK
BY SpecInv, PTL DEF IInv

(* The destinations of a pending writeback are live and untouched.         *)
THEOREM AlwaysLive == Spec => []DestinationsLive
BY SpecInv, PTL DEF IInv

(* Whatever ends a pending writeback, each element that can be committed   *)
(* arrives when the shape was kept, nothing else is written, and the call  *)
(* says whether that was all.                                              *)
THEOREM AlwaysArrive == Spec => ElementsArrive
<1>1. IInv /\ [Next]_vars =>
        [src # None /\ src' = None /\ answer' \notin {"unwound", "dropped"} =>
           /\ mem' = [e \in Elements |-> IF kept /\ e[1] = src /\ value[e] \in Values
                                         THEN value[e] ELSE mem[e]]
           /\ answer' \in {"synced", "pending"} <=> kept /\ \A e \in Of(src) : value[e] \in Values]_vars
  <2>. SUFFICES ASSUME IInv, Next, src # None, src' = None, answer' \notin {"unwound", "dropped"}
                PROVE  /\ mem' = [e \in Elements |-> IF kept /\ e[1] = src /\ value[e] \in Values
                                                     THEN value[e] ELSE mem[e]]
                       /\ answer' \in {"synced", "pending"}
                            <=> kept /\ \A e \in Of(src) : value[e] \in Values
    OBVIOUS
  <2>1. (\E s \in Sources : Decode(s)) \/ Sync
    BY DEF Next, DecodeRefused, BuildOk, BuildFails, RustWrite, ForeignWrite, Drop, NewStore, IInv, Idle
  <2>2. (FinishOk /\ answer' \in {"synced", "pending"}) \/ (FinishFails /\ answer' \in {"none", "rejected"})
    BY <2>1 DEF Decode, Sync
  <2>. QED BY <2>2, FinishedIs DEF FinishOk, FinishFails
<1>. QED BY <1>1, SpecInv, PTL DEF Spec, ElementsArrive

-----------------------------------------------------------------------------
(* The refinement.                                                         *)

LEMMA FinishSettles ==
  ASSUME IInv, src # None, src' = None,
         NEW D \in SUBSET Elements, \A e \in D : e[1] = src /\ value[e] \in Values,
         mem' = [e \in Elements |-> IF e \in D THEN value[e] ELSE mem[e]]
  PROVE  W!WBNext
<1>1. Staged = value /\ Staged' = Empty
  BY DEF Staged, Empty
<1>2. W!Settle(D)
  BY <1>1 DEF W!Settle, W!Unstaged, Empty
<1>. QED BY <1>2 DEF W!WBNext

LEMMA FinishRefines ==
  ASSUME IInv, FinishOk \/ FinishFails \/ FinishPanics
  PROVE  W!WBNext
<1>. USE DEF IInv, TypeOK
<1>1. src # None /\ src' = None
  BY FinishTypes DEF Disarmed
<1>2. CASE FinishOk \/ FinishFails
  <2>. DEFINE D == {e \in Elements : kept /\ e[1] = src /\ value[e] \in Values}
  <2>1. /\ D \in SUBSET Elements
        /\ \A e \in D : e[1] = src /\ value[e] \in Values
        /\ mem' = [e \in Elements |-> IF e \in D THEN value[e] ELSE mem[e]]
    BY <1>1, <1>2, FinishedIs DEF FinishOk, FinishFails
  <2>. HIDE DEF D
  <2>. QED BY <1>1, <2>1, FinishSettles
<1>3. CASE FinishPanics
  <2>1. PICK x \in Of(src) : mem' = Synced({e \in Of(src) : e[2] < x[2]})
    BY <1>3 DEF FinishPanics
  <2>. DEFINE D == {e \in Of(src) : kept /\ e[2] < x[2] /\ value[e] \in Values}
  <2>2. ~Direct
    BY <1>3 DEF FinishPanics
  <2>3. mem' = [e \in Elements |-> IF e \in D THEN value[e] ELSE mem[e]]
    <3>1. CASE kept
      BY <2>1, <2>2, <3>1 DEF Synced, Written, Of
    <3>2. CASE ~kept
      BY <1>1, <2>1, <2>2, <3>2 DEF Synced, Written, Of, DestinationsLive
    <3>. QED BY <3>1, <3>2
  <2>4. D \in SUBSET Elements /\ \A e \in D : e[1] = src /\ value[e] \in Values
    BY DEF Of
  <2>. HIDE DEF D
  <2>. QED BY <1>1, <2>3, <2>4, FinishSettles
<1>. QED BY <1>2, <1>3

LEMMA StagedSame ==
  ASSUME IInv, src = None, src' = None, mem' = mem
  PROVE  UNCHANGED W!wbVars
BY DEF Staged, Empty, W!wbVars

LEMMA BuildStages ==
  ASSUME IInv, BuildOk
  PROVE  W!WBNext
<1>1. src = None /\ target \in Sources
  BY DEF BuildOk, IInv, Idle
<1>. DEFINE S == Of(target)
<1>2. Staged = W!Unstaged
  BY <1>1 DEF Staged, Empty, W!Unstaged
<1>3. Staged' = [e \in Elements |-> IF e \in S THEN mem[e] ELSE None]
  BY <1>1 DEF BuildOk, Staged
<1>4. mem' = [e \in Elements |-> IF e \in S THEN W!Left(mem[e]) ELSE mem[e]]
  BY DEF BuildOk, W!Left, IInv, TypeOK
<1>5. S \in SUBSET Elements /\ \A e \in S : mem[e] \in Values
  BY DEF BuildOk, Of
<1>6. W!Stage(S)
  BY <1>2, <1>3, <1>4, <1>5 DEF W!Stage
<1>. QED BY <1>5, <1>6 DEF W!WBNext

LEMMA RustChanges ==
  ASSUME IInv, RustWrite
  PROVE  W!WBNext
<1>. USE DEF IInv, TypeOK
<1>1. Staged = value /\ Staged' = value' /\ mem' = mem /\ src # None
  BY DEF RustWrite, Idle, Staged
<1>2. /\ value' \in [Elements -> Contents \cup {None}]
      /\ \A e \in Elements : value'[e] # None <=> value[e] # None
  BY <1>1 DEF RustWrite, DestinationsLive, Of, Contents
<1>. DEFINE new == [e \in Elements |-> IF value'[e] # None THEN value'[e] ELSE Bad]
<1>3. new \in [Elements -> Values \cup {Bad}]
  BY <1>2 DEF Contents
<1>4. Staged' = [e \in Elements |-> IF Staged[e] = None THEN None ELSE new[e]]
  BY <1>1, <1>2
<1>5. W!Change
  BY <1>1, <1>3, <1>4 DEF W!Change
<1>. QED BY <1>5 DEF W!WBNext

LEMMA OwnerWrites ==
  ASSUME IInv, ForeignWrite
  PROVE  W!WBNext
<1>1. PICK e \in Elements, v \in Values \cup {Bad} : e[1] # held /\ mem' = [mem EXCEPT ![e] = v]
  BY DEF ForeignWrite
<1>2. Staged' = Staged /\ Staged[e] = None
  BY <1>1 DEF ForeignWrite, Staged, Empty, IInv, DestinationsLive
<1>3. W!Own(e)
  BY <1>1, <1>2 DEF W!Own
<1>. QED BY <1>3 DEF W!WBNext

LEMMA DropRefines ==
  ASSUME IInv, Drop
  PROVE  [W!WBNext]_(W!wbVars)
<1>1. src' = None /\ mem' = mem
  BY DEF Drop, Disarmed
<1>2. CASE src = None
  BY <1>1, <1>2, StagedSame
<1>3. CASE src # None
  <2>. DEFINE D == {}
  <2>1. /\ D \in SUBSET Elements /\ \A e \in D : e[1] = src /\ value[e] \in Values
        /\ mem' = [e \in Elements |-> IF e \in D THEN value[e] ELSE mem[e]]
    BY <1>1 DEF IInv, TypeOK
  <2>. HIDE DEF D
  <2>. QED BY <1>1, <1>3, <2>1, FinishSettles
<1>. QED BY <1>2, <1>3

LEMMA StepRefines ==
  ASSUME IInv, [Next]_vars
  PROVE  [W!WBNext]_(W!wbVars)
<1>1. CASE (\E s \in Sources : Decode(s)) \/ Sync
  <2>1. (FinishOk \/ FinishFails \/ FinishPanics) \/ (src = None /\ src' = None /\ mem' = mem)
    BY <1>1 DEF Decode, Sync, Disarmed
  <2>. QED BY <2>1, FinishRefines, StagedSame
<1>2. CASE BuildFails
  BY <1>2, StagedSame DEF BuildFails, IInv, Idle
<1>3. CASE DecodeRefused \/ NewStore \/ UNCHANGED vars
  <2>1. mem' = mem /\ src' = src /\ value' = value
    BY <1>3 DEF DecodeRefused, NewStore, vars
  <2>. QED BY <2>1 DEF Staged, W!wbVars
<1>. QED BY <1>1, <1>2, <1>3, BuildStages, RustChanges, OwnerWrites, DropRefines DEF Next

(* The store implements Writeback, element by element.                     *)
THEOREM Refinement == Spec => ImplementsWriteback
<1>1. Init => W!WBInit
  BY DEF Init, W!WBInit, Staged, W!Unstaged, Empty
<1>2. IInv /\ [Next]_vars => [W!WBNext]_(W!wbVars)
  BY StepRefines
<1>. QED BY <1>1, <1>2, SpecInv, PTL DEF Spec, ImplementsWriteback, W!WBSpec
=============================================================================
