----------------------------- MODULE CallProofs ------------------------------
(***************************************************************************)
(* Proofs about Call, for any number of arguments of any kinds, either     *)
(* failure mode and a foreign or a Rust side at either end.                *)
(***************************************************************************)
EXTENDS Call, TLAPS

(* What encoding leaves in the caller's variable.                          *)
Staged(i) == IF Kind[i] = "take" THEN Default ELSE before[i]

(* The wrapper holds a carrier for argument i and has not synced it yet.   *)
Encoded(i) ==
  \/ pc = "convert" /\ i < at
  \/ pc \in {"unpack", "pack", "decode", "resync"}
  \/ pc = "sync" /\ i >= at

(* Which phases follow which: the callee runs between decode and resync.   *)
Phases ==
  /\ pc \in {"convert", "unpack", "pack", "decode"} => ~ran
  /\ pc \in {"convert", "unpack", "sync"} => Caller = "rust"
  /\ pc \in {"decode", "resync"} => Callee = "rust"
  /\ pc = "resync" => ran /\ out = "ok"
  /\ pc = "sync" => out # "none" /\ (ran \/ out \in {"trap_value", "unknown_tag"})
  /\ pc \notin {"done", "abort"} => result = "pending"
  /\ pc = "abort" => result = "abort"
  /\ Callee = "rust" => out # "bad"

(* The wrapper's stores: what each holds, argument by argument.            *)
StoresInv ==
  Caller = "rust" =>
    \A i \in Soft :
      /\ pc = "convert" /\ i >= at => slot[i] = before[i]
      /\ Encoded(i) => i \in pending /\ slot[i] = Staged(i)
      /\ pc = "sync" /\ i < at =>
           IF wire[i] \in Values THEN slot[i] = wire[i] ELSE slot[i] = Staged(i) /\ i \in failed

(* Until the callee runs, a carrier holds what it was encoded from.        *)
CarriersInv ==
  /\ Caller = "rust" /\ ~ran =>
       \A i \in Soft : Encoded(i) \/ pc = "sync" => wire[i] = before[i]
  /\ pc \in {"convert", "unpack", "pack"} => \A i \in Args : live[i] = Nothing
  /\ pc = "decode" => \A i \in Args : live[i] # Nothing => live[i] = wire[i] /\ live[i] \in Values

(* Afterwards it holds what the callee left, once its store is synced.     *)
FinalInv ==
  ran => \A i \in Soft :
    /\ final[i] \in Values \cup {Bad}
    /\ Callee = "foreign" => wire[i] = final[i]
    /\ pc = "resync" =>
         /\ live[i] = final[i]
         /\ i < at /\ final[i] \in Values => wire[i] = final[i]
         /\ i < at /\ final[i] \notin Values => i \in failed
         /\ (i >= at \/ final[i] \notin Values) /\ Caller = "rust" => wire[i] = before[i]
    /\ Callee = "rust" /\ pc \in {"sync", "done"} =>
         /\ final[i] \in Values => wire[i] = final[i]
         /\ final[i] \notin Values => out = "soft_sync_error"
         /\ final[i] \notin Values /\ Caller = "rust" => wire[i] = before[i]

(* The answer of a call that is over.                                      *)
AnswerInv ==
  pc = "done" =>
    /\ ran => result \in Errors \cup {"ok"}
    /\ ran /\ result = "ok" => out = "ok"
    /\ Caller = "rust" /\ ran =>
         \A i \in Soft :
           IF wire[i] \in Values THEN slot[i] = wire[i] ELSE slot[i] = Staged(i) /\ result \in Errors
    /\ ~ran =>
         /\ result \in Errors
         /\ \A i \in Soft :
              slot[i] = before[i] \/ (Kind[i] = "take" /\ Unpacked # {} /\ slot[i] = Default)

ForeignCallerInv == Caller = "foreign" => slot = before

IInv ==
  /\ TypeOK
  /\ Phases
  /\ StoresInv
  /\ CarriersInv
  /\ FinalInv
  /\ AnswerInv
  /\ ForeignCallerInv
LEMMA NextInv == IInv /\ [Next]_vars => IInv'
<1> SUFFICES ASSUME IInv, [Next]_vars PROVE IInv'
  OBVIOUS
<1> USE CallAssumption DEF IInv, Args, Soft, Owned, Errors, Caller, Callee, Mode, Unpacked, Packed
<1>1. CASE Convert
  <2>1. TypeOK'
    <3>1. at' \in 1..(NArgs + 1)
      BY <1>1 DEF TypeOK, Convert, Visit, Advance, output
    <3>2. slot' \in [Args -> Values]
      BY <1>1 DEF TypeOK, Convert, Visit, Advance, output
    <3>3. wire' \in [Args -> Values \cup {Bad, Nothing}]
      BY <1>1 DEF TypeOK, Convert, Visit, Advance, output
    <3>4. pending' \in SUBSET Soft
      BY <1>1 DEF TypeOK, Convert, Visit, Advance, output
    <3>5. owner' \in [Args -> {"caller", "wire", "callee", "freed", "leaked"}]
      BY <1>1 DEF TypeOK, Convert, Visit, Advance, output
    <3>. QED BY <1>1, <3>1, <3>2, <3>3, <3>4, <3>5 DEF TypeOK, Convert, Visit, Advance, output
  <2>2. (Phases /\ AnswerInv /\ ForeignCallerInv)'
    BY <1>1, <2>1 DEF TypeOK, Phases, AnswerInv, ForeignCallerInv, StoresInv, CarriersInv, FinalInv, Encoded, Staged, Convert, Visit, Advance, output
  <2>3. StoresInv'
    BY <1>1 DEF TypeOK, Phases, StoresInv, CarriersInv, FinalInv, Encoded, Staged, Convert, Visit, Advance, output
  <2>4. (CarriersInv /\ FinalInv)'
    BY <1>1 DEF TypeOK, Phases, StoresInv, CarriersInv, FinalInv, Encoded, Staged, Convert, Visit, Advance, output
  <2>. QED BY <2>1, <2>2, <2>3, <2>4
<1>2. CASE Converted
  <2>1. TypeOK'
    BY <1>2 DEF TypeOK, Converted, Leave, inputs, output
  <2>2. (Phases /\ AnswerInv /\ ForeignCallerInv)'
    BY <1>2, <2>1 DEF TypeOK, Phases, AnswerInv, ForeignCallerInv, StoresInv, CarriersInv, FinalInv, Encoded, Staged, Converted, Leave, inputs, output
  <2>3. StoresInv'
    BY <1>2 DEF TypeOK, Phases, StoresInv, CarriersInv, FinalInv, Encoded, Staged, Converted, Leave, inputs, output
  <2>4. (CarriersInv /\ FinalInv)'
    BY <1>2 DEF TypeOK, Phases, StoresInv, CarriersInv, FinalInv, Encoded, Staged, Converted, Leave, inputs, output
  <2>. QED BY <2>1, <2>2, <2>3, <2>4
<1>3. CASE UnpackFails
  <2>1. TypeOK'
    BY <1>3 DEF TypeOK, UnpackFails, Visit, WrapperFails, Leak
  <2>2. (Phases /\ AnswerInv /\ ForeignCallerInv)'
    BY <1>3, <2>1 DEF TypeOK, Phases, AnswerInv, ForeignCallerInv, StoresInv, CarriersInv, FinalInv, Encoded, Staged, UnpackFails, Visit, WrapperFails, Leak
  <2>3. StoresInv'
    BY <1>3 DEF TypeOK, Phases, StoresInv, CarriersInv, FinalInv, Encoded, Staged, UnpackFails, Visit, WrapperFails, Leak
  <2>4. (CarriersInv /\ FinalInv)'
    BY <1>3 DEF TypeOK, Phases, StoresInv, CarriersInv, FinalInv, Encoded, Staged, UnpackFails, Visit, WrapperFails, Leak
  <2>. QED BY <2>1, <2>2, <2>3, <2>4
<1>4. CASE Unpack
  <2>1. TypeOK'
    BY <1>4 DEF TypeOK, Unpack, Visit, Advance, inputs, output
  <2>2. (Phases /\ AnswerInv /\ ForeignCallerInv)'
    BY <1>4, <2>1 DEF TypeOK, Phases, AnswerInv, ForeignCallerInv, StoresInv, CarriersInv, FinalInv, Encoded, Staged, Unpack, Visit, Advance, inputs, output
  <2>3. StoresInv'
    BY <1>4 DEF TypeOK, Phases, StoresInv, CarriersInv, FinalInv, Encoded, Staged, Unpack, Visit, Advance, inputs, output
  <2>4. (CarriersInv /\ FinalInv)'
    BY <1>4 DEF TypeOK, Phases, StoresInv, CarriersInv, FinalInv, Encoded, Staged, Unpack, Visit, Advance, inputs, output
  <2>. QED BY <2>1, <2>2, <2>3, <2>4
<1>5. CASE CallForeignFn
  <2>1. TypeOK'
    BY <1>5 DEF TypeOK, CallForeignFn, Leave, inputs, output
  <2>2. (Phases /\ AnswerInv /\ ForeignCallerInv)'
    BY <1>5, <2>1 DEF TypeOK, Phases, AnswerInv, ForeignCallerInv, StoresInv, CarriersInv, FinalInv, Encoded, Staged, CallForeignFn, Leave, inputs, output
  <2>3. StoresInv'
    BY <1>5 DEF TypeOK, Phases, StoresInv, CarriersInv, FinalInv, Encoded, Staged, CallForeignFn, Leave, inputs, output
  <2>4. (CarriersInv /\ FinalInv)'
    BY <1>5 DEF TypeOK, Phases, StoresInv, CarriersInv, FinalInv, Encoded, Staged, CallForeignFn, Leave, inputs, output
  <2>. QED BY <2>1, <2>2, <2>3, <2>4
<1>6. CASE ForeignBody
  <2>1. TypeOK'
    BY <1>6 DEF TypeOK, ForeignBody
  <2>2. (Phases /\ AnswerInv /\ ForeignCallerInv)'
    BY <1>6, <2>1 DEF TypeOK, Phases, AnswerInv, ForeignCallerInv, StoresInv, CarriersInv, FinalInv, Encoded, Staged, ForeignBody
  <2>3. StoresInv'
    BY <1>6 DEF TypeOK, Phases, StoresInv, CarriersInv, FinalInv, Encoded, Staged, ForeignBody
  <2>4. (CarriersInv /\ FinalInv)'
    BY <1>6 DEF TypeOK, Phases, StoresInv, CarriersInv, FinalInv, Encoded, Staged, ForeignBody
  <2>. QED BY <2>1, <2>2, <2>3, <2>4
<1>21. CASE UnknownTag
  <2>1. TypeOK'
    BY <1>21 DEF TypeOK, UnknownTag, BodyFails, Leak
  <2>2. (Phases /\ AnswerInv /\ ForeignCallerInv)'
    BY <1>21, <2>1 DEF TypeOK, Phases, AnswerInv, ForeignCallerInv, StoresInv, CarriersInv, FinalInv, Encoded, Staged, UnknownTag, BodyFails, Leak
  <2>3. StoresInv'
    BY <1>21 DEF TypeOK, Phases, StoresInv, CarriersInv, FinalInv, Encoded, Staged, UnknownTag, BodyFails, Leak
  <2>4. (CarriersInv /\ FinalInv)'
    BY <1>21 DEF TypeOK, Phases, StoresInv, CarriersInv, FinalInv, Encoded, Staged, UnknownTag, BodyFails, Leak
  <2>. QED BY <2>1, <2>2, <2>3, <2>4
<1>7. CASE PackFails
  <2>1. TypeOK'
    BY <1>7 DEF TypeOK, PackFails, Visit, BodyFails, Leak
  <2>2. (Phases /\ AnswerInv /\ ForeignCallerInv)'
    BY <1>7, <2>1 DEF TypeOK, Phases, AnswerInv, ForeignCallerInv, StoresInv, CarriersInv, FinalInv, Encoded, Staged, PackFails, Visit, BodyFails, Leak
  <2>3. StoresInv'
    BY <1>7 DEF TypeOK, Phases, StoresInv, CarriersInv, FinalInv, Encoded, Staged, PackFails, Visit, BodyFails, Leak
  <2>4. (CarriersInv /\ FinalInv)'
    BY <1>7 DEF TypeOK, Phases, StoresInv, CarriersInv, FinalInv, Encoded, Staged, PackFails, Visit, BodyFails, Leak
  <2>. QED BY <2>1, <2>2, <2>3, <2>4
<1>8. CASE Pack
  <2>1. TypeOK'
    BY <1>8 DEF TypeOK, Pack, Visit, Advance, inputs, output
  <2>2. (Phases /\ AnswerInv /\ ForeignCallerInv)'
    BY <1>8, <2>1 DEF TypeOK, Phases, AnswerInv, ForeignCallerInv, StoresInv, CarriersInv, FinalInv, Encoded, Staged, Pack, Visit, Advance, inputs, output
  <2>3. StoresInv'
    BY <1>8 DEF TypeOK, Phases, StoresInv, CarriersInv, FinalInv, Encoded, Staged, Pack, Visit, Advance, inputs, output
  <2>4. (CarriersInv /\ FinalInv)'
    BY <1>8 DEF TypeOK, Phases, StoresInv, CarriersInv, FinalInv, Encoded, Staged, Pack, Visit, Advance, inputs, output
  <2>. QED BY <2>1, <2>2, <2>3, <2>4
<1>9. CASE PackedAll
  <2>1. TypeOK'
    BY <1>9 DEF TypeOK, PackedAll, Leave, inputs, output
  <2>2. (Phases /\ AnswerInv /\ ForeignCallerInv)'
    BY <1>9, <2>1 DEF TypeOK, Phases, AnswerInv, ForeignCallerInv, StoresInv, CarriersInv, FinalInv, Encoded, Staged, PackedAll, Leave, inputs, output
  <2>3. StoresInv'
    BY <1>9 DEF TypeOK, Phases, StoresInv, CarriersInv, FinalInv, Encoded, Staged, PackedAll, Leave, inputs, output
  <2>4. (CarriersInv /\ FinalInv)'
    BY <1>9 DEF TypeOK, Phases, StoresInv, CarriersInv, FinalInv, Encoded, Staged, PackedAll, Leave, inputs, output
  <2>. QED BY <2>1, <2>2, <2>3, <2>4
<1>10. CASE Decode
  <2>1. TypeOK'
    <3>1. at' \in 1..(NArgs + 1)
      BY <1>10 DEF TypeOK, Decode, Visit, Advance, output
    <3>2. live' \in [Args -> Values \cup {Bad, Nothing}]
      BY <1>10 DEF TypeOK, Decode, Visit, Advance, output
    <3>3. owner' \in [Args -> {"caller", "wire", "callee", "freed", "leaked"}]
      BY <1>10 DEF TypeOK, Decode, Visit, Advance, output
    <3>. QED BY <1>10, <3>1, <3>2, <3>3 DEF TypeOK, Decode, Visit, Advance, output
  <2>2. (Phases /\ AnswerInv /\ ForeignCallerInv)'
    BY <1>10, <2>1 DEF TypeOK, Phases, AnswerInv, ForeignCallerInv, StoresInv, CarriersInv, FinalInv, Encoded, Staged, Decode, Visit, Advance, output
  <2>3. StoresInv'
    BY <1>10 DEF TypeOK, Phases, StoresInv, CarriersInv, FinalInv, Encoded, Staged, Decode, Visit, Advance, output
  <2>4. (CarriersInv /\ FinalInv)'
    BY <1>10 DEF TypeOK, Phases, StoresInv, CarriersInv, FinalInv, Encoded, Staged, Decode, Visit, Advance, output
  <2>. QED BY <2>1, <2>2, <2>3, <2>4
<1>11. CASE BindFails
  <2>1. TypeOK'
    BY <1>11 DEF TypeOK, BindFails, Present, BodyFails
  <2>2. (Phases /\ AnswerInv /\ ForeignCallerInv)'
    BY <1>11, <2>1 DEF TypeOK, Phases, AnswerInv, ForeignCallerInv, StoresInv, CarriersInv, FinalInv, Encoded, Staged, BindFails, Present, BodyFails
  <2>3. StoresInv'
    BY <1>11 DEF TypeOK, Phases, StoresInv, CarriersInv, FinalInv, Encoded, Staged, BindFails, Present, BodyFails
  <2>4. (CarriersInv /\ FinalInv)'
    BY <1>11 DEF TypeOK, Phases, StoresInv, CarriersInv, FinalInv, Encoded, Staged, BindFails, Present, BodyFails
  <2>. QED BY <2>1, <2>2, <2>3, <2>4
<1>12. CASE Body
  <2>1. TypeOK'
    BY <1>12 DEF TypeOK, Body, Leave, Present
  <2>2. (Phases /\ AnswerInv /\ ForeignCallerInv)'
    BY <1>12, <2>1 DEF TypeOK, Phases, AnswerInv, ForeignCallerInv, StoresInv, CarriersInv, FinalInv, Encoded, Staged, Body, Leave, Present
  <2>3. StoresInv'
    BY <1>12 DEF TypeOK, Phases, StoresInv, CarriersInv, FinalInv, Encoded, Staged, Body, Leave, Present
  <2>4. (CarriersInv /\ FinalInv)'
    BY <1>12 DEF TypeOK, Phases, StoresInv, CarriersInv, FinalInv, Encoded, Staged, Body, Leave, Present
  <2>. QED BY <2>1, <2>2, <2>3, <2>4
<1>13. CASE Resync
  <2>1. TypeOK'
    <3>1. at' \in 1..(NArgs + 1)
      BY <1>13 DEF TypeOK, Resync, Visit, Advance, output
    <3>2. wire' \in [Args -> Values \cup {Bad, Nothing}]
      BY <1>13 DEF TypeOK, Resync, Visit, Advance, output
    <3>3. failed' \in SUBSET Soft
      <4>1. (failed' = failed \cup {at} /\ at \in Soft) \/ failed' = failed
        BY <1>13 DEF TypeOK, Resync, Visit, Advance, output
      <4>. QED BY <4>1 DEF TypeOK
    <3>. QED BY <1>13, <3>1, <3>2, <3>3 DEF TypeOK, Resync, Visit, Advance, output
  <2>2. (Phases /\ AnswerInv /\ ForeignCallerInv)'
    BY <1>13, <2>1 DEF TypeOK, Phases, AnswerInv, ForeignCallerInv, StoresInv, CarriersInv, FinalInv, Encoded, Staged, Resync, Visit, Advance, output
  <2>3. StoresInv'
    BY <1>13 DEF TypeOK, Phases, StoresInv, CarriersInv, FinalInv, Encoded, Staged, Resync, Visit, Advance, output
  <2>4. (CarriersInv /\ FinalInv)'
    BY <1>13 DEF TypeOK, Phases, StoresInv, CarriersInv, FinalInv, Encoded, Staged, Resync, Visit, Advance, output
  <2>. QED BY <2>1, <2>2, <2>3, <2>4
<1>14. CASE ResyncFails
  <2>1. TypeOK'
    BY <1>14 DEF TypeOK, ResyncFails, BodyFails, inputs
  <2>2. (Phases /\ AnswerInv /\ ForeignCallerInv)'
    BY <1>14, <2>1 DEF TypeOK, Phases, AnswerInv, ForeignCallerInv, StoresInv, CarriersInv, FinalInv, Encoded, Staged, ResyncFails, BodyFails, inputs
  <2>3. StoresInv'
    BY <1>14 DEF TypeOK, Phases, StoresInv, CarriersInv, FinalInv, Encoded, Staged, ResyncFails, BodyFails, inputs
  <2>4. (CarriersInv /\ FinalInv)'
    BY <1>14 DEF TypeOK, Phases, StoresInv, CarriersInv, FinalInv, Encoded, Staged, ResyncFails, BodyFails, inputs
  <2>. QED BY <2>1, <2>2, <2>3, <2>4
<1>15. CASE Reply
  <2>1. TypeOK'
    BY <1>15 DEF TypeOK, Phases, Reply, Leave, inputs
  <2>2. (Phases /\ AnswerInv /\ ForeignCallerInv)'
    BY <1>15, <2>1 DEF TypeOK, Phases, AnswerInv, ForeignCallerInv, StoresInv, CarriersInv, FinalInv, Encoded, Staged, Reply, Leave, inputs
  <2>3. StoresInv'
    BY <1>15 DEF TypeOK, Phases, StoresInv, CarriersInv, FinalInv, Encoded, Staged, Reply, Leave, inputs
  <2>4. (CarriersInv /\ FinalInv)'
    BY <1>15 DEF TypeOK, Phases, StoresInv, CarriersInv, FinalInv, Encoded, Staged, Reply, Leave, inputs
  <2>. QED BY <2>1, <2>2, <2>3, <2>4
<1>16. CASE Sync
  <2>1. TypeOK'
    <3>1. at' \in 1..(NArgs + 1)
      BY <1>16 DEF TypeOK, Sync, Visit, Advance, output
    <3>2. slot' \in [Args -> Values]
      BY <1>16 DEF TypeOK, Sync, Visit, Advance, output
    <3>3. failed' \in SUBSET Soft
      <4>1. (failed' = failed \cup {at} /\ at \in Soft) \/ failed' = failed
        BY <1>16 DEF TypeOK, Sync, Visit, Advance, output
      <4>. QED BY <4>1 DEF TypeOK
    <3>4. pending' \in SUBSET Soft
      BY <1>16 DEF TypeOK, Sync, Visit, Advance, output
    <3>. QED BY <1>16, <3>1, <3>2, <3>3, <3>4 DEF TypeOK, Sync, Visit, Advance, output
  <2>2. (Phases /\ AnswerInv /\ ForeignCallerInv)'
    BY <1>16, <2>1 DEF TypeOK, Phases, AnswerInv, ForeignCallerInv, StoresInv, CarriersInv, FinalInv, Encoded, Staged, Sync, Visit, Advance, output
  <2>3. StoresInv'
    BY <1>16 DEF TypeOK, Phases, StoresInv, CarriersInv, FinalInv, Encoded, Staged, Sync, Visit, Advance, output
  <2>4. (CarriersInv /\ FinalInv)'
    BY <1>16 DEF TypeOK, Phases, StoresInv, CarriersInv, FinalInv, Encoded, Staged, Sync, Visit, Advance, output
  <2>. QED BY <2>1, <2>2, <2>3, <2>4
<1>17. CASE SyncFails
  <2>1. TypeOK'
    BY <1>17 DEF TypeOK, SyncFails, WrapperFails
  <2>2. (Phases /\ AnswerInv /\ ForeignCallerInv)'
    BY <1>17, <2>1 DEF TypeOK, Phases, AnswerInv, ForeignCallerInv, StoresInv, CarriersInv, FinalInv, Encoded, Staged, SyncFails, WrapperFails
  <2>3. StoresInv'
    BY <1>17 DEF TypeOK, Phases, StoresInv, CarriersInv, FinalInv, Encoded, Staged, SyncFails, WrapperFails
  <2>4. (CarriersInv /\ FinalInv)'
    BY <1>17 DEF TypeOK, Phases, StoresInv, CarriersInv, FinalInv, Encoded, Staged, SyncFails, WrapperFails
  <2>. QED BY <2>1, <2>2, <2>3, <2>4
<1>18. CASE DecodeOutputFails
  <2>1. TypeOK'
    BY <1>18 DEF TypeOK, DecodeOutputFails, WrapperFails
  <2>2. (Phases /\ AnswerInv /\ ForeignCallerInv)'
    BY <1>18, <2>1 DEF TypeOK, Phases, AnswerInv, ForeignCallerInv, StoresInv, CarriersInv, FinalInv, Encoded, Staged, DecodeOutputFails, WrapperFails
  <2>3. StoresInv'
    BY <1>18 DEF TypeOK, Phases, StoresInv, CarriersInv, FinalInv, Encoded, Staged, DecodeOutputFails, WrapperFails
  <2>4. (CarriersInv /\ FinalInv)'
    BY <1>18 DEF TypeOK, Phases, StoresInv, CarriersInv, FinalInv, Encoded, Staged, DecodeOutputFails, WrapperFails
  <2>. QED BY <2>1, <2>2, <2>3, <2>4
<1>19. CASE DecodeOutput
  <2>1. TypeOK'
    BY <1>19 DEF TypeOK, Phases, DecodeOutput, Leave, inputs
  <2>2. (Phases /\ AnswerInv /\ ForeignCallerInv)'
    BY <1>19, <2>1 DEF TypeOK, Phases, AnswerInv, ForeignCallerInv, StoresInv, CarriersInv, FinalInv, Encoded, Staged, DecodeOutput, Leave, inputs
  <2>3. StoresInv'
    BY <1>19 DEF TypeOK, Phases, StoresInv, CarriersInv, FinalInv, Encoded, Staged, DecodeOutput, Leave, inputs
  <2>4. (CarriersInv /\ FinalInv)'
    BY <1>19 DEF TypeOK, Phases, StoresInv, CarriersInv, FinalInv, Encoded, Staged, DecodeOutput, Leave, inputs
  <2>. QED BY <2>1, <2>2, <2>3, <2>4
<1>20. CASE Finished \/ UNCHANGED vars
  <2>1. UNCHANGED vars
    BY <1>20 DEF Finished
  <2>2. TypeOK' /\ Phases' /\ ForeignCallerInv'
    BY <2>1 DEF vars, TypeOK, Phases, ForeignCallerInv
  <2>3. StoresInv'
    BY <2>1 DEF vars, StoresInv, Encoded, Staged
  <2>4. CarriersInv' /\ FinalInv'
    BY <2>1 DEF vars, CarriersInv, FinalInv, Encoded
  <2>5. AnswerInv'
    BY <2>1 DEF vars, AnswerInv, Staged
  <2>. QED BY <2>2, <2>3, <2>4, <2>5
<1>. QED BY <1>1, <1>2, <1>3, <1>4, <1>5, <1>6, <1>7, <1>8, <1>9, <1>10, <1>11, <1>12, <1>13, <1>14, <1>15, <1>16, <1>17, <1>18, <1>19, <1>20, <1>21 DEF Next

LEMMA InitInv == Init => IInv
<1> SUFFICES ASSUME Init PROVE IInv
  OBVIOUS
<1> USE CallAssumption DEF Init, Args, Soft
<1>1. TypeOK
  <2>1. wire \in [Args -> Values \cup {Bad, Nothing}]
    BY Zenon
  <2>2. at \in 1..(NArgs + 1) /\ pc \in {"convert", "pack"}
    OBVIOUS
  <2>3. final \in [Args -> Values \cup {Bad, Nothing}] /\ live \in [Args -> Values \cup {Bad, Nothing}]
    OBVIOUS
  <2>4. owner \in [Args -> {"caller", "wire", "callee", "freed", "leaked"}]
    OBVIOUS
  <2>. QED BY <2>1, <2>2, <2>3, <2>4 DEF TypeOK, Errors
<1>2. StoresInv
  BY DEF StoresInv, Encoded
<1>3. CarriersInv /\ FinalInv
  BY DEF CarriersInv, FinalInv, Encoded
<1>4. Phases /\ AnswerInv /\ ForeignCallerInv
  BY DEF Phases, AnswerInv, ForeignCallerInv
<1>. QED BY <1>1, <1>2, <1>3, <1>4 DEF IInv

LEMMA SpecInv == Spec => []IInv
  BY InitInv, NextInv, PTL DEF Spec

(* A call is between Rust and Rust, or Rust and foreign code.              *)
LEMMA Sides ==
  ASSUME IInv
  PROVE  Caller \in {"rust", "foreign"} /\ Callee \in {"rust", "foreign"} /\ Mode \in {"panic", "error"}
  BY CallAssumption DEF IInv, TypeOK, Caller, Callee, Mode

(* The declaration does not change during a call.                          *)
LEMMA Fixed ==
  ASSUME [Next]_vars
  PROVE  /\ Caller' = Caller /\ Callee' = Callee /\ Mode' = Mode
         /\ Unpacked' = Unpacked /\ Packed' = Packed
<1>1. config' = config
  BY DEF Next, vars, Convert, Converted, UnpackFails, Unpack, CallForeignFn, ForeignBody, UnknownTag, PackFails,
     Pack, PackedAll, Decode, BindFails, Body, Resync, ResyncFails, Reply, Sync, SyncFails,
     DecodeOutputFails, DecodeOutput, Finished
<1>. QED BY <1>1 DEF Caller, Callee, Mode, Unpacked, Packed

(* Every variable keeps to its type in every call.                         *)
THEOREM TypeCorrect == Spec => []TypeOK
  BY SpecInv, PTL DEF IInv

(* For any number of soft arguments: each valid value the callee left      *)
(* reaches the carrier and the caller's variable, however many of the      *)
(* other stores fail on either side.                                       *)
THEOREM ValuesAlwaysArrive == Spec => []ValuesArrive
<1>1. IInv => ValuesArrive
  <2> SUFFICES ASSUME IInv, pc = "done", ran, NEW i \in Soft, final[i] \in Values
               PROVE  /\ Callee = "rust" => wire[i] = final[i]
                      /\ Caller = "rust" => slot[i] = final[i]
    BY DEF ValuesArrive
  <2>1. wire[i] = final[i]
    BY Sides DEF IInv, FinalInv
  <2>. QED BY <2>1 DEF IInv, AnswerInv
<1>. QED BY <1>1, SpecInv, PTL

(* A call that never ran the callee reports an error and changes nothing,  *)
(* but for a moved-out value behind a failing #[unpack].                   *)
THEOREM AlwaysUntouched == Spec => []UntouchedUnlessRan
<1>1. IInv => UntouchedUnlessRan
  BY DEF IInv, AnswerInv, UntouchedUnlessRan
<1>. QED BY <1>1, SpecInv, PTL

-----------------------------------------------------------------------------
(* Who frees what: the owned arguments and the output.                     *)

OwnersInv ==
  \A i \in Owned :
    /\ pc = "convert" /\ i >= at => owner[i] = "caller"
    /\ (pc = "convert" /\ i < at) \/ pc \in {"unpack", "pack"} => owner[i] = "wire"
    /\ pc = "decode" /\ i >= at => owner[i] = "wire"
    /\ pc = "decode" /\ i < at => owner[i] \in {"callee", "freed", "leaked"}
    /\ ran => owner[i] = "freed"
    /\ pc \in {"sync", "done"} => owner[i] \in {"freed", "leaked"}

(* A body that answered "ok" still owes its output to whoever decodes it.  *)
OutputInv ==
  /\ ~ran => outOwner = "none"
  /\ outOwner = "wire" => out \in {"ok", "bad"}
  /\ pc \in {"resync", "sync"} /\ out = "ok" => outOwner = "wire"
  /\ pc \notin {"done", "abort"} => outOwner \notin {"taken", "freed"}
  /\ outOwner = "leaked" /\ pc # "done" => pc \in {"sync", "abort"} /\ out = "soft_sync_error"
  /\ OutputSettled

LEMMA OwnersStep == IInv /\ OwnersInv /\ [Next]_vars => OwnersInv'
<1> SUFFICES ASSUME IInv, OwnersInv, [Next]_vars PROVE OwnersInv'
  OBVIOUS
<1> USE CallAssumption DEF IInv, TypeOK, Phases, OwnersInv, Args, Owned, Caller, Callee, Mode, Unpacked, Packed
<1>1. CASE Convert
  BY <1>1 DEF Convert, Visit, Advance, output
<1>2. CASE Converted
  BY <1>2 DEF Converted, Leave, inputs, output
<1>3. CASE UnpackFails
  BY <1>3 DEF UnpackFails, Visit, WrapperFails, Leak
<1>4. CASE Unpack
  BY <1>4 DEF Unpack, Visit, Advance, inputs, output
<1>5. CASE CallForeignFn
  BY <1>5 DEF CallForeignFn, Leave, inputs, output
<1>6. CASE ForeignBody
  BY <1>6 DEF ForeignBody
<1>21. CASE UnknownTag
  BY <1>21 DEF UnknownTag, BodyFails, Leak
<1>7. CASE PackFails
  BY <1>7 DEF PackFails, Visit, BodyFails, Leak
<1>8. CASE Pack
  BY <1>8 DEF Pack, Visit, Advance, inputs, output
<1>9. CASE PackedAll
  BY <1>9 DEF PackedAll, Leave, inputs, output
<1>10. CASE Decode
  BY <1>10 DEF Decode, Visit, Advance, output
<1>11. CASE BindFails
  BY <1>11 DEF BindFails, Present, BodyFails
<1>12. CASE Body
  BY <1>12 DEF Body, Leave, Present
<1>13. CASE Resync
  BY <1>13 DEF Resync, Visit, Advance, output
<1>14. CASE ResyncFails
  BY <1>14 DEF ResyncFails, BodyFails, inputs
<1>15. CASE Reply
  BY <1>15 DEF Reply, Leave, inputs
<1>16. CASE Sync
  BY <1>16 DEF Sync, Visit, Advance, output
<1>17. CASE SyncFails
  BY <1>17 DEF SyncFails, WrapperFails
<1>18. CASE DecodeOutputFails
  BY <1>18 DEF DecodeOutputFails, WrapperFails
<1>19. CASE DecodeOutput
  BY <1>19 DEF DecodeOutput, Leave, inputs
<1>20. CASE Finished \/ UNCHANGED vars
  BY <1>20 DEF Finished, vars
<1>. QED BY <1>1, <1>2, <1>3, <1>4, <1>5, <1>6, <1>7, <1>8, <1>9, <1>10, <1>11, <1>12, <1>13, <1>14, <1>15, <1>16, <1>17, <1>18, <1>19, <1>20, <1>21 DEF Next

LEMMA OutputStep == IInv /\ OutputInv /\ [Next]_vars => OutputInv'
<1> SUFFICES ASSUME IInv, OutputInv, [Next]_vars PROVE OutputInv'
  OBVIOUS
<1> USE CallAssumption DEF IInv, TypeOK, Phases, OutputInv, OutputSettled, Errors, Caller, Callee, Mode, Unpacked, Packed
<1>1. CASE Convert
  BY <1>1 DEF Convert, Visit, Advance, output
<1>2. CASE Converted
  BY <1>2 DEF Converted, Leave, inputs, output
<1>3. CASE UnpackFails
  BY <1>3 DEF UnpackFails, Visit, WrapperFails, Leak
<1>4. CASE Unpack
  BY <1>4 DEF Unpack, Visit, Advance, inputs, output
<1>5. CASE CallForeignFn
  BY <1>5 DEF CallForeignFn, Leave, inputs, output
<1>6. CASE ForeignBody
  BY <1>6 DEF ForeignBody
<1>21. CASE UnknownTag
  BY <1>21 DEF UnknownTag, BodyFails, Leak
<1>7. CASE PackFails
  BY <1>7 DEF PackFails, Visit, BodyFails, Leak
<1>8. CASE Pack
  BY <1>8 DEF Pack, Visit, Advance, inputs, output
<1>9. CASE PackedAll
  BY <1>9 DEF PackedAll, Leave, inputs, output
<1>10. CASE Decode
  BY <1>10 DEF Decode, Visit, Advance, output
<1>11. CASE BindFails
  BY <1>11 DEF BindFails, Present, BodyFails
<1>12. CASE Body
  BY <1>12 DEF Body, Leave, Present
<1>13. CASE Resync
  BY <1>13 DEF Resync, Visit, Advance, output
<1>14. CASE ResyncFails
  BY <1>14 DEF ResyncFails, BodyFails, inputs
<1>15. CASE Reply
  BY <1>15 DEF Reply, Leave, inputs
<1>16. CASE Sync
  BY <1>16 DEF Sync, Visit, Advance, output
<1>17. CASE SyncFails
  BY <1>17 DEF SyncFails, WrapperFails
<1>18. CASE DecodeOutputFails
  BY <1>18 DEF DecodeOutputFails, WrapperFails
<1>19. CASE DecodeOutput
  BY <1>19 DEF DecodeOutput, Leave, inputs
<1>20. CASE Finished \/ UNCHANGED vars
  BY <1>20 DEF Finished, vars
<1>. QED BY <1>1, <1>2, <1>3, <1>4, <1>5, <1>6, <1>7, <1>8, <1>9, <1>10, <1>11, <1>12, <1>13, <1>14, <1>15, <1>16, <1>17, <1>18, <1>19, <1>20, <1>21 DEF Next

(* An owned argument is freed once, or leaked by a call that says so.      *)
THEOREM OwnedAlwaysSettled == Spec => []OwnedSettled
<1>1. Init => OwnersInv
  BY CallAssumption DEF Init, OwnersInv, Owned, Args
<1>2. IInv /\ OwnersInv => OwnedSettled
  BY DEF IInv, AnswerInv, OwnersInv, OwnedSettled
<1>. QED BY <1>1, <1>2, OwnersStep, SpecInv, PTL DEF Spec

(* The output of a call is decoded or handed over exactly when the call    *)
(* answers "ok"; it is lost only by a failed synchronization or with a     *)
(* carrier its type does not accept, and the caller is told.               *)
THEOREM OutputAlwaysSettled == Spec => []OutputSettled
<1>1. Init => OutputInv
  BY CallAssumption DEF Init, OutputInv, OutputSettled
<1>2. OutputInv => OutputSettled
  BY DEF OutputInv
<1>. QED BY <1>1, <1>2, OutputStep, SpecInv, PTL DEF Spec

(* In error mode the conversion layer answers instead of panicking.        *)
THEOREM ErrorModeAlwaysReturns == Spec => []ErrorModeReturns
<1>1. Init => ErrorModeReturns
  BY CallAssumption DEF Init, ErrorModeReturns
<1>2. IInv /\ ErrorModeReturns /\ [Next]_vars => ErrorModeReturns'
  BY CallAssumption, Fixed, Sides DEF IInv, TypeOK, ErrorModeReturns, Next, vars, Convert, Converted, UnpackFails,
     Unpack, CallForeignFn, ForeignBody, UnknownTag, PackFails, Pack, PackedAll, Decode, BindFails, Body, Resync,
     ResyncFails, Reply, Sync, SyncFails, DecodeOutputFails, DecodeOutput, Finished, Visit, Advance,
     Leave, WrapperFails, BodyFails, inputs, output
<1>. QED BY <1>1, <1>2, SpecInv, PTL DEF Spec

-----------------------------------------------------------------------------
(* The refinement: the callee's run and the call's answer are the two      *)
(* steps a caller can see; every other step is a stutter.                  *)

LEMMA RunRefines ==
  ASSUME IInv, Caller = "rust", ForeignBody \/ Body
  PROVE  C!Run
<1>1. result = "pending" /\ LeftView = Nothing /\ UNCHANGED <<result, CallerView>>
  BY DEF IInv, Phases, ForeignBody, Body, Leave, LeftView, CallerView
<1>2. LeftView' = [i \in Soft |-> final'[i]]
  BY DEF ForeignBody, Body, LeftView, Caller
<1>4. ResultView = result /\ ResultView' = result
  BY <1>1 DEF ForeignBody, Body, ResultView, Caller
<1>3. \A i \in Soft : final'[i] \in Values \cup {Bad}
  BY DEF ForeignBody, Body, Soft
<1>. QED BY <1>1, <1>2, <1>3, <1>4 DEF C!Run
(* What a Rust caller finds when its call is over, in CallSpec's terms.    *)
Answered ==
  Caller = "rust" /\ pc = "done" =>
    /\ ran => /\ result \in Errors \cup IF \A i \in Soft : final[i] \in Values THEN {"ok"} ELSE {}
              /\ \A i \in Soft :
                   slot[i] \in IF final[i] \in Values THEN {final[i]}
                               ELSE {before[i]} \cup IF Kind[i] = "take" THEN {Default} ELSE {}
    /\ ~ran => /\ result \in Errors
               /\ \A i \in Soft :
                    slot[i] \in {before[i]} \cup IF Kind[i] = "take" THEN {Default} ELSE {}

LEMMA InvAnswered == IInv => Answered
<1> SUFFICES ASSUME IInv, Caller = "rust", pc = "done" PROVE Answered
  BY DEF Answered
<1> USE CallAssumption
<1>1. ASSUME ran, NEW i \in Soft, final[i] \notin Values
      PROVE  result \in Errors /\ slot[i] \in {before[i]} \cup IF Kind[i] = "take" THEN {Default} ELSE {}
  <2>1. CASE Callee = "foreign"
    BY <1>1, <2>1 DEF IInv, FinalInv, AnswerInv, Staged
  <2>2. CASE Callee = "rust"
    <3>1. out = "soft_sync_error" /\ wire[i] = before[i]
      BY <1>1, <2>2 DEF IInv, FinalInv
    <3>2. wire[i] \in Values
      BY <3>1 DEF IInv, TypeOK, Soft
    <3>. QED BY <1>1, <3>1, <3>2 DEF IInv, AnswerInv
  <2>. QED BY <2>1, <2>2, Sides
<1>2. ASSUME ran, NEW i \in Soft, final[i] \in Values
      PROVE  slot[i] = final[i]
  BY <1>2, Sides DEF IInv, FinalInv, AnswerInv
<1>3. ran => result \in Errors \cup IF \A i \in Soft : final[i] \in Values THEN {"ok"} ELSE {}
  BY <1>1 DEF IInv, AnswerInv
<1>4. ASSUME ~ran
      PROVE  /\ result \in Errors
             /\ \A i \in Soft :
                  slot[i] \in {before[i]} \cup IF Kind[i] = "take" THEN {Default} ELSE {}
  BY <1>4 DEF IInv, AnswerInv
<1>. QED BY <1>1, <1>2, <1>3, <1>4 DEF Answered

LEMMA AnswerRefines ==
  ASSUME IInv, IInv', Answered', Caller = "rust",
         pc \notin {"done", "abort"}, pc' = "done", UNCHANGED <<config, before, final, ran>>
  PROVE  C!Answer \/ C!AnswerUnrun
<1> USE CallAssumption
<1>1. result = "pending" /\ CallerView = [i \in Soft |-> before[i]]
  BY DEF IInv, Phases, CallerView
<1>2. CallerView' = [i \in Soft |-> slot'[i]] /\ LeftView' = LeftView
  BY DEF CallerView, LeftView, Caller
<1>0. Caller' = "rust" /\ ResultView = result /\ ResultView' = result'
  BY DEF ResultView, Caller
<1>3. CallerView' \in [Soft -> Values]
  BY <1>2 DEF IInv, TypeOK, Soft
<1>4. CASE ran
  <2>1. LeftView = [i \in Soft |-> final[i]]
    BY <1>4 DEF LeftView
  <2>2. LeftView # Nothing
    <3>1. \A i \in Soft : final[i] \in Values \cup {Bad}
      BY <1>4 DEF IInv, FinalInv
    <3>. QED BY <2>1, <3>1, NothingAssumption
  <2>3. \A i \in Soft : LeftView[i] = final[i]
    BY <2>1
  <2>4. result' \in Errors \cup IF \A i \in Soft : LeftView[i] \in Values THEN {"ok"} ELSE {}
    BY <1>0, <1>4, <2>3 DEF Answered
  <2>5. ASSUME NEW i \in Soft
        PROVE  CallerView'[i] \in IF LeftView[i] \in Values THEN {LeftView[i]} ELSE C!Kept(i)
    BY <1>0, <1>1, <1>2, <1>4, <2>3 DEF Answered, C!Kept, Soft
  <2>. QED BY <1>0, <1>1, <1>2, <1>3, <2>2, <2>4, <2>5 DEF C!Answer
<1>5. CASE ~ran
  <2>1. LeftView = Nothing
    BY <1>5 DEF LeftView
  <2>2. ASSUME NEW i \in Soft PROVE CallerView'[i] \in C!Kept(i)
    BY <1>0, <1>1, <1>2, <1>5 DEF Answered, C!Kept, Soft
  <2>. QED BY <1>0, <1>1, <1>2, <1>3, <1>5, <2>1, <2>2 DEF Answered, C!AnswerUnrun
<1>. QED BY <1>4, <1>5

LEMMA StepRefines ==
  ASSUME IInv, IInv', Answered', [Next]_vars, Caller = "rust"
  PROVE  [C!CNext]_(C!callVars)
<1> USE CallAssumption
<1>0. Caller' = "rust" /\ ResultView = result /\ ResultView' = result'
  BY Fixed DEF ResultView
<1>1. CASE pc \in {"done", "abort"}
  <2>1. UNCHANGED vars
    BY <1>1 DEF IInv, Phases, Next, vars, Convert, Converted, UnpackFails, Unpack, CallForeignFn,
       ForeignBody, UnknownTag, PackFails, Pack, PackedAll, Decode, BindFails, Body, Resync, ResyncFails, Reply,
       Sync, SyncFails, DecodeOutputFails, DecodeOutput, Finished, Visit, Leave
  <2>. QED BY <1>0, <2>1 DEF vars, C!callVars, CallerView, LeftView
<1>2. CASE ForeignBody \/ Body
  BY <1>2, RunRefines DEF C!CNext
<1>3. CASE pc \notin {"done", "abort"} /\ ~(ForeignBody \/ Body)
  <2>1. UNCHANGED <<config, before, final, ran>>
    BY <1>3 DEF Next, vars, Convert, Converted, UnpackFails, Unpack, CallForeignFn, inputs, output,
       UnknownTag, PackFails, Pack, PackedAll, Decode, BindFails, Resync, ResyncFails, Reply,
       Sync, SyncFails, DecodeOutputFails, DecodeOutput, Finished
  <2>2. CASE pc' = "done"
    BY <1>3, <2>1, <2>2, AnswerRefines DEF C!CNext
  <2>3. CASE pc' = "abort"
    <3>1. result = "pending" /\ result' = "abort"
      BY <1>3, <2>3 DEF IInv, Phases
    <3>2. UNCHANGED <<CallerView, LeftView>>
      BY <1>0, <1>3, <2>1, <2>3 DEF CallerView, LeftView
    <3>. QED BY <1>0, <3>1, <3>2 DEF C!Abort, C!CNext
  <2>4. CASE pc' \notin {"done", "abort"}
    <3>1. result = "pending" /\ result' = "pending"
      BY <1>3, <2>4 DEF IInv, Phases
    <3>2. UNCHANGED <<CallerView, LeftView>>
      BY <1>0, <1>3, <2>1, <2>4 DEF CallerView, LeftView
    <3>. QED BY <1>0, <3>1, <3>2 DEF C!callVars
  <2>. QED BY <2>2, <2>3, <2>4
<1>. QED BY <1>1, <1>2, <1>3

(* A foreign caller keeps what it had: the call is a stutter.              *)
LEMMA ForeignStutters ==
  ASSUME IInv, IInv', [Next]_vars, Caller = "foreign"
  PROVE  UNCHANGED C!callVars
<1>1. Caller' = "foreign"
  BY Fixed
<1>2. slot = before /\ slot' = before'
  BY <1>1 DEF IInv, ForeignCallerInv
<1>3. before' = before
  BY DEF Next, vars, Convert, Converted, UnpackFails, Unpack, CallForeignFn, ForeignBody, UnknownTag, PackFails,
     Pack, PackedAll, Decode, BindFails, Body, Resync, ResyncFails, Reply, Sync, SyncFails,
     DecodeOutputFails, DecodeOutput, Finished
<1>. QED BY <1>1, <1>2, <1>3 DEF C!callVars, CallerView, LeftView, ResultView

(* For a Rust caller the wrapper, the carriers and whatever body answers   *)
(* implement CallSpec: value-result arguments, settled one by one.         *)
THEOREM Refinement == Spec => ImplementsCallSpec
<1>1. Init => C!CInit
  BY CallAssumption DEF Init, C!CInit, CallerView, LeftView, ResultView, Soft
<1>2. IInv /\ IInv' /\ Answered' /\ [Next]_vars => [C!CNext]_(C!callVars)
  BY StepRefines, ForeignStutters, Sides
<1>. QED BY <1>1, <1>2, InvAnswered, SpecInv, PTL DEF Spec, ImplementsCallSpec, C!CSpec

-----------------------------------------------------------------------------
(* The order of a call: the phases follow one another, an error skips some *)
(* of them, and a phase visits each argument once.                         *)

Rank(phase) == CASE phase = "convert" -> 6
                 [] phase = "unpack" -> 5
                 [] phase = "pack" -> 4
                 [] phase = "decode" -> 3
                 [] phase = "resync" -> 2
                 [] phase = "sync" -> 1
                 [] OTHER -> 0

(* A bound on the steps that are left: the arguments the phase under way   *)
(* has not visited, and every argument for each phase that can follow it.  *)
Remaining == Rank(pc) * (NArgs + 2) + (NArgs + 1 - at)

(* A step ends a phase, wherever in it: what the later ones take is less.  *)
LEMMA LaterPhase ==
  ASSUME NEW r \in 0..6, NEW s \in 0..6, s < r, NEW i \in 1..(NArgs + 1)
  PROVE  s * (NArgs + 2) + (NArgs + 1 - 1) < r * (NArgs + 2) + (NArgs + 1 - i)
<1> USE CallAssumption
<1> DEFINE width == NArgs + 2
<1>1. width \in Nat /\ width > 0
  OBVIOUS
<1>2. s * width + width <= r * width
  <2> HIDE DEF width
  <2> QED BY <1>1
<1>. QED BY <1>2

(* No step of a call, whatever fails in it, leaves as many steps as there  *)
(* were before it: no phase is entered twice and no argument visited twice *)
(* by one phase, so a call is over after at most Remaining steps.          *)
THEOREM CallAdvances == Spec => [](Remaining \in Nat) /\ [][Remaining' < Remaining]_vars
<1>1. TypeOK => Remaining \in Nat
  BY CallAssumption DEF TypeOK, Remaining, Rank
<1>2. ASSUME TypeOK, TypeOK', [Next]_vars
      PROVE  [Remaining' < Remaining]_vars
  <2> USE <1>2
  <2>1. NArgs \in Nat /\ at \in 1..(NArgs + 1) /\ at' \in 1..(NArgs + 1)
    BY CallAssumption DEF TypeOK
  <2>2. Rank(pc) \in 0..6 /\ Rank(pc') \in 0..6
    BY DEF Rank
  <2>3. ASSUME Rank(pc') < Rank(pc), at' = 1 PROVE Remaining' < Remaining
    BY <2>1, <2>2, <2>3, LaterPhase DEF Remaining
  <2>4. ASSUME pc' = pc, at' = at + 1 PROVE Remaining' < Remaining
    <3>1. Rank(pc) * (NArgs + 2) \in Nat
      BY <2>1, <2>2
    <3>. QED BY <2>1, <2>4, <3>1 DEF Remaining
  <2>5. CASE Convert \/ Unpack \/ Pack \/ Decode \/ Resync \/ Sync
    BY <2>4, <2>5 DEF Convert, Unpack, Pack, Decode, Resync, Sync, Advance
  <2>6. CASE Converted \/ CallForeignFn \/ PackedAll \/ Body \/ Reply \/ DecodeOutput
    BY <2>3, <2>6 DEF Converted, CallForeignFn, PackedAll, Body, Reply, DecodeOutput, Leave, Rank
  <2>7. CASE UnpackFails \/ SyncFails \/ DecodeOutputFails
    BY <2>3, <2>7 DEF UnpackFails, SyncFails, DecodeOutputFails, Visit, WrapperFails, Rank
  <2>8. CASE UnknownTag \/ PackFails \/ BindFails \/ ResyncFails
    BY <2>3, <2>8 DEF UnknownTag, PackFails, BindFails, ResyncFails, Visit, BodyFails, Rank
  <2>9. CASE ForeignBody
    BY <2>3, <2>9 DEF ForeignBody, Rank
  <2>10. CASE Finished \/ UNCHANGED vars
    BY <2>10 DEF Finished
  <2>. QED BY <2>5, <2>6, <2>7, <2>8, <2>9, <2>10 DEF Next
<1>. QED BY <1>1, <1>2, TypeCorrect, PTL DEF Spec
=============================================================================
