-------------------------------- MODULE Call ---------------------------------
(***************************************************************************)
(* One call across the boundary: the wrapper an extern declaration expands *)
(* to (src/derive/src/wrapper.rs) and the body an exported function        *)
(* expands to (src/derive/src/ffi_fn.rs), composed through the carriers    *)
(* they exchange.  Either side may be foreign code instead.  A soft        *)
(* argument has a MutEncodeStore in the wrapper and a MutDecodeStore in    *)
(* the body, used for one conversion each; here a store is what they       *)
(* promise (Writeback): a pending value that is committed if valid.        *)
(***************************************************************************)
EXTENDS Naturals

CONSTANTS
  NArgs,      \* number of arguments
  Kind,       \* Kind[i]: "move", "view", "copy" or "take"
  Configs,    \* the declarations and the sides they are expanded for
  Values,     \* valid values
  Bad,        \* a carrier, or a value put in a store, that is rejected
  Default,    \* what core::mem::take leaves behind
  Nothing     \* no value, no carrier

Args == 1..NArgs
Kinds == {"move", "view", "copy", "take"}

(* caller, callee: "rust", the wrapper or the exported body; or "foreign". *)
(* mode: #![failure = "panic" | "error"].  unpacked, packed: the arguments *)
(* with an #[unpack] in the extern declaration, in the exported signature. *)
(* dispatched: the export selects an instantiation by the tags it is sent. *)
ASSUME CallAssumption ==
  /\ NArgs \in Nat
  /\ Kind \in [Args -> Kinds]
  /\ \A c \in Configs :
       /\ {c.caller, c.callee} \subseteq {"rust", "foreign"}
       /\ "rust" \in {c.caller, c.callee}
       /\ c.mode \in {"panic", "error"}
       /\ c.unpacked \subseteq Args /\ c.packed \subseteq Args
       /\ c.dispatched \in BOOLEAN
  /\ Default \in Values
  /\ Bad \notin Values
  /\ Nothing \notin Values \cup {Bad}

(* Under `#![failure = "error"]` an unpack expands to                      *)
(* `.map_err(|_| Error::trap_value())?`, whose error type nothing in the   *)
(* wrapper determines: such a declaration does not compile.                *)
ASSUME UnpackAssumption ==
  \A c \in Configs : c.caller = "rust" /\ c.mode = "error" => c.unpacked = {}

(* `#[soft]` arguments that are mutable references, and owned arguments.   *)
Soft == {i \in Args : Kind[i] \in {"copy", "take"}}
Owned == {i \in Args : Kind[i] = "move"}
Errors == {"trap_value", "soft_sync_error", "unknown_tag", "panic"}

ASSUME NothingAssumption == Nothing \notin [Soft -> Values \cup {Bad}]

VARIABLES
  config,    \* which of Configs this call is
  pc,        \* the phase of the call
  at,        \* the argument the phase is at
  slot,      \* the caller's values
  wire,      \* the carriers, as either side can read and write them
  pending,   \* the soft arguments whose wrapper store is not yet synced
  live,      \* the decoded inputs of the body, Nothing where decoding failed
  owner,     \* who must free each owned argument
  ran,       \* the callee's code ran
  failed,    \* __co3_sync_errors of the pass over the stores under way
  out,       \* the answer travelling back
  outOwner,  \* who must free what the output owns
  result,    \* what the caller got
  before,    \* history: the caller's values when the call began
  final      \* history: what the callee left for each soft argument

vars == <<config, pc, at, slot, wire, pending, live, owner, ran, failed, out, outOwner,
          result, before, final>>

Caller == config.caller
Callee == config.callee
Mode == config.mode
Unpacked == config.unpacked
Packed == config.packed
Dispatched == config.dispatched

inputs == <<slot, wire, pending, live, owner>>
output == <<out, outOwner, result>>

Init ==
  /\ config \in Configs
  /\ pc = IF Caller = "rust" THEN "convert" ELSE "pack"
  /\ at = 1
  /\ slot \in [Args -> Values]
  /\ wire \in [Args -> IF Caller = "rust" THEN {Nothing} ELSE Values \cup {Bad}]
  /\ pending = {}
  /\ live = [i \in Args |-> Nothing]
  /\ owner = [i \in Args |-> IF Caller = "rust" THEN "caller" ELSE "wire"]
  /\ ran = FALSE
  /\ failed = {}
  /\ out = "none"
  /\ outOwner = "none"
  /\ result = "pending"
  /\ before = slot
  /\ final = [i \in Args |-> Bad]

-----------------------------------------------------------------------------
(* Control: a phase visits the arguments in order, then the next begins.   *)

Visit(phase) == pc = phase /\ at \in Args
Advance == at' = at + 1 /\ UNCHANGED pc

Leave(phase, next) ==
  /\ pc = phase
  /\ at = NArgs + 1
  /\ pc' = next
  /\ at' = 1

(* The owned arguments still in S are never freed from here on.            *)
Leak(S) == owner' = [i \in Args |-> IF i \in Owned /\ owner[i] \in S THEN "leaked" ELSE owner[i]]

(* The wrapper returns early: its stores are dropped, not synced.  What    *)
(* becomes of the output depends on where it returns.                      *)
WrapperFails(error) ==
  /\ pc' = "done"
  /\ at' = 1
  /\ pending' = {}
  /\ result' = IF Mode = "error" THEN error ELSE "panic"

(* Mutant: every failure of the body panics.                               *)
BodyPanics(error) ==
  /\ pc' = "abort"
  /\ at' = 1
  /\ out' = error
  /\ result' = "abort"
  /\ outOwner' = IF outOwner = "wire" THEN "leaked" ELSE outOwner
  /\ failed' = {}

(* Mutant: the output that was encoded is still the caller's to free.      *)
BodyFailsOwning(error) ==
  /\ pc' = IF Mode = "panic" THEN "abort" ELSE IF Caller = "rust" THEN "sync" ELSE "done"
  /\ at' = 1
  /\ out' = error
  /\ result' = IF Mode = "panic" THEN "abort" ELSE IF Caller = "rust" THEN result ELSE error
  /\ failed' = {}
  /\ UNCHANGED outOwner

(* The body fails: an error value, or a panic that may not cross the ABI.  *)
BodyFails(error) ==
  /\ pc' = IF Mode = "panic" THEN "abort" ELSE IF Caller = "rust" THEN "sync" ELSE "done"
  /\ at' = 1
  /\ out' = error
  /\ result' = IF Mode = "panic" THEN "abort" ELSE IF Caller = "rust" THEN result ELSE error
  /\ outOwner' = IF outOwner = "wire" THEN "leaked" ELSE outOwner
  /\ failed' = {}

-----------------------------------------------------------------------------
(* The wrapper, up to the call.                                            *)

(* Mutant: the value of an owned argument stays with the caller.           *)
ConvertKeepingOwner ==
  /\ Visit("convert")
  /\ wire' = [wire EXCEPT ![at] = slot[at]]
  /\ slot' = [slot EXCEPT ![at] = IF Kind[at] = "take" THEN Default ELSE @]
  /\ pending' = pending \cup ({at} \cap Soft)
  /\ Advance
  /\ UNCHANGED <<live, owner, ran, failed, output, config, before, final>>

(* Mutant: every soft argument is moved out.                               *)
ConvertTaking ==
  /\ Visit("convert")
  /\ wire' = [wire EXCEPT ![at] = slot[at]]
  /\ slot' = [slot EXCEPT ![at] = IF at \in Soft THEN Default ELSE @]
  /\ pending' = pending \cup ({at} \cap Soft)
  /\ owner' = [owner EXCEPT ![at] = IF at \in Owned THEN "wire" ELSE @]
  /\ Advance
  /\ UNCHANGED <<live, ran, failed, output, config, before, final>>

(* gen_input_conversion_stmts: soft_encode into a new store, or encode.    *)
Convert ==
  /\ Visit("convert")
  /\ wire' = [wire EXCEPT ![at] = slot[at]]
  /\ slot' = [slot EXCEPT ![at] = IF Kind[at] = "take" THEN Default ELSE @]
  /\ pending' = pending \cup ({at} \cap Soft)
  /\ owner' = [owner EXCEPT ![at] = IF at \in Owned THEN "wire" ELSE @]
  /\ Advance
  /\ UNCHANGED <<live, ran, failed, output, config, before, final>>

Converted ==
  /\ Leave("convert", "unpack")
  /\ UNCHANGED <<inputs, ran, failed, output, config, before, final>>

(* gen_single_unpack_input_stmts and gen_unpack_input_stmts: a value may   *)
(* not fit its ABI parts.                                                  *)
UnpackFails ==
  /\ Visit("unpack")
  /\ at \in Unpacked
  /\ WrapperFails("trap_value")
  /\ Leak({"wire"})
  /\ UNCHANGED <<slot, wire, live, ran, failed, out, outOwner, config, before, final>>

Unpack ==
  /\ Visit("unpack")
  /\ Advance
  /\ UNCHANGED <<inputs, ran, failed, output, config, before, final>>

CallForeignFn ==
  /\ Leave("unpack", "pack")
  /\ UNCHANGED <<inputs, ran, failed, output, config, before, final>>

-----------------------------------------------------------------------------
(* Foreign code in the callee's place: it may leave anything in the        *)
(* carriers of mutable references, and answer anything.  A carrier the     *)
(* wrapper will reject may own an allocation all the same, as a box of a   *)
(* bool that holds neither value does.                                     *)
ForeignBody ==
  /\ Callee = "foreign"
  /\ pc = "pack"
  /\ \E new \in [Args -> Values \cup {Bad}] :
       /\ wire' = [i \in Args |-> IF i \in Soft THEN new[i] ELSE wire[i]]
       /\ final' = wire'
  /\ owner' = [i \in Args |-> IF i \in Owned THEN "freed" ELSE owner[i]]
  /\ ran' = TRUE
  /\ out' \in {"ok", "bad", "trap_value", "soft_sync_error", "unknown_tag"}
  /\ outOwner' \in CASE out' = "ok" -> {"wire"}
                     [] out' = "bad" -> {"wire", "none"}
                     [] OTHER -> {"none"}
  /\ pc' = "sync"
  /\ at' = 1
  /\ UNCHANGED <<slot, pending, live, failed, result, config, before>>

-----------------------------------------------------------------------------
(* The exported body, up to the callee.                                    *)

(* The tags select no instantiation of a dispatched export, whose fallback *)
(* arm looks at no argument.                                               *)
UnknownTag ==
  /\ Callee = "rust"
  /\ Dispatched
  /\ pc = "pack" /\ at = 1
  /\ BodyFails("unknown_tag")
  /\ Leak({"wire"})
  /\ UNCHANGED <<slot, wire, pending, live, ran, config, before, final>>

(* gen_pack_input_stmts: parts that do not fit are a decode error.         *)
PackFails ==
  /\ Callee = "rust"
  /\ Visit("pack")
  /\ at \in Packed
  /\ BodyFails("trap_value")
  /\ Leak({"wire"})
  /\ UNCHANGED <<slot, wire, pending, live, ran, config, before, final>>

Pack ==
  /\ Callee = "rust"
  /\ Visit("pack")
  /\ Advance
  /\ UNCHANGED <<inputs, ran, failed, output, config, before, final>>

PackedAll ==
  /\ Callee = "rust"
  /\ Leave("pack", "decode")
  /\ UNCHANGED <<inputs, ran, failed, output, config, before, final>>

(* Mutant: an owned argument is decoded as a borrow of the caller's.       *)
DecodeBorrowing ==
  /\ Visit("decode")
  /\ live' = [live EXCEPT ![at] = IF wire[at] \in Values THEN wire[at] ELSE Nothing]
  /\ Advance
  /\ UNCHANGED <<slot, wire, pending, owner, ran, failed, output, config, before, final>>

(* gen_input_decode_stmts: every argument is decoded, also after one       *)
(* failed.  What a rejected owned carrier held depends on its type: some   *)
(* decoders reclaim it.                                                    *)
Decode ==
  /\ Visit("decode")
  /\ live' = [live EXCEPT ![at] = IF wire[at] \in Values THEN wire[at] ELSE Nothing]
  /\ \E o \in (IF at \notin Owned THEN {owner[at]}
               ELSE IF wire[at] \in Values THEN {"callee"} ELSE {"freed", "leaked"}) :
       owner' = [owner EXCEPT ![at] = o]
  /\ Advance
  /\ UNCHANGED <<slot, wire, pending, ran, failed, output, config, before, final>>

Present == {i \in Args : live[i] # Nothing}

(* An input is missing: the stores of the present ones are synced, their   *)
(* errors ignored, and the values decoded so far dropped.                  *)
BindFails ==
  /\ pc = "decode" /\ at = NArgs + 1
  /\ Present # Args
  /\ wire' = [i \in Args |-> IF i \in Soft \cap Present THEN live[i] ELSE wire[i]]
  /\ owner' = [i \in Args |-> IF i \in Owned /\ owner[i] = "callee" THEN "freed" ELSE owner[i]]
  /\ BodyFails("trap_value")
  /\ UNCHANGED <<slot, pending, live, ran, config, before, final>>

(* The callee runs: it consumes what it owns and may leave a soft argument *)
(* in a state its store will not accept, such as a vector of another       *)
(* length.  Its output is encoded before any store is synced.              *)
Body ==
  /\ Leave("decode", "resync")
  /\ Present = Args
  /\ \E new \in [Args -> Values \cup {Bad}] :
       /\ live' = [i \in Args |-> IF i \in Soft THEN new[i] ELSE live[i]]
       /\ final' = live'
  /\ owner' = [i \in Args |-> IF i \in Owned THEN "freed" ELSE owner[i]]
  /\ ran' = TRUE
  /\ out' = "ok"
  /\ outOwner' = "wire"
  /\ UNCHANGED <<slot, wire, pending, failed, result, config, before>>

(* Mutant: the pass over the stores stops at the first failure.            *)
ResyncStops ==
  /\ Visit("resync")
  /\ IF failed # {} \/ (at \in Soft /\ live[at] \notin Values)
     THEN failed' = failed \cup ({at} \cap Soft) /\ UNCHANGED wire
     ELSE /\ wire' = [wire EXCEPT ![at] = IF at \in Soft THEN live[at] ELSE @]
          /\ UNCHANGED failed
  /\ Advance
  /\ UNCHANGED <<slot, pending, live, owner, ran, output, config, before, final>>

(* gen_store_sync_stmts: every present store is synced, also after one     *)
(* failed.                                                                 *)
Resync ==
  /\ Visit("resync")
  /\ IF at \in Soft /\ live[at] \notin Values
     THEN failed' = failed \cup {at} /\ UNCHANGED wire
     ELSE /\ wire' = [wire EXCEPT ![at] = IF at \in Soft THEN live[at] ELSE @]
          /\ UNCHANGED failed
  /\ Advance
  /\ UNCHANGED <<slot, pending, live, owner, ran, output, config, before, final>>

(* gen_sync_check: an error replaces the output that was already encoded.  *)
ResyncFails ==
  /\ pc = "resync" /\ at = NArgs + 1
  /\ failed # {}
  /\ BodyFails("soft_sync_error")
  /\ UNCHANGED <<inputs, ran, config, before, final>>

(* Mutant: the errors of the stores are not looked at.                     *)
ReplyUnchecked ==
  /\ Leave("resync", IF Caller = "rust" THEN "sync" ELSE "done")
  /\ result' = IF Caller = "rust" THEN result ELSE out
  /\ failed' = {}
  /\ UNCHANGED <<inputs, ran, out, outOwner, config, before, final>>

Reply ==
  /\ Leave("resync", IF Caller = "rust" THEN "sync" ELSE "done")
  /\ failed = {}
  /\ result' = IF Caller = "rust" THEN result ELSE out
  /\ UNCHANGED <<inputs, ran, failed, out, outOwner, config, before, final>>

-----------------------------------------------------------------------------
(* The wrapper, after the call.                                            *)

(* Mutant: what the foreign side left is restored without validation.      *)
SyncUnvalidated ==
  /\ Caller = "rust"
  /\ Visit("sync")
  /\ slot' = [slot EXCEPT ![at] = IF at \in pending THEN wire[at] ELSE @]
  /\ pending' = pending \ {at}
  /\ Advance
  /\ UNCHANGED <<wire, live, owner, ran, failed, output, config, before, final>>

(* gen_store_sync_stmts: every store is synced, also after one failed, and *)
(* whatever the callee answered.                                           *)
Sync ==
  /\ Caller = "rust"
  /\ Visit("sync")
  /\ IF at \in pending /\ wire[at] \notin Values
     THEN failed' = failed \cup {at} /\ UNCHANGED slot
     ELSE /\ slot' = [slot EXCEPT ![at] = IF at \in pending THEN wire[at] ELSE @]
          /\ UNCHANGED failed
  /\ pending' = pending \ {at}
  /\ Advance
  /\ UNCHANGED <<wire, live, owner, ran, output, config, before, final>>

(* gen_wrapper_sync_check: the output is not decoded, whatever it owns.    *)
SyncFails ==
  /\ Caller = "rust"
  /\ pc = "sync" /\ at = NArgs + 1
  /\ failed # {}
  /\ WrapperFails("soft_sync_error")
  /\ outOwner' = IF outOwner = "wire" THEN "leaked" ELSE outOwner
  /\ UNCHANGED <<slot, wire, live, owner, ran, failed, out, config, before, final>>

(* gen_return_decode_error: the output is not a value of its type.  Who    *)
(* frees what it owned is up to its decoder: that of a wide box or of a    *)
(* vector reclaims it, that of a Box of a stable type returns None and     *)
(* leaves it to nobody.                                                    *)
DecodeOutputFails ==
  /\ Caller = "rust"
  /\ pc = "sync" /\ at = NArgs + 1
  /\ failed = {}
  /\ out = "bad"
  /\ WrapperFails("trap_value")
  /\ outOwner' \in IF outOwner = "wire" THEN {"freed", "leaked"} ELSE {outOwner}
  /\ UNCHANGED <<slot, wire, live, owner, ran, failed, out, config, before, final>>

(* Mutant: the output is decoded whatever the stores answered.             *)
DecodeOutputUnchecked ==
  /\ Caller = "rust"
  /\ Leave("sync", "done")
  /\ out # "bad"
  /\ result' = out
  /\ outOwner' = IF outOwner = "wire" THEN "taken" ELSE outOwner
  /\ UNCHANGED <<inputs, ran, failed, out, config, before, final>>

DecodeOutput ==
  /\ Caller = "rust"
  /\ Leave("sync", "done")
  /\ failed = {}
  /\ out # "bad"
  /\ result' = out
  /\ outOwner' = IF outOwner = "wire" THEN "taken" ELSE outOwner
  /\ UNCHANGED <<inputs, ran, failed, out, config, before, final>>

Finished == pc \in {"done", "abort"} /\ UNCHANGED vars

Next ==
  \/ Convert \/ Converted \/ UnpackFails \/ Unpack \/ CallForeignFn
  \/ ForeignBody
  \/ UnknownTag \/ PackFails \/ Pack \/ PackedAll \/ Decode \/ BindFails \/ Body
  \/ Resync \/ ResyncFails \/ Reply
  \/ Sync \/ SyncFails \/ DecodeOutputFails \/ DecodeOutput
  \/ Finished

Spec == Init /\ [][Next]_vars

-----------------------------------------------------------------------------
TypeOK ==
  /\ config \in Configs
  /\ pc \in {"convert", "unpack", "pack", "decode", "resync", "sync", "done", "abort"}
  /\ at \in 1..(NArgs + 1)
  /\ slot \in [Args -> Values]
  /\ wire \in [Args -> Values \cup {Bad, Nothing}]
  /\ pending \in SUBSET Soft
  /\ live \in [Args -> Values \cup {Bad, Nothing}]
  /\ owner \in [Args -> {"caller", "wire", "callee", "freed", "leaked"}]
  /\ ran \in BOOLEAN
  /\ failed \in SUBSET Soft
  /\ out \in {"none", "ok", "bad", "trap_value", "soft_sync_error", "unknown_tag"}
  /\ outOwner \in {"none", "wire", "taken", "freed", "leaked"}
  /\ result \in Errors \cup {"pending", "ok", "bad", "abort"}
  /\ before \in [Args -> Values]
  /\ final \in [Args -> Values \cup {Bad, Nothing}]

(* A call whose callee never ran leaves the caller's variables as they     *)
(* were, with one exception: a value moved out of a soft argument is lost  *)
(* when a later #[unpack] fails and the store is dropped unsynced.         *)
UntouchedUnlessRan ==
  pc = "done" /\ ~ran =>
    /\ result \in Errors
    /\ \A i \in Soft :
         slot[i] = before[i] \/ (Kind[i] = "take" /\ Unpacked # {} /\ slot[i] = Default)

(* An owned argument is freed once, by the side that owns it when the call *)
(* ends; when a failing conversion leaks it, the callee did not run and    *)
(* the caller was told so.                                                 *)
OwnedSettled ==
  pc = "done" =>
    \A i \in Owned : owner[i] = "freed" \/ (owner[i] = "leaked" /\ ~ran /\ result \in Errors)

(* A call that answers "ok" hands over the output it owns, to a Rust       *)
(* caller as a decoded value and to a foreign one as a carrier, and a call *)
(* that reports a failure leaves the caller nothing to free.  The output   *)
(* is then leaked, which only two failures after the callee ran do: a      *)
(* synchronization, which both sides check after the output is encoded and *)
(* before it is decoded, and the rejection of the output itself, which     *)
(* frees it instead where the decoder of its type reclaims what it         *)
(* rejects.                                                                *)
OutputSettled ==
  pc = "done" =>
    /\ result = "ok" => outOwner = IF Caller = "rust" THEN "taken" ELSE "wire"
    /\ outOwner \in {"wire", "taken"} => result = "ok"
    /\ outOwner = "leaked" =>
         ran /\ result \in Errors /\ (failed # {} \/ out \in {"soft_sync_error", "bad"})
    /\ outOwner = "freed" => result \in Errors /\ out = "bad" /\ failed = {}

(* What the callee left for a soft argument, if valid, arrives in the      *)
(* carrier and in the caller's variable, whatever became of the others:    *)
(* neither side's pass over its stores stops at the first failure, and an  *)
(* error of the body still lets the wrapper sync.                          *)
ValuesArrive ==
  pc = "done" /\ ran =>
    \A i \in Soft : final[i] \in Values =>
      /\ Callee = "rust" => wire[i] = final[i]
      /\ Caller = "rust" => slot[i] = final[i]

(* `#![failure = "error"]` "returns an error value instead of panicking    *)
(* when the conversion layer encounters an invariant violation" (lib.rs).  *)
ErrorModeReturns == Mode = "error" => pc # "abort" /\ result # "panic"

(* The call implements CallSpec: a Rust caller sees its variables as they  *)
(* were when the call began until the call answers.  CallSpec says nothing *)
(* of a foreign caller.                                                    *)
CallerView == [i \in Soft |-> IF pc = "done" THEN slot[i] ELSE before[i]]
LeftView == IF ran /\ Caller = "rust" THEN [i \in Soft |-> final[i]] ELSE Nothing
ResultView == IF Caller = "rust" THEN result ELSE "pending"
C == INSTANCE CallSpec
       WITH arg <- CallerView, left <- LeftView, result <- ResultView, NotRun <- Nothing,
            Taken <- {i \in Args : Kind[i] = "take"}
ImplementsCallSpec == C!CSpec
=============================================================================
