------------------------------- MODULE Macros -------------------------------
(***************************************************************************)
(* The two macros a crate is built with, one expansion at a time: derive   *)
(* (ReprC) of an item, or ffi! of a declaration.                           *)
(***************************************************************************)
EXTENDS Derive, Declaration

DeriveIdle == /\ stage = "idle" /\ item = <<>> /\ tokens = <<>> /\ kind = <<>>
              /\ errors = FALSE /\ plan = <<>> /\ niche = 0

DeclIdle == /\ phase = "idle" /\ decl = <<>> /\ refused = FALSE /\ groups = <<>>
            /\ inputs = <<>> /\ symbol = {} /\ bindings = {}

vars == <<deriveVars, declVars>>

Init == (DeriveInit /\ DeclIdle) \/ (DeclInit /\ DeriveIdle)

Next == (DeriveNext /\ UNCHANGED declVars) \/ (DeclNext /\ UNCHANGED deriveVars)

(* The compiler runs an expansion until it returns. *)
Spec == Init /\ [][Next]_vars /\ WF_vars(Next)

(* MacrosEnd: an expansion comes to an end, refused or compiled.  No arm      *)
(* taken for unreachable is reached; the niche is found although nothing but  *)
(* the exhaustion test bounds its loop; and substituting selections, which    *)
(* may name parameters selected in turn, comes to a type that has none left.  *)
MacrosEnd == <>(stage \in {"rejected", "compiled"} \/ phase \in {"rejected", "expanded"})
=============================================================================
