----------------------------- MODULE DecodeStore -----------------------------
(***************************************************************************)
(* What the stores of src/src/sync.rs that lend Rust code a `&mut` to      *)
(* foreign memory have in common, the sized one and the one of a slice:    *)
(* a converted value Rust code changes, the stores of its fields, and the  *)
(* foreign place it will be encoded over.                                  *)
(***************************************************************************)
CONSTANTS
  Values,    \* the valid values of what is decoded
  Bad        \* what fails validation

VARIABLES
  mem,       \* foreign memory
  value,     \* the value lent to Rust code
  fields,    \* "clean", "armed", or "broken" when their sync() will fail
  held,      \* the place the foreign side leaves alone for the store
  answer     \* what the last call returned
=============================================================================
