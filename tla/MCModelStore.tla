---------------------------- MODULE MCModelStore ----------------------------
(* Two builders. *)
EXTENDS ModelStore

CONSTANTS b1, b2
=============================================================================
