----------------------------- MODULE MCJobSlots -----------------------------
(* JobSlots on its own: four requests compete for two slots. *)
EXTENDS JobSlots
=============================================================================
