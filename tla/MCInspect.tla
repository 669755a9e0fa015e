----------------------------- MODULE MCInspect -----------------------------
(* World and its inspection on the constants of MCWorld. *)
EXTENDS MCWorld, Inspect
=============================================================================
