----------------------------- MODULE MC_Batch -----------------------------
(* Instantiation of Batch for TLC. *)
EXTENDS Batch
=============================================================================
