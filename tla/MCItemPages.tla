----------------------------- MODULE MCItemPages -----------------------------
(* Instances of ItemPages for TLC. *)
EXTENDS ItemPages, TLC
=============================================================================
