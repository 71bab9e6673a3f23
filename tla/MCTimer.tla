------------------------------ MODULE MCTimer ------------------------------
(* Small instances of module Timer for TLC. *)
EXTENDS Timer
=============================================================================
