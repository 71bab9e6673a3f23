---------------------------- MODULE MCSocketLife ----------------------------
(* A small instance of module SocketLife for TLC. *)
EXTENDS SocketLife
=============================================================================
