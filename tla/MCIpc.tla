------------------------------- MODULE MCIpc -------------------------------
(* A small instance of module Ipc for TLC. *)
EXTENDS Ipc
=============================================================================
