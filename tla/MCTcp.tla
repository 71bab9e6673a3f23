------------------------------- MODULE MCTcp -------------------------------
(* Small instances of module Tcp for TLC. *)
EXTENDS TcpStreams
=============================================================================
