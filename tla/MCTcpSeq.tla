------------------------------ MODULE MCTcpSeq ------------------------------
(* Model checking of module TcpSeq. *)
EXTENDS TcpSeq
=============================================================================
