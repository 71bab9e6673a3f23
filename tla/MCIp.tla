-------------------------------- MODULE MCIp --------------------------------
(* Values for the model checking of module Ip. *)
EXTENDS Ip

MCMessages == {<< >>, << 2 >>, << 1, 2, 3 >>, << 3, 3 >>}
MCPayloads == {<< >>, << 3 >>, << 2, 1 >>}
=============================================================================
