------------------------------- MODULE MCArp -------------------------------
(* Small instances of module Arp for TLC. *)
EXTENDS Arp
=============================================================================
