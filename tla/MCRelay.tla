------------------------------ MODULE MCRelay ------------------------------
(* Relay on small instances, for both protocols.                             *)
EXTENDS Relay
=============================================================================
