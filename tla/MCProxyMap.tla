----------------------------- MODULE MCProxyMap -----------------------------
(* Instances of ProxyMap for TLC. *)
EXTENDS ProxyMap
=============================================================================
