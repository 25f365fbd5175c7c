----------------------------- MODULE MCFirewall -----------------------------
(* Instances of Firewall for TLC. *)
EXTENDS Firewall

CONSTANTS drop, plain, info   \* model values

\* drop is a privileged pattern, any other is an ordinary one.
MCNeeds == [p \in Pattern |-> IF p = drop THEN {info} ELSE {}]
=============================================================================
