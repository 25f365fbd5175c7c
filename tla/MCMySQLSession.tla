--------------------------- MODULE MCMySQLSession ---------------------------
(* Instances of MySQLSession for TLC. *)
EXTENDS MySQLSession
=============================================================================
