----------------------------- MODULE MCAlertLog -----------------------------
(* AlertLog with keys that collide: proxies 1 and 3 share a character when  *)
(* it has two values, and a comma in a name of a database is not told from  *)
(* the one that ends it.                                                    *)
EXTENDS AlertLog

MCQuery ==
  {[proxy |-> 1, db |-> <<"a">>, pattern |-> <<"b", ",", "c">>],
   [proxy |-> 3, db |-> <<"a", ",", "b">>, pattern |-> <<"c">>],
   [proxy |-> 1, db |-> <<"d">>, pattern |-> <<"c">>]}
=============================================================================
