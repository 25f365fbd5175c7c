--------------------------- MODULE MCPgSQLSession ---------------------------
(* Instances of PgSQLSession for TLC. *)
EXTENDS PgSQLSession

S(text, letter, size) == [text |-> text, letter |-> letter, size |-> size]
User == <<S("user", "u", 5), S("dora", "d", 5)>>
Db1 == <<S("database", "d", 9), S("d1", "d", 3)>>
Db2 == <<S("database", "d", 9), S("other", "o", 6)>>
Options == <<S("options", "o", 8), S("-d", "-", 3)>>
Program == <<S("application_name", "a", 17), S("psql", "p", 5)>>
Django == <<S("application_name", "a", 17), S("django", "d", 7)>>
Encoding == <<S("client_encoding", "c", 16), S("utf8", "u", 5)>>
End == <<S("", "", 1)>>

MCStartups ==
  {User \o Db1 \o End, Program \o Db1 \o User \o End, User \o Db2 \o Options \o Program \o End,
   Options \o Db1 \o End, User \o End, User \o Db1 \o Django \o Encoding \o End}

MCBatches == {<<"query">>, <<"parse", "bind", "sync">>}
=============================================================================
