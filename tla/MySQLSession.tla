---------------------------- MODULE MySQLSession ----------------------------
(***************************************************************************)
(* A MySQL session through GreenSQL: how MySQLConnection cuts the two byte *)
(* streams into packets, which packets it shows to check_query, and how it *)
(* follows the database the session is in, so as to judge a query by the   *)
(* settings of that database.                                              *)
(*                                                                         *)
(* The client keeps to the protocol: it sends a command when it has the    *)
(* answer to the last one, or when the last one has no answer.  What the   *)
(* parsers release reaches the other end in order (see Relay).  A packet   *)
(* is its kind and its size; a read may end at any of the offsets Cuts     *)
(* into a packet, on either side of the sizes the code compares with.      *)
(***************************************************************************)
EXTENDS Packets

CONSTANTS
  Database,     \* names of databases
  Known,        \* those with settings of their own
  Command,      \* kinds of commands the client uses
  Verdicts,     \* answers check_query may give: a subset of BOOLEAN
  Cuts,         \* bound: where in a packet a read may end
  MaxCommands   \* bound: commands of the client

\* Kinds of commands: "query" stands for QUERY, "use" for a QUERY that changes
\* the database, "prepare" for the other commands that are judged (STMT_PREPARE,
\* FIELD_LIST, CREATE_DB, DROP_DB, PROCESS_INFO), "ping" for the answered
\* commands the proxy does not look into, "close" for those without an answer
\* (STMT_CLOSE, LONG_DATA).  A QUERY or STMT_PREPARE whose text begins with a
\* zero byte, and a FIELD_LIST, CREATE_DB or DROP_DB without a name, are passed
\* on unread: they count as "ping".
AllCommands == {"query", "use", "prepare", "initdb", "changeuser", "ping", "close"}

ASSUME MySQLSessionAssumption ==
  /\ Known \subseteq Database
  /\ Command \subseteq AllCommands
  /\ Verdicts \subseteq BOOLEAN /\ Verdicts # {}
  /\ Cuts \subseteq Nat \ {0} /\ MaxCommands \in Nat

VARIABLES
  conn,         \* the members of the MySQLConnection
  requests,     \* packets of the client that are not released yet, ...
  request_in,   \* ... and how many of their bytes are in request_in
  responses,    \* the same for packets of the server
  response_in,
  toServer,     \* packets on the way from the proxy to the server
  serverDb,     \* database the session is in, as the server sees it
  owed,         \* commands the client has sent, less the answers it has got
  commands,     \* number of commands so far
  framed,       \* both buffers begin with the header of a packet
  disturbed     \* history: what may have brought the proxy out of step

up == <<requests, request_in>>
down == <<responses, response_in>>
vars == <<conn, up, down, toServer, serverDb, owed, commands, framed, disturbed>>

NoDatabase == "none"
Name == Database \cup {NoDatabase}
Settings == Known \cup {"default_mysql", "empty_mysql"}
Connection ==
  [first_request : BOOLEAN, SecondPacket : BOOLEAN, StartResponse : BOOLEAN,
   mysql41 : BOOLEAN, lastCommandId : AllCommands \cup {"sleep"},
   db : Settings, db_new_name : Name]

\* Mutant: a database without settings of its own is not looked up as default.
dbmap_find_Unchecked(name) == name

dbmap_find(name) ==
  IF name \in Known THEN name
  ELSE IF name = NoDatabase THEN "empty_mysql" ELSE "default_mysql"

\* Sizes in bytes, header included.  Before protocol 4.1 a packet that ends a
\* result has 5 bytes.
Size(kind) ==
  CASE kind = "greeting" -> 50 [] kind = "login" -> 40
    [] kind = "eof" -> IF conn.mysql41 THEN 9 ELSE 5
    [] kind = "ok" -> 11 [] kind = "err" -> 20 [] kind = "ping" -> 5
    [] OTHER -> 9

Request(kind, name) == [kind |-> kind, name |-> name, size |-> Size(kind)]
Response(kind) == [kind |-> kind, size |-> Size(kind)]

\* The number of answers to commands, greeting included, in a sequence.
Answers(ps) ==
  Cardinality({i \in DOMAIN ps : ps[i].kind \in {"greeting", "ok", "err", "eof"}})

----------------------------------------------------------------------------
(* The connection is made, the server sends its greeting.                  *)

Init ==
  /\ conn \in [first_request : {TRUE}, SecondPacket : {FALSE}, StartResponse : {FALSE},
               mysql41 : BOOLEAN, lastCommandId : {"sleep"},
               db : {dbmap_find(NoDatabase)}, db_new_name : {NoDatabase}]
  /\ requests = <<>> /\ request_in = 0
  /\ responses = <<Response("greeting")>> /\ response_in = 0
  /\ toServer = <<>> /\ serverDb = NoDatabase
  /\ owed = 1 /\ commands = 0 /\ framed = TRUE /\ disturbed = {}

----------------------------------------------------------------------------
(* parseResponse.                                                          *)

\* Mutant: 9 bytes at the end of the buffer are taken for part of a packet.
Complete_HoldsEof(ps, full) ==
  Max({n \in 0..Len(ps) : Bytes(ps, n) <= full
                            /\ \A i \in 1..n - 1 : Bytes(ps, i) + 9 < full})

\* The number of complete packets the loop over response_in finds: it stops
\* where no more than 5 bytes are left.
Complete(ps, full) ==
  Max({n \in 0..Len(ps) : Bytes(ps, n) <= full
                            /\ \A i \in 1..n - 1 : Bytes(ps, i) + 5 < full})

\* ParseResponsePacket on each of the packets ps.
ParseResponsePackets(c, ps) ==
  [c EXCEPT !.SecondPacket = @ /\ ps = <<>>,
            !.db = IF c.lastCommandId = "initdb" /\ \E i \in DOMAIN ps : ps[i].kind # "err"
                   THEN dbmap_find(c.db_new_name) ELSE @]

\* The connection after parseResponse, and the bytes it releases.
parseResponse(c, ps, full) ==
  LET parsed == [c EXCEPT !.StartResponse = FALSE]
      n == Complete(ps, full)
      looks == \/ c.StartResponse /\ ps[1].kind = "err"
               \/ c.lastCommandId = "initdb" \/ c.first_request \/ c.SecondPacket
  IN  IF full < 5 THEN [conn |-> c, bytes |-> 0]
      ELSE IF ~looks THEN [conn |-> parsed, bytes |-> Bytes(ps, n)]
      ELSE IF full < 7
      THEN [conn |-> parsed, bytes |-> IF c.first_request \/ c.SecondPacket THEN full ELSE 0]
      ELSE [conn |-> ParseResponsePackets(parsed, SubSeq(ps, 1, n)), bytes |-> Bytes(ps, n)]

\* ProxyValidateServerResponse: what is released goes to the client.  Unless it
\* ends with a packet, the parser goes on inside of one: the model ends there.
ProxyValidateServerResponse(c, ps, full) ==
  \E r \in {parseResponse(c, ps, full)} :
    \E n \in {Whole(ps, r.bytes)} :
      /\ conn' = r.conn
      /\ responses' = From(ps, n)
      /\ response_in' = full - r.bytes
      /\ owed' = owed - Answers(SubSeq(ps, 1, n))
      /\ framed' = (Bytes(ps, n) = r.bytes)

Backend_cb ==
  /\ framed
  /\ \E full \in ReadTo(responses, response_in, Cuts) :
       ProxyValidateServerResponse(conn, responses, full)
  /\ disturbed' = IF framed' THEN disturbed ELSE disturbed \cup {"cut"}
  /\ UNCHANGED <<up, toServer, serverDb, commands>>

----------------------------------------------------------------------------
(* parseRequest.                                                           *)

\* ParseRequestPacket on the login: the database is the session's from now on,
\* whatever the server will say.  Without one an old client takes an early
\* return.  (So does a login that is cut short, which no client sends: it leaves
\* first_request set.)
ParseLogin(c, p) ==
  [c EXCEPT !.first_request = FALSE, !.db = dbmap_find(p.name),
            !.SecondPacket = c.mysql41 \/ p.name # NoDatabase]

\* Mutants: STMT_PREPARE is not judged; the database is changed as soon as the
\* client asks for it.
Judged_NotPrepare == {"query", "use"}
ParseCommand_SwitchesAtOnce(c, p) ==
  [c EXCEPT !.lastCommandId = p.kind,
            !.db = IF p.kind = "initdb" THEN dbmap_find(p.name) ELSE @]

Judged == {"query", "use", "prepare"}

\* ParseRequestPacket on a command.  In a CHANGE_USER it looks for the database
\* in the wrong place and finds none.
ParseCommand(c, p) ==
  [c EXCEPT !.lastCommandId = p.kind,
            !.StartResponse = @ \/ p.kind \in Judged,
            !.db_new_name = CASE p.kind = "initdb" -> p.name
                              [] p.kind = "changeuser" -> NoDatabase
                              [] OTHER -> @]

ParseRequestPacket(p) ==
  IF conn.first_request THEN ParseLogin(conn, p) ELSE ParseCommand(conn, p)

\* How often the loop of parseRequest parses the first packet, of z bytes, when
\* request_in holds full bytes: start advances, but data stays at the first
\* packet, whose size is taken for the size of the next one.
LoopEnds(n, z, full) == n * z = full \/ n * z + 7 > full \/ (n + 1) * z > full
Repeats(z, full) == Min({n \in 1..full : LoopEnds(n, z, full)})

\* What the server gets of the released packets: the first one was judged n
\* times, by the settings of the time, the others were not.
Forwarded(released, n, allowed) ==
  [i \in DOMAIN released |->
     [kind |-> released[i].kind, name |-> released[i].name,
      settings |-> conn.db, allowed |-> allowed,
      judged |-> IF i = 1 /\ released[i].kind \in Judged THEN n ELSE 0]]

\* Nothing to tell the client, or n answers of blockResponse: they go to the
\* client, or into response_in behind the response that is being received.
Answer(c, n) ==
  IF n = 0 \/ response_in = 0
  THEN conn' = c /\ owed' = owed - n /\ UNCHANGED <<down, framed>>
  ELSE LET i == Whole(responses, response_in) IN
       IF AtPacket(responses, response_in)
       THEN ProxyValidateServerResponse(c,
              SubSeq(responses, 1, i) \o [j \in 1..n |-> Response("ok")] \o From(responses, i),
              response_in + n * Size("ok"))
       ELSE conn' = c /\ framed' = FALSE /\ UNCHANGED <<down, owed>>

Proxy_cb_Waits(full) ==
  /\ full < 3 \/ requests[1].size > full
  /\ request_in' = full
  /\ UNCHANGED <<conn, requests, down, toServer, owed, framed, disturbed>>

Proxy_cb_Parses(full) ==
  LET p == requests[1]
      n == Repeats(p.size, full)
      start == n * p.size
      whole == Whole(requests, start)
  IN  /\ full >= 3 /\ p.size <= full
      /\ requests' = From(requests, whole) /\ request_in' = full - start
      /\ \E allowed \in IF p.kind \in Judged THEN Verdicts ELSE {TRUE} :
           /\ toServer' = toServer \o Forwarded(SubSeq(requests, 1, whole), n, allowed)
           /\ IF AtPacket(requests, start)
              THEN Answer(ParseRequestPacket(p), IF allowed THEN 0 ELSE n)
              ELSE framed' = FALSE /\ UNCHANGED <<conn, down, owed>>
           /\ disturbed' = disturbed
                \cup (IF full > p.size THEN {"coalesced"} ELSE {})
                \cup (IF allowed THEN {} ELSE {"blocked"})
                \cup (IF framed' THEN {} ELSE {"cut"})
                \cup ({p.kind} \cap {"use", "changeuser"})

Proxy_cb ==
  /\ framed
  /\ \E full \in ReadTo(requests, request_in, Cuts) : Proxy_cb_Waits(full) \/ Proxy_cb_Parses(full)
  /\ UNCHANGED <<serverDb, commands>>

----------------------------------------------------------------------------
(* The two ends.                                                           *)

Sends(p, answers) ==
  /\ requests' = Append(requests, p)
  /\ owed' = owed + answers /\ commands' = commands + 1
  /\ UNCHANGED <<conn, request_in, down, toServer, serverDb, framed, disturbed>>

ClientLogsIn ==
  /\ commands = 0 /\ owed <= 0
  /\ \E name \in Name : Sends(Request("login", name), 1)

ClientSends ==
  /\ framed /\ commands \in 1..MaxCommands /\ owed <= 0
  /\ \E kind \in Command, name \in Name :
       /\ kind \in {"use", "initdb"} => name # NoDatabase
       /\ kind \in {"use", "initdb", "changeuser"} \/ name = NoDatabase
       /\ Sends(Request(kind, name), IF kind = "close" THEN 0 ELSE 1)

ServerReplies(kinds, database) ==
  /\ responses' = responses \o [i \in DOMAIN kinds |-> Response(kinds[i])]
  /\ serverDb' = database
  /\ toServer' = Tail(toServer)
  /\ UNCHANGED <<conn, up, response_in, owed, commands, framed, disturbed>>

\* The server takes the next packet.  Where it refuses a login or a change of
\* the user it closes the connection, and there is nothing to say.
ServerAnswers ==
  /\ framed /\ toServer # <<>>
  /\ LET p == Head(toServer) IN
     \/ p.kind \in {"login", "changeuser", "use", "initdb"} /\ ServerReplies(<<"ok">>, p.name)
     \/ p.kind \in {"query", "prepare", "ping"} /\ ServerReplies(<<"ok">>, serverDb)
     \/ p.kind \in {"query", "prepare", "use", "initdb", "ping"} /\ ServerReplies(<<"err">>, serverDb)
     \/ p.kind = "query" /\ ServerReplies(<<"row", "eof">>, serverDb)
     \/ p.kind = "close" /\ ServerReplies(<<>>, serverDb)

Next == Proxy_cb \/ Backend_cb \/ ClientLogsIn \/ ClientSends \/ ServerAnswers

Spec == Init /\ [][Next]_vars

----------------------------------------------------------------------------
(* Properties.                                                             *)

\* The type of every variable.
TypeOK ==
  /\ conn \in Connection
  /\ requests \in Seq([kind : AllCommands \cup {"login"}, name : Name, size : Nat])
  /\ responses \in Seq([kind : {"greeting", "ok", "err", "row", "eof"}, size : Nat])
  /\ request_in \in 0..Bytes(requests, Len(requests)) \/ ~framed
  /\ response_in \in 0..Bytes(responses, Len(responses)) \/ ~framed
  /\ toServer \in Seq([kind : AllCommands \cup {"login"}, name : Name, settings : Settings,
                       allowed : BOOLEAN, judged : Nat])
  /\ serverDb \in Name /\ owed \in Int /\ commands \in 0..MaxCommands + 1
  /\ framed \in BOOLEAN
  /\ disturbed \subseteq {"cut", "coalesced", "blocked", "use", "changeuser"}

\* However its bytes arrive, a command that is to be judged reaches the server
\* judged, and once, as long as no read brings more than one packet.  (What is
\* passed on unread, like a query whose first byte is zero, is no such command.)
EveryQueryJudged ==
  "coalesced" \notin disturbed =>
    \A i \in DOMAIN toServer : toServer[i].kind \in {"query", "use", "prepare"}
                                 => toServer[i].judged = 1

\* A query is judged by the settings of the database the server runs it in,
\* also when the server refuses a change of the database or answers in parts.
\* What may break this: see disturbed.
JudgedBySettings ==
  disturbed = {} /\ toServer # <<>> /\ Head(toServer).kind \in Judged
    => Head(toServer).settings = dbmap_find(serverDb)

Fairness == WF_vars(Proxy_cb) /\ WF_vars(Backend_cb) /\ WF_vars(ServerAnswers)
FairSpec == Spec /\ Fairness

\* The client of protocol 4.1 gets an answer to each of its commands, however
\* the streams are cut, unless several packets came in one read, or a read ended
\* in the header of the greeting or of the answer to the login, or an answer of
\* the proxy was put inside of an answer of the server.
Answered ==
  owed > 0 /\ conn.mysql41 ~> owed <= 0 \/ disturbed \cap {"coalesced", "cut"} # {}

----------------------------------------------------------------------------
(* What a comment says, and the code does not do.                          *)

\* "bad query - block it", "do not send it to backend server": a query that is
\* not allowed does not reach the server.
BlockedNotForwarded == \A i \in DOMAIN toServer : toServer[i].allowed
=============================================================================
