---------------------------- MODULE PgSQLSession ----------------------------
(***************************************************************************)
(* A PostgreSQL session through GreenSQL: how PgSQLConnection cuts the two *)
(* byte streams into messages, finds the database in the startup message,  *)
(* and which messages it shows to check_query, by which settings.          *)
(*                                                                         *)
(* The client keeps to the protocol: it may ask for SSL, logs in, and then *)
(* sends a batch of messages whenever the answer to the last one is        *)
(* complete (ReadyForQuery).  The messages of a batch may share a read, or *)
(* need several: a read may end at any of the offsets Cuts into a message. *)
(* What the parsers release reaches the other end in order (see Relay).    *)
(***************************************************************************)
EXTENDS Packets

CONSTANTS
  Known,        \* names of databases with settings of their own
  Startups,     \* parameters of startup messages the client may send
  Batches,      \* sequences of kinds of messages the client may send
  QuerySizes,   \* sizes of messages with a query
  Verdicts,     \* answers check_query may give: a subset of BOOLEAN
  Cuts,         \* bound: where in a message a read may end
  MaxBatches    \* bound: batches of the client

\* Kinds of messages: "bind" stands for all those the proxy does not look into
\* (BIND, DESCRIBE, EXECUTE, CLOSE, FLUSH, FUNC_CALL, COPY_DATA and so on).
Kind == {"ssl", "startup", "password", "query", "parse", "bind", "sync"}

\* The parameters of a startup message are strings, names and values in turn,
\* as records of the text, its first letter, and the size with the zero byte at
\* the end.  The message ends with an empty string.
Option == [u |-> "user", d |-> "database", o |-> "options"]
Length == [u |-> 4, d |-> 8, o |-> 7]
Parameter ==
  {p \in [text : STRING, letter : STRING, size : Nat \ {0}] :
     /\ p.text = "" => p.letter = ""
     /\ p.text = "" <=> p.size = 1
     /\ \A c \in DOMAIN Option : p.text = Option[c] => p.letter = c /\ p.size = Length[c] + 1}

MB == 1024 * 1024

ASSUME PgSQLSessionAssumption ==
  /\ Startups # {} /\ Startups \subseteq Seq(Parameter)
  /\ \A ps \in Startups : /\ Len(ps) % 2 = 1 /\ ps[Len(ps)].text = ""
                         /\ 8 + Bytes(ps, Len(ps)) >= 13  \* shorter ones are refused
  /\ QuerySizes \subseteq 6..1024 * MB  \* the server takes no longer ones
  /\ Batches \subseteq Seq({"query", "parse", "bind", "sync"})
  /\ Verdicts \subseteq BOOLEAN /\ Verdicts # {}
  /\ Cuts \subseteq Nat \ {0} /\ MaxBatches \in Nat

VARIABLES
  conn,         \* the members of the PgSQLConnection
  requests,     \* messages of the client that are not released yet, ...
  request_in,   \* ... and how many of their bytes are in request_in
  responses,    \* the same for messages of the server
  response_in,
  toServer,     \* messages on the way from the proxy to the server
  serverDb,     \* database the session is in, as the server sees it
  turn,         \* what the client does next
  batches,      \* number of batches so far
  framed,       \* both buffers begin with the header of a message
  disturbed     \* history: what may have brought the proxy out of step

up == <<requests, request_in>>
down == <<responses, response_in>>
vars == <<conn, up, down, toServer, serverDb, turn, batches, framed, disturbed>>

NoDatabase == ""
Settings == Known \cup {"default_pgsql"}

\* Mutant: a database without settings of its own is not looked up as default.
dbmap_find_Unchecked(name) == name

dbmap_find(name) == IF name \in Known THEN name ELSE "default_pgsql"

\* Sizes in bytes, header included.
Size(kind) ==
  CASE kind = "ssl" -> 8 [] kind = "startup" -> 40 [] kind = "password" -> 40
    [] kind = "sync" -> 5 [] kind = "auth" -> 13 [] kind = "authok" -> 9
    [] kind = "complete" -> 5 [] kind = "ready" -> 6
    [] OTHER -> 20

Request(kind, size, parameters) == [kind |-> kind, size |-> size, parameters |-> parameters]
Response(kind) == [kind |-> kind, size |-> Size(kind)]

----------------------------------------------------------------------------
(* The startup message.                                                    *)

Named(ps, name) == {i \in DOMAIN ps : i % 2 = 1 /\ ps[i].text = name}

\* The database the server takes from it: the last that is named.
DatabaseOf(ps) ==
  IF Named(ps, "database") = {} THEN NoDatabase ELSE ps[Max(Named(ps, "database")) + 1].text

\* The proxy tells the names of parameters by their first letters.  A message
\* is plain if it names one database, and no other parameter has a name or a
\* value that begins with one of those letters.
Plain(ps) ==
  /\ \E i \in DOMAIN ps : Named(ps, "database") = {i} /\ ps[i + 1].size > 1
  /\ \A i \in DOMAIN ps :
       i % 2 = 1 /\ ps[i].text \notin {"user", "database", "options"} /\ i < Len(ps)
         => {ps[i].letter, ps[i + 1].letter} \cap DOMAIN Length = {}

\* Mutant: the zero byte behind the name of a parameter is not skipped.
ValueAt_KeepsZero(ps, i) == Bytes(ps, i - 1) + Length[ps[i].letter]

\* pg_parse_protocol_params: where the value of the parameter i begins, if its
\* name is the one that begins with its letter.
ValueAt(ps, i) == Bytes(ps, i - 1) + Length[ps[i].letter] + 1

\* What there is of a string from the offset b on.
StringAt(ps, b) ==
  LET i == Whole(ps, b) + 1
  IN  CASE b = Bytes(ps, i) - 1 -> NoDatabase
        [] b = Bytes(ps, i - 1) -> ps[i].text
        [] OTHER -> "part of a string"

\* The database parse_request takes from the string i and those behind it: the
\* last it finds.  A string that begins with none of the letters is skipped,
\* with any other the string where its value is taken to be is skipped too.
DatabaseFrom(ps) ==
  LET end == Len(ps) + 1
      named(i) == ps[i].letter \in DOMAIN Length
      inside(i) == ValueAt(ps, i) < Bytes(ps, Len(ps))
      next(i) == IF ~named(i) THEN i + 1
                 ELSE IF inside(i) THEN Whole(ps, ValueAt(ps, i)) + 2 ELSE end
      found(i) == IF ps[i].letter = "d" /\ inside(i) THEN StringAt(ps, ValueAt(ps, i)) ELSE NoDatabase
      from[i \in 1..end] ==
        IF i = end THEN NoDatabase
        ELSE LET later == from[next(i)] IN IF later # NoDatabase THEN later ELSE found(i)
  IN  from[1]

----------------------------------------------------------------------------
(* The connection is made.  In this protocol the client begins.            *)

Init ==
  /\ conn = [first_request |-> TRUE, SecondPacket |-> FALSE, db |-> "default_pgsql"]
  /\ requests = <<>> /\ request_in = 0
  /\ responses = <<>> /\ response_in = 0
  /\ toServer = <<>> /\ serverDb = NoDatabase
  /\ turn = "start" /\ batches = 0 /\ framed = TRUE /\ disturbed = {}

----------------------------------------------------------------------------
(* parseResponse.                                                          *)

\* parse_response goes through, and forgets the password: it fails when the
\* buffer ends with part of a message that is more than its first four bytes.
parse_response(ps, full) == full >= 3 /\ full - Bytes(ps, Whole(ps, full)) <= 4

\* The connection after parseResponse, and the bytes it releases: the complete
\* messages, but none if parse_response has to look at them and fails.
parseResponse(c, ps, full) ==
  LET bytes == Bytes(ps, Whole(ps, full))
      looks == c.SecondPacket \/ ps[1].kind \in {"auth", "authok", "error"}
  IN  IF ~looks THEN [conn |-> c, bytes |-> bytes]
      ELSE IF ~parse_response(ps, full) THEN [conn |-> c, bytes |-> 0]
      ELSE [conn |-> [c EXCEPT !.SecondPacket = FALSE], bytes |-> bytes]

\* What the client does when it gets messages of these kinds.
TurnAfter(kinds) ==
  IF {"ready", "empty"} \cap kinds # {} THEN "command"
  ELSE IF "auth" \in kinds THEN "password" ELSE turn

Backend_cb ==
  /\ framed
  /\ \E full \in ReadTo(responses, response_in, Cuts) :
       \E r \in {parseResponse(conn, responses, full)} :
         LET n == Whole(responses, r.bytes) IN
         /\ conn' = r.conn
         /\ responses' = From(responses, n)
         /\ response_in' = full - r.bytes
         /\ turn' = TurnAfter({responses[i].kind : i \in 1..n})
  /\ UNCHANGED <<up, toServer, serverDb, batches, framed, disturbed>>

----------------------------------------------------------------------------
(* parseRequest.                                                           *)

\* Mutants: a message is parsed only when there is more behind it; the loop
\* parses the first message again (as that of MySQLConnection does).
Complete_NeedsMore(full) == Whole(requests, full - 1)
Parsed_First(n) == [i \in 1..n |-> IF i = 1 THEN n ELSE 0]

\* The number of messages the loop over request_in finds.
Complete(full) == Whole(requests, full)

\* How often it parses each of them.
Parsed(n) == [i \in 1..n |-> 1]

\* The first byte of the length of a message, which does not count its type.
HighByte(p) == (p.size - 1) \div (16 * MB)

\* A message of 16 bytes is taken for a cancel request, and a PARSE is passed on
\* unread if its length does not begin with a zero byte.
Judged(p) ==
  /\ p.size # 16
  /\ \/ p.kind = "query"
     \/ p.kind = "parse" /\ HighByte(p) = 0

\* What the server gets of the first n messages, and which check_query allowed.
Forwarded(n, allowed) ==
  [i \in 1..n |->
     [kind |-> requests[i].kind, size |-> requests[i].size,
      parameters |-> requests[i].parameters, settings |-> conn.db, allowed |-> allowed[i],
      judged |-> IF Judged(requests[i]) THEN Parsed(n)[i] ELSE 0]]

Proxy_cb_Waits(full) ==
  /\ full < 5 \/ (full # 8 /\ requests[1].size > full)
  /\ request_in' = full
  /\ UNCHANGED <<conn, requests, down, toServer, turn, framed, disturbed>>

\* Eight bytes are taken for a request to use SSL: the proxy declines it, and
\* drops them.  If they are anything else the session goes on inside of a
\* message: the model ends there.
Proxy_cb_DeclinesSSL ==
  /\ requests' = From(requests, Whole(requests, 8)) /\ request_in' = 0
  /\ IF requests[1].kind = "ssl"
     THEN turn' = "login" /\ UNCHANGED <<framed, disturbed>>
     ELSE framed' = FALSE /\ disturbed' = disturbed \cup {"eight"} /\ UNCHANGED turn
  /\ UNCHANGED <<conn, down, toServer>>

\* The startup message.  Nothing can be behind it.
Proxy_cb_LogsIn(full) ==
  /\ full # 8 /\ conn.first_request /\ requests[1].size <= full
  /\ conn' = [conn EXCEPT !.first_request = FALSE,
                          !.db = dbmap_find(DatabaseFrom(requests[1].parameters))]
  /\ requests' = <<>> /\ request_in' = 0
  /\ toServer' = Forwarded(1, <<TRUE>>)
  /\ disturbed' = IF Plain(requests[1].parameters) THEN {} ELSE {"parameters"}
  /\ UNCHANGED <<down, turn, framed>>

\* The messages of a batch.  The answer to one that is not allowed is for the
\* client, who takes it for the end of the batch.  When part of a response is
\* in response_in, which never ends with a message, the answer gets in there.
Proxy_cb_Parses(full) ==
  LET n == Complete(full) IN
  /\ full >= 5 /\ full # 8 /\ ~conn.first_request /\ requests[1].size <= full
  /\ requests' = From(requests, n)
  /\ request_in' = full - Bytes(requests, n)
  /\ conn' = [conn EXCEPT !.SecondPacket = @ \/ \E i \in 1..n : requests[i].kind = "password"]
  /\ \E allowed \in [1..n -> Verdicts \cup {TRUE}] :
       /\ \A i \in 1..n : Judged(requests[i]) \/ allowed[i]
       /\ toServer' = toServer \o Forwarded(n, allowed)
       /\ IF \A i \in 1..n : allowed[i]
          THEN UNCHANGED <<turn, framed, disturbed>>
          ELSE /\ turn' = IF response_in = 0 THEN TurnAfter({"empty"}) ELSE turn
               /\ framed' = (response_in = 0)
               /\ disturbed' = disturbed \cup IF framed' THEN {} ELSE {"inside"}
  /\ UNCHANGED down

Proxy_cb ==
  /\ framed
  /\ \E full \in ReadTo(requests, request_in, Cuts) :
       \/ Proxy_cb_Waits(full)
       \/ full = 8 /\ Proxy_cb_DeclinesSSL
       \/ Proxy_cb_LogsIn(full)
       \/ Proxy_cb_Parses(full)
  /\ UNCHANGED <<serverDb, batches>>

----------------------------------------------------------------------------
(* The two ends.                                                           *)

Sends(ps) ==
  /\ requests' = requests \o ps /\ turn' = "wait"
  /\ UNCHANGED <<conn, request_in, down, toServer, serverDb, framed, disturbed>>

ClientLogsIn ==
  /\ \/ turn = "start" /\ Sends(<<Request("ssl", Size("ssl"), <<>>)>>)
     \/ turn \in {"start", "login"} /\ \E ps \in Startups :
          Sends(<<Request("startup", 8 + Bytes(ps, Len(ps)), ps)>>)
     \/ turn = "password" /\ Sends(<<Request("password", Size("password"), <<>>)>>)
  /\ UNCHANGED batches

ClientSends ==
  /\ framed /\ turn = "command" /\ batches < MaxBatches
  /\ \E batch \in Batches, z \in QuerySizes :
       Sends([i \in DOMAIN batch |->
                Request(batch[i], IF batch[i] \in {"query", "parse"} THEN z ELSE Size(batch[i]), <<>>)])
  /\ batches' = batches + 1

ServerReplies(kinds) ==
  /\ responses' = responses \o [i \in DOMAIN kinds |-> Response(kinds[i])]
  /\ toServer' = Tail(toServer)
  /\ serverDb' = IF Head(toServer).kind = "startup" THEN DatabaseOf(Head(toServer).parameters)
                 ELSE serverDb
  /\ UNCHANGED <<conn, up, response_in, turn, batches, framed, disturbed>>

\* The server takes the next message.  Where it refuses a login it closes the
\* connection, and there is nothing to say.
ServerAnswers ==
  /\ framed /\ toServer # <<>>
  /\ LET kind == Head(toServer).kind IN
     \/ kind = "startup" /\ ServerReplies(<<"auth">>)
     \/ kind \in {"startup", "password"} /\ ServerReplies(<<"authok", "status", "ready">>)
     \/ kind = "query" /\ ServerReplies(<<"complete", "ready">>)
     \/ kind = "query" /\ ServerReplies(<<"error", "ready">>)
     \/ kind \in {"parse", "bind"} /\ ServerReplies(<<"complete">>)
     \/ kind \in {"parse", "bind"} /\ ServerReplies(<<"error">>)
     \/ kind = "sync" /\ ServerReplies(<<"ready">>)

Next == Proxy_cb \/ Backend_cb \/ ClientLogsIn \/ ClientSends \/ ServerAnswers

Spec == Init /\ [][Next]_vars

----------------------------------------------------------------------------
(* Properties.                                                             *)

\* The type of every variable.
TypeOK ==
  /\ conn \in [first_request : BOOLEAN, SecondPacket : BOOLEAN, db : Settings]
  /\ requests \in Seq([kind : Kind, size : Nat, parameters : Seq(Parameter)])
  /\ responses \in Seq([kind : {"auth", "authok", "status", "complete", "ready", "error"}, size : Nat])
  /\ request_in \in 0..Bytes(requests, Len(requests))
  /\ response_in \in 0..Bytes(responses, Len(responses))
  /\ toServer \in Seq([kind : Kind, size : Nat, parameters : Seq(Parameter),
                       settings : Settings, allowed : BOOLEAN, judged : Nat])
  /\ serverDb \in STRING \cup {NoDatabase}
  /\ turn \in {"start", "login", "password", "command", "wait"}
  /\ batches \in 0..MaxBatches /\ framed \in BOOLEAN
  /\ disturbed \subseteq {"parameters", "eight", "inside"}

\* The messages the proxy undertakes to judge: a QUERY of any size and a PARSE of
\* up to 16 MB, except those of 16 bytes.
ToBeJudged(p) ==
  /\ p.size # 16
  /\ \/ p.kind = "query"
     \/ p.kind = "parse" /\ p.size <= 16 * MB

\* However its bytes arrive, alone or with others of its batch, such a message
\* reaches the server judged, and once.
EveryQueryJudged == \A i \in DOMAIN toServer : ToBeJudged(toServer[i]) => toServer[i].judged = 1

\* A query is judged by the settings of the database the server runs it in,
\* whatever the order of the parameters of the startup message, if it is plain.
JudgedBySettings ==
  "parameters" \notin disturbed =>
    \A i \in DOMAIN toServer :
      toServer[i].judged > 0 => toServer[i].settings = dbmap_find(serverDb)

Fairness == WF_vars(Proxy_cb) /\ WF_vars(Backend_cb) /\ WF_vars(ServerAnswers)
FairSpec == Spec /\ Fairness

\* The client gets an answer to whatever it has sent, however the streams are
\* cut, unless 8 bytes of a batch came alone, or an answer of the proxy was put
\* inside of an answer of the server.
Answered == turn = "wait" ~> turn # "wait" \/ disturbed \cap {"eight", "inside"} # {}
=============================================================================
