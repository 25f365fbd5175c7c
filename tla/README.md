# TLA+ models of GreenSQL

GreenSQL is a database firewall: it listens where a MySQL or PostgreSQL server
would, forwards the traffic of each client to the real server, parses both
streams, and judges every query by the settings of its database.  It is one
process with one thread: libevent calls one callback at a time, and everything
hard about it comes from the order of those callbacks, from streams that are
cut anywhere, from a configuration database that other programs edit, and from
statements on that database that fail.

This directory holds TLA+ modules translated from `src/src`, configurations for
TLC, and proofs for TLAPS.  All paths below are relative to `src/src` unless
they say otherwise.

## Inventory

| Component | State it keeps | Operations | Hard about it | What makes it correct |
|---|---|---|---|---|
| Relay of a connection (`greensql.cpp` 411-702, `buffer.cpp`, `connection.cpp` 32-53) | four buffers, two read and two write events, `first_response` | `Proxy_cb`, `Backend_cb`, the two write callbacks, `CloseConnection` | partial writes, EAGAIN, resets in the middle, answers of the proxy among those of the server | nothing lost, repeated or reordered; a write event exactly while there is something to write; no event after the object is deleted; both ends close |
| Proxy map and event loop (`proxymap.cpp`, `greensql.cpp` 44-393 and 666-683, `main.cpp`) | the map `proxies`, the lists of connections, the sockets, `bRunning` | `proxymap_init`, `proxymap_reload`, `ProxyReInit`, accept, close, stop | edits of the table between two statements, bind() that fails, removal of a proxy in use, stop at any time | the map follows the table; connections survive reloads; a stop closes all |
| Firewall decision and settings (`connection.cpp` 55-179, `dbmap.cpp`, `dbpermobj.cpp`) | the map `dbs`, its whitelists, `Connection::db` | `check_query`, `dbmap_find`, `dbmap_reload`, `LoadWhitelist`, `AddToWhitelist` | settings and whitelists as old as the last reload, learning that writes what a reload reads, modes that expire | each mode blocks what it names; what was learned is allowed; learning ends |
| MySQL session (`mysql/mysql_con.cpp`) | `first_request`, `SecondPacket`, `StartResponse`, `lastCommandId`, `db`, `db_new_name` | `parseRequest`, `parseResponse`, `blockResponse` | packets that are cut or coalesced, late and refused answers, the database a session is in | each query judged once, by the settings of its database; the client gets its answers |
| PostgreSQL session (`pgsql/pgsql_con.cpp`) | `first_request`, `SecondPacket`, `db` | the same | SSL request, startup parameters, pipelined messages | the same |
| Alerts (`alert.cpp`) | the cache `agroupmap` | `logalert`, `logwhitelist`, `agroupmap_reload` | six statements without a transaction, a cache that may be stale, errors that look like "no group", keys that collide | one group per proxy, database and pattern; every alert under its subject |
| Query normalization (`normalization.cpp`) | none | `normalizeQuery` | passes that rewrite one string in place; quotes, comments, numbers, signs | equal patterns for queries that differ in constants and spaces; the same literals as the scanner |
| SQL parser and risk (`parser/`, `connection.cpp` 181-251) | the objects `Expression::expressions`, the flags of `query_risk` | `query_parse`, `calculateRisk` | objects that are merged pairwise and deleted; a parser that gives up | the flags of a condition are those of its operands as a whole; the risk adds up the flags |
| Patterns (`patterns.cpp`) | compiled regular expressions | `Load`, `Match` | sections of the file | a command matches the section it is listed in |
| Configuration and log files (`config.cpp`, `log.cpp`, `misc.cpp`) | settings, file handle | load, write | - | - |
| Database drivers (`sql_api.cpp`, `lib/`) | handle of the client library | query, fetch, exec | reconnects | - |
| Old risk engine (`riskengine.cpp`) | - | - | dead code | - |
| Packaging (`build.sh`, `debian/`, `scripts/`) | - | - | - | - |

How they interact: the event loop (`main.cpp`) calls `proxymap_reload`,
`dbmap_reload` and `agroupmap_reload` every five seconds and the callbacks of
the sockets between them.  Accepting a client makes a `MySQLConnection` or a
`PgSQLConnection`, which belongs to the list `v_conn` of its proxy.  Its read
callbacks put bytes into `request_in` and `response_in` and call the parsers
through the virtual functions of `Connection`; what the parsers release goes to
`request_out` and `response_out`, which the write callbacks empty.  The request
parser calls `check_query`, which reads the settings `db`, may write to the
whitelist and to the log of alerts, and may have the proxy answer the client
itself.

## Modules

| Module | Models |
|---|---|
| `Pipe` | abstract specification: one direction of a connection, a lossless first-in first-out pipe |
| `Relay` | relay of one connection; implements `Pipe` twice |
| `ProxyMap` | proxy map, table `proxy`, event loop |
| `Firewall` | decision, settings, tables `db_perm` and `query` |
| `Packets` | streams as sequences of packets, for the two modules below |
| `MySQLSession` | MySQL parsers and the database of the session |
| `PgSQLSession` | PostgreSQL parsers, startup message, batches |
| `AlertStore` | abstract specification: what the log of alerts promises |
| `AlertLog` | alert groups, their cache, the tables `alert` and `alert_group`; implements `AlertStore` |
| `Normalization` | the passes of `normalizeQuery`, and the scanner's reading of literals, as operators on texts |
| `QueryAnalysis` | `check_query` up to the decision: normalization, the parser's objects and flags, the risk |
| `RelayProofs`, `ProxyMapProofs`, `FirewallProofs`, `MySQLSessionProofs`, `PgSQLSessionProofs`, `AlertLogProofs`, `QueryAnalysisProofs` | theorems about the module of that name and their proofs |
| `PacketsProofs` | lemmas about the operators of `Packets`, for the proofs of the two sessions; `QueryAnalysisProofs` takes its first one |
| `MC...` | instances for TLC |

The pieces fit together at the following interfaces.  `Relay` takes a parser to
be *any* function that releases a prefix of its input, answers the client, and,
for PostgreSQL, discards its input or refuses; so what it shows of the buffers
holds whatever the sessions do.  The sessions in turn take from `Relay` that what a parser
releases arrives, in order, and take the verdict of `check_query` as an input.
`Firewall` takes the results of normalization, patterns and risk as inputs:
`QueryAnalysis` shows what the first and the last of them are.  A call of
`logalert` or `logwhitelist` in `check_query` is one call of `AlertLog`.

### Relay

`request_in`, `request_out`, `response_in`, `response_out` are the four
`Buffer`s, `proxyWriter` and `backendWriter` say whether `enable_event_writer`
has added the write event on the client's and the server's socket, `client` and
`backend` are what recv() and send() show of the peers, `open` whether the
`Connection` object exists.  `protocol` is the class of the object that `wrap_Server` makes, chosen once from
the constant `Protocols`.  A byte is a number, its place in its sender's
stream; 0 is an answer of the proxy.  `reqLog` and `respLog` record what is due
to each peer and `backendGot` and `clientGot` what its socket has taken.

Each callback is one action: `Proxy_cb` is `Proxy_cb_Read`, `Proxy_cb_Closed`
and `Proxy_cb_Write`; `Backend_cb` likewise.  A read action contains the
parser, the answer to the client, the append to the output buffer, the send,
and the close when one of them fails.  A send takes any number of bytes, none
for EAGAIN, and fails when the peer has reset the connection.

Two quirks of the code are in the model.  The result of `Proxy_write_cb` is ignored
when the proxy's own answer is written (`greensql.cpp:551`), which is why
`WriterArmed` exempts a client that has reset.  `Backend_write_cb` forgives a
failed send until `first_response` is cleared, which only the PostgreSQL parser
does.

### ProxyMap

`table` is the table `proxy`, edited by the `Admin...` actions at any time;
`proxies`, `conns` and the field `listening` are the objects, the lengths of
their `v_conn`, and their sockets.  A reload takes one step per row, because
each row is followed by an UPDATE of its status: `Select`, then `ReloadRow`
(a new, a changed or an unchanged proxy), then the clean-up loop `SweepStep`.
`seen` is the map `new_proxies`, into which the loop itself enters the keys it
looks for; the loop is skipped or left when the two maps have the same size.
`proxies.erase(itr)` followed by `itr++` is undefined: the loop goes on or the
process is at `pc = "crashed"`.  An UPDATE of a status may fail, which the code
notices in one place only; the history variable `missed` says that one has
failed since the last SELECT.  `Killer` clears `bRunning`; `proxymap_close`
(from the timer) and `EventWhenStopping` close the sockets.

### Firewall

`perm` and `query` are the tables `db_perm` and `query` (with numbers of rows
per pattern, so that a duplicate can be seen), `dbs` the map of `DBPermObj`s,
`conn` the pointer of each connection.  `dbmap_reload` is `EndLearning` (the
two updates), `SelectRows`, `LoadRow` per row (`Init` and `LoadWhitelist`),
`SelectDefaults`, `LoadRow` again, `ReloadDone`; each may fail
(`ReloadFails`), `LoadWhitelist` without ending the reload.  A row of `db_perm`
that is removed leaves its object in `dbs`, with its last settings, until the
program ends: the code has no step that takes it out.  `check_query` is one action up to the INSERT of
`AddToWhitelist`, which is `InsertRow`: the SELECT before it is in `check_query`.
A pattern stands for the queries with one normal form; `Needs` says which kinds
of privileged command it matches, and the risk of a query is free, because it
is computed from the query and not from the pattern.  Time is the age of
`status_changed` in three classes.

### MySQLSession and PgSQLSession

A stream is a sequence of packets, each with its kind and size, and a number of
bytes of it that have been read.  A read may end at any of the offsets `Cuts`
into a packet; the parsers are translated as arithmetic on those bytes.
`conn` holds the members of the connection object.  The client keeps to the
protocol; the server answers, refuses, or answers in several packets, and what
it thinks the session's database is, `serverDb`, is kept apart from the proxy's
`conn.db`.

In `MySQLSession`, `Repeats` is the loop of `parseRequest` (`mysql_con.cpp`
107-120): `start` advances, but the data pointer stays at the first packet.
`Complete` is the loop over `response_in`, and `parseResponse` the rules for the first
bytes.  In `PgSQLSession`, `DatabaseFrom` is the loop over the startup
parameters with `pg_parse_protocol_params`, byte for byte in the lengths it
skips, and `DatabaseOf` is what the server takes from the same parameters, the
last database that is named; a message for which the two may differ is not
`Plain`.  `Proxy_cb_DeclinesSSL` is the test for 8 bytes.  `Judged` holds the
tests for 16 bytes, which are taken for a cancel request, and for the first byte
of the length (`HighByte`): a PARSE of 16 MB or more leaves the switch before
`check_query` and is passed on unread (`pgsql/pgsql_con.cpp:442`).  Startup
messages have at least 13 bytes; the code refuses shorter ones
(`pgsql/pgsql_con.cpp:257-261`), and refused logins are in `Relay`.

In `MySQLSession`, "ping" stands for every command that is answered and not
judged.  Among these are a QUERY or a PREPARE whose text begins with a zero byte
(`mysql/mysql_con.cpp:371-374`, 519-522) and a FIELD_LIST, CREATE_DB or DROP_DB
of no more than 5 bytes (line 395).  `ParseLogin` leaves out the returns at lines
235-236 and 266-267, for logins too short for their own fields, which a client
that keeps to the protocol does not send: the code would take the next packet
for the login.

Where the code would go on reading in the middle of a packet, the model sets
`framed` to FALSE and ends.  The history variable `disturbed` names what led
there, and what else takes the proxy out of step with the session:

| | in | what happens |
|---|---|---|
| `coalesced` | MySQL | one read brought more than one packet; the loop parses the first again and forwards the others unseen |
| `cut` | MySQL | a parser stopped inside a packet: 5 or 6 bytes of the greeting or of the answer to the login arrived alone |
| `blocked` | MySQL | a blocked query was answered by the proxy and forwarded as well, so the client gets one answer too many |
| `use`, `changeuser` | MySQL | the database was changed by a statement the proxy does not follow |
| `parameters` | PostgreSQL | a startup message without database, with an empty one or with two, or with a further parameter whose name or value begins with u, d or o |
| `eight` | PostgreSQL | 8 bytes were in the buffer, taken for an SSL request and dropped |
| `inside` | PostgreSQL | an answer of the proxy was put inside an answer of the server |

The properties of the sessions hold while none of the causes they name has
occurred.  The causes are behaviour of the code as it is, listed as hazards;
except for blocked queries (the finding `mysql_blocked`) nothing in the
repository says the proxy does otherwise.

### AlertLog

`groups` and `alerts` are the tables, `agroupmap` the cache, `agroupid` the
local variable of the call in progress and `pc` its next statement: the look
into the cache is in `Log`, then come `agroup_get`, the INSERT of `agroup_add`,
its second SELECT (`agroup_add_Reselect`), `alert_add` and `agroup_update`,
each of which may fail.  Between any two of them the administrator may clear a
group (`AdminClears`) or the program may be restarted (`Restart`);
`agroupmap_reload` runs from the timer between calls.  `Key` is the key the code
builds: one character for the number of the proxy, and the name of the database
and the pattern joined by commas, so that different queries can share one; the
SELECT of `agroup_get` compares the columns and tells them apart.

`AlertStore` is the promise: an alert whose call returns is filed under its
subject, which is its key, unless a statement failed or the administrator has
cleared that subject since the cache was refreshed.  A stop of the program is a step
of its own and counted (`crashes`), so that a call that returns cannot pass for one
that was cut off.  `AlertsAreFiled` maps the tables to it; `failed`, `stale` and
`stops` are history variables for it.

The statements are those for MySQL.  For PostgreSQL `alert_add`
(`alert.cpp:342-346`) passes one argument less than its format names: the
columns from `userip` on are shifted and the last is undefined.

### Normalization and QueryAnalysis

A text is a sequence of symbols, one for each character a pass looks at and one
for a word.  Each pass is a recursive function, of the position where the loop of the code
is, or of the rest of the text where a pass reads what it has written; the loops
look back by one character at most.  The search for the end of a comment (`CommentStop`, `ShortenComment`) is
kept as it is: it stops at any `*` and before any `/`, and when that is not the end
of the comment it deletes four characters more than it passed over and leaves
the rest.

`Scanned` is the scanner's reading of a text: literals and names in backticks
(`get_q_string`), bit strings (`Bits`), comments of its three kinds
(`AfterLine`, `BlockEnd`) and runs of operators (`RunEnd`), which compete with
the `--` of a comment for the longest match.  A quote inside a comment or a name
is no literal there.  Words and numbers need no rule: no symbol of theirs begins
another token.

A query of `QueryAnalysis` is a derivation in the grammar of `sql.ypp`: a
SELECT with a list of conditions joined by `or`, each of one of the kinds
"alone" (one expression), "compare", "chain" (three compared in a row),
"between" and "in", each expression a sum of operands.  A style says how it is
written, and `Text` is its text.  The reductions of an LALR parser come in the order in
which the operands stand, so the model goes through the derivation from left to right:
`clause`, `exp` and `operand` say which clause it reads (0 is the list behind
`select`), which expression of it, and how many of its operands are read.  There is an action
for each rule that runs code: `field` (an operand), `math_exp` (an expression, or one more
element of a list), `simple_table`, `logical_exp` (a condition).  `stack` holds the
objects of the parser's stack and `expressions` the static list of all that exist.  `check_query` is the sequence of
the five passes, the steps of the parser, `free_expressions` and
`calculateRisk`.  The parser gives up after a decimal number, which the scanner does
not know (`SyntaxError`).

The reference for the flags, `Expected`, knows no objects: it speaks of the sets of
operands of the expressions that are compared (`AlwaysTrue`, `EmptyPwd`).  In one place it
says what the code does with an order: an element of a list that begins with a number
keeps the type of the number (`parser/expression.hpp:115`), so a string behind it
is not counted, and `pwd in ('', 5+'x')` is taken for a comparison with an empty
password.

What the properties leave out, as the code does something else there:

- the comment `normalization.cpp:25` says that `X=?` is changed to `X = ?`; no
  pass does so, and queries with and without these spaces have two patterns;
- numbers after a letter, a dot or `#`, or at the start of a query, stay as they
  are (`normalization.cpp:211` names the characters that may precede one);
- a sign is dropped after `select`, `where`, `and`, `or`, `not`, a comma and an
  opening bracket, not after an operator: `a = -5` and `a = 5` have two patterns;
- block comments with a star or a slash inside leave text behind
  (`CanonicalPattern`);
- normalization reads literals before comments and knows no names in backticks,
  so a quote in a comment or in such a name begins a literal for it and not for
  the scanner; a backslash outside of a literal escapes a quote for normalization
  only; and `b'0''w'` is one literal for it, a bit string and a literal for the
  scanner.  These four are `Apart`, and `LiteralsAgree` is stated for the other
  texts;
- an empty text, for which `query.size()-1` wraps (`normalization.cpp:57` and
  105): the MySQL parser does not pass one on (`mysql/mysql_con.cpp:369`), the
  PostgreSQL parser may.

## Runs

| Run | Shows | Properties |
|---|---|---|
| `relay` | a connection of either protocol, three bytes of requests and two of responses: cut reads, partial writes, discarded input, refused logins, ends of either peer | `TypeOK`, `WriterArmed`, `NoEventAfterClose`, `StreamsInOrder`, `NothingLost`, `ClosedForCause`, `ReleasedIsSent`, `EndClosesBoth`, `RequestsArePipe`, `ResponsesArePipe` |
| `proxymap_reload` | two proxies that compete for two addresses, two edits at any time, updates that fail: no reload drops a connection or an unchanged listener, the map follows the table, removed proxies stop, a stop closes all | `TypeOK`, `ConnectionsOwned`, `ReloadApplied`, `GoodIsServed`, `ReloadKeepsConnections`, `UnchangedStaysServed`, `RemovedStopsListening`, `StopClosesAll` |
| `firewall_modes` | all eight modes, statements that fail | `TypeOK`, `ModeKept`, `LogTellsTheTruth`, `WhitelistKept` |
| `firewall_learning` | learning, its end, and what is learned | `LearnedIsAllowed`, `NoDuplicateRows`, `SettingsApplied`, `LearningEnds` |
| `mysql_session` | login and two commands of every kind, both protocol versions | `TypeOK`, `EveryQueryJudged`, `JudgedBySettings`, `Answered` |
| `pgsql_session` | six startup messages, two batches of simple and extended queries, messages of 12 and 16 bytes and of 20 MB | `TypeOK`, `EveryQueryJudged`, `JudgedBySettings`, `Answered` |
| `alert_log` | three calls about queries whose keys collide, statements that fail, reloads, a cleared group, a restart | `OneGroupPerQuery`, `LearnedGroups`, `AlertsAreFiled` |
| `query_analysis` | conditions of every kind in several writings; texts after an opening quote, texts of comments, names, operators and literals, bit strings | `CanonicalPattern`, `LiteralsAgree`, `RiskByReference` |
| `proxymap_disabled` | finding, see below | `DisabledStaysClosed` |
| `firewall_expiry_pgsql` | finding | `LearningEnds` |
| `firewall_perms` | finding | `PermsApplied` |
| `mysql_blocked` | finding | `BlockedNotForwarded` |

Deadlock checking is off where the system really stops: a closed connection, a
process that has ended, a session after its last command, a query that is
analysed, and the alert log at its bound of calls.

### Bounds, and why they are enough

- *Relay*: `ReqBound` and `RespBound`, three bytes of requests and two of
  responses: for three, one byte sent, one left in the output buffer, one
  waiting in the input buffer is the richest state of a direction; more bytes
  repeat it.  `MaxReplies` 1: several answers of the proxy in one callback only
  lengthen a buffer.  The proofs need none of these bounds.
- *ProxyMap*: two ids, because rows are handled in order and the clean-up loop
  compares two sizes; two addresses, so that a move may succeed, or fail on
  the other proxy or on another program; `MaxConns` 1, as only zero or not
  zero matters; `MaxEdits` 2, so that an edit can meet the reload of another.  The table starts with
  any rows an earlier run may have left.  `proxymap_disabled` needs one id, one
  edit and no update that fails.
- *Firewall*: one privileged and one ordinary pattern, one kind of permission,
  one connection, since callbacks of several connections do not overlap;
  the two system rows, or these and a database of its own in
  `firewall_learning`; two edits, so that one can disturb the effect of the
  other.  `AdminStatus` is the set of modes the administrator chooses from.
- *MySQLSession*: `Cuts` {2, 6, 8} lies on both sides of the sizes 3, 5 and 7
  the parsers compare with; two commands, so that a change of the database, or
  a late answer, is followed by a query.  The run was also done with
  `MaxCommands` 3 and `Cuts` {6}.
- *PgSQLSession*: `Cuts` {3, 8} lies below 5 and at the size of the SSL
  request; queries of 12, 16 and 20,000,000 bytes, so that each test of a size has
  both answers; two batches.  It was also run with
  `Cuts` {2, 4, 8} and queries of 8 bytes.

- *AlertLog*: three calls, so that a third can meet what two made of one key;
  three queries, two of which share a key by both ways of collision (proxies 1
  and 3 with two characters, `KeyWidth`; a comma in a name) and a third that
  shares none; one clearing, one restart.
- *QueryAnalysis*: every condition of one or two expressions over six operands (a field, a
  password field, a number, strings with and without characters, a function), an
  expression being one operand or one of ten sums of two, in both orders where the order could
  matter; lists of two such expressions behind `in`; every style for lists of two conditions,
  with and without `not`; all texts of at most `RawLength` 5 symbols after a quote, since a
  decision about a literal depends on at most the two symbols before and the one after;
  all texts of at most `RawPieces` 4 of the pieces that begin and end comments, names,
  literals and runs of operators, so that one of each can lie inside or behind another; and
  all texts of at most `RawLength` digits, quotes and spaces after a `b`.
  The proofs of `LiteralsAgree` and `RiskByReference` have none of these bounds.

### Fairness

- `Relay`: weak fairness of each write callback and of the read callback that
  finds a peer gone.  libevent reports a socket that stays ready, and a peer
  that stays connected goes on reading.  The write actions are fair with
  respect to their buffer and `open`, since a step in which send() takes
  nothing is no progress: a peer that never reads again is left to TCP.
- `ProxyMap`: the steps of a reload follow each other without waiting, and the
  timer comes every five seconds; nothing is assumed of the administrator,
  the clients or the signal.
- `Firewall`: the same for `dbmap_reload` and for the INSERT that follows the
  SELECT of `AddToWhitelist`.
- The sessions: bytes that were sent arrive, and the server answers what it
  gets.  The client is not fair: it may stop.
- `AlertLog` and `QueryAnalysis` have no liveness property: a call is a sequence of
  statements that each return.

## Findings

- `proxymap_disabled`: the comment `proxymap.cpp:259` says "3 - disabled", but
  closing the object of a disabled proxy sets its status to 0 (`greensql.cpp:669`),
  and the next reload opens it again.  The run shows a proxy that is served, disabled,
  closed by the clean-up loop (`proxymap.cpp:244`) with its row going from 3 to 0, and opened
  again by the next reload, with no further edit.  An edit that falls between a SELECT and the
  UPDATE of its row is overwritten too; `DisabledStaysClosed` leaves it out.
- `firewall_expiry_pgsql`: with the configuration in PostgreSQL the second
  update of `dbmap_reload` says `status = 11` (`dbmap.cpp:143`) where the one
  for MySQL says 12: LEARNING_MODE_7DAYS never ends.
- `firewall_perms`: at the comment "reload settings" (`dbmap.cpp:179`) `Init`
  only sets permissions, so a permission that is withdrawn stays in force.
- `mysql_blocked`: the comment "do not send it to backend server"
  (`mysql/mysql_con.cpp:382`) stands beside code that clears a string which is
  not the one that is sent; the blocked query reaches the server.  The same comment
  stands, as unmet, at `mysql/mysql_con.cpp:411`, 441 and 532 and at
  `pgsql/pgsql_con.cpp:362` and 454.

Behaviour that contradicts no statement in the repository, and that the properties of the
sessions therefore step around, is in the table of `disturbed`.  Two more
belong here, for which the `EveryQueryJudged` of `PgSQLSession` is not stated
(`ToBeJudged`): `pgsql/pgsql_con.cpp:308` takes every message of 16 bytes for a
cancel request, and line 442 passes a PARSE of 16 MB or more on unread.

## Proofs

Every theorem holds for all values of the constants that satisfy the module's
assumption, which asks for the types of the constants and, for `PgSQLSession`,
that startup messages are lists of names and values that end with an empty name
and have at least 13 bytes, and that a query has its header and its last zero
byte and at most 1 GB, the most the server takes.  The bounds of TLC (`MaxEdits`, `MaxBatches`, `KeyWidth`, ...) are
arbitrary natural numbers there, so the proofs do not rest on the instances of
the runs.  TLC finds each inductive invariant true on the instance of
its module's run, but for `LogsInv` of `Relay`, which ranges over all sequences.

| Module | Theorem | States |
|---|---|---|
| `RelayProofs` | `Invariant`, `TypeCorrect`, `WritersArmed`, `NoLateEvent`, `NoByteLost` | `Inv`, and its parts `TypeOK`, `WriterArmed`, `NoEventAfterClose`, `NothingLost` |
| | `StreamsStayInOrder` | `StreamsInOrder` |
| | `ClosesForCause` | the action property `ClosedForCause` |
| | `RequestPipe`, `ResponsePipe` | each direction implements `Pipe` |
| `ProxyMapProofs` | `TypeCorrect`, `ConnectionsAreOwned`, `ReloadIsApplied`, `GoodServed` | `TypeOK`, `ConnectionsOwned`, `ReloadApplied`, `GoodIsServed` |
| | `ConnectionsKept`, `UnchangedKept` | the action properties `ReloadKeepsConnections`, `UnchangedStaysServed` |
| `FirewallProofs` | `TypeCorrect`, `ModesKept`, `LogIsTrue`, `LearnedOnce` | `TypeOK`, `ModeKept`, `LogTellsTheTruth`, `NoDuplicateRows` |
| | `WhitelistIsKept` | the action property `WhitelistKept` |
| | `LearnedAllowed`, `SettingsAreApplied` | `LearnedIsAllowed`, `SettingsApplied`, where no statement fails |
| | `ModeIsApplied` | that part of `SettingsApplied` that holds where statements fail |
| `MySQLSessionProofs` | `TypeCorrect`, `QueriesAreJudged`, `JudgedByTheRightSettings` | `TypeOK`, `EveryQueryJudged`, `JudgedBySettings` |
| | `CoalescesOnlyAfterOthers` | where every command is answered, two packets in one read never come first among what disturbs a session |
| `PgSQLSessionProofs` | `DatabaseFound` | the loop of the parser finds the database of every plain startup message |
| | `Invariant`, `TypeCorrect`, `QueriesAreJudged`, `JudgedByTheRightSettings` | `Inv`, and its parts `TypeOK`, `EveryQueryJudged`, `JudgedBySettings` |
| `AlertLogProofs` | `TypeCorrect`, `OneGroup`, `LearnedGroupsAreLearned` | `TypeOK`, `OneGroupPerQuery`, `LearnedGroups` |
| | `StoreImplemented` | `AlertLog` implements `AlertStore` (`AlertsAreFiled`) |
| `QueryAnalysisProofs` | `LiteralsAreAgreed`, `RiskIsByReference` | `LiteralsAgree`, `RiskByReference` |
| | `FoundIsReference` | a condition whose objects stand for its expressions sets the flags of the reference |

### Relay

`Inv == TypeOK /\ WriterArmed /\ NoEventAfterClose /\ NothingLost`.  It takes
the four together: `NothingLost` says that what was given, plus the output
buffer, plus the input buffer, is the log, and a step preserves it because what
a send takes and what it leaves make up the buffer (lemma `SentSplits`), what a
parser releases and what it leaves make up the input (`Parsed`), and
concatenation is associative (`Assoc`, `CatProperties`), all of which need the types;
`WriterArmed` is preserved by a failed send only because of what the code does
with the event then, and its exemption needs the state of the client;
`NoEventAfterClose` makes the write actions, whose guard is the event and not
`open`, actions of an open connection.  Each callback is cut into three facts:
the request side moved correctly, the response side did, the events follow
(`RequestMoved`, `ResponseMoved`, `EventsFollow`); `Combine` puts them
together, and there is one lemma per action.  Discarded input is the one case
where a log shrinks (`DueInOrder`).

For the refinement, `Inv` before and after a step gives that what a peer has got
is a prefix of the log, and the lemmas on the actions give that it grows and that
the log grows or is taken back: a `Transfer` of the pipe, or a stutter.
`StreamsInOrder` follows from an invariant of the logs, `LogsInv`: they hold
the bytes read in their order, with no gap unless the parser discards input, and
what a peer has got is a prefix of its log.

### ProxyMap

`ConnectionsOwned` needs that the clean-up loop only visits objects that are in
the map (`Typed`), and that a proxy with connections is moved or kept but not
deleted.  `ReloadApplied` and `GoodIsServed` are about the end of a reload;
`ReloadInv` says what holds in its middle, while no edit has disturbed it: the
rows still to be fetched are those of the table (`RowsCurrent`), each enabled
proxy has its settings and is entered in `seen`, or waits for its row
(`Applied`), and each row that is marked good has an object or waits
(`Served`, unless an update has failed).  That the clean-up loop, which enters keys
into `seen` and stops early, deletes none of them rests on `Applied` saying
that they are in `seen` already.

### Firewall

`ModeKept` and `LogTellsTheTruth` are about the last decision and are proved by
the cases of `check_query`, mode by mode; they need `ConnKnown`, that the pointer of
a connection leads to an object there is.

What is learned takes three facts about two tables and a map (`LearningInv`).
`PendingKnown`: when the row of `AddToWhitelist` is about to be inserted, no row
for it was learned before.  `RowsKept`: a pattern that was learned keeps a row,
allowing or not, and allows while it is not revoked.  `LearnedLoaded`: when an
object is in the mode that blocks new queries, its whitelist was loaded at least
as late as that mode, so it holds all that was learned.  The last one, and so
`LearnedIsAllowed`, has the hypothesis `~DbMayFail`: when the SELECT of a whitelist fails,
`LoadWhitelist` keeps the old list but `Init` has set the new mode, and what was learned
since the reload before is blocked.  That is how the code behaves.
`SettingsApplied` has the same hypothesis, for the patterns that were revoked;
`ModeIsApplied` states what is left without it.

The proof corrected a property.  `SettingsApplied` used to say that no pattern in a
whitelist is denied by the table.  That was true in the run only
because `MaxEdits` is 2: with three edits the administrator approves
a pattern and revokes it between the SELECT and the INSERT of `AddToWhitelist`
(`dbpermobj.cpp:94-139`), the learning inserts its row after all, and the table
holds a row that denies and one that allows.  What the next reload gives is that
the table allows every pattern of the whitelist, and that is what the property says now.

### AlertLog

`Key` is opaque in the proofs: they hold for every way two queries could share a key.
`OneGroupPerQuery` needs only that the SELECT before an INSERT has found no
group or has failed (`GroupInv`).  The refinement needs more: a number in the cache, or
in a call, leads to a group of its own key if it leads to one (`NumberInv`), and if it
leads to none, the key is stale (`FiledInv`), because numbers are not given twice
(`TypeOK` bounds them by `lastId`).  Each statement of a call then maps to a stutter or to the
step of `AlertStore` that files, fails or ends the call.

### Packets and the sessions

`Bytes`, `Whole` and `From` are sums and choices over the sizes of packets.
Induction is not available as a rule; the lemmas use the fact that a set of numbers that
holds 0 and with each number the next holds all of them (`Steps`), applied to
the set of the positions where the claim holds, and least and greatest elements of sets of
numbers.  From these come what the parsers need: releasing a whole number of
packets takes that many off the stream (`FromStream`), a buffer that is read further
stays within what was sent (`ReadWithin`), and appending leaves the front alone.

`MySQLSession`: `TypeOK` says that a buffer never holds more bytes than were sent;
that takes `LoginFirst`, which keeps the login and the commands apart.
`EveryQueryJudged` is inductive with the types: as long as no read brings more than one
packet, what `parseRequest` releases is the packet it has looked at.
`JudgedBySettings` is proved from
`Orderly == disturbed = {} => InTurn /\ InStep`: at most one command is under
way and it is in one place, with the proxy, before the server or answered
(`InTurn`); and the proxy knows it: `lastCommandId` and `db_new_name` are those
of the command the server will answer, and `conn.db` differs from the settings
of the server's database only while an `ok` that changes it is on its way
(`InStep`).  TLC checked `Orderly` with three commands.  `InTurn` is needed in
full: with a second command under way the answer to the first would change
`conn.db` after the second had been judged.

`CoalescesOnlyAfterOthers` makes the condition of these properties weaker for clients that
send no command without an answer (`"close" \notin Command`): `InTurn` leaves at most one
packet with the proxy (`OneAtATime`), so that a read which brings two of them comes only
after a query was blocked, a packet was cut in its header, or a command changed the
database unseen by the proxy.  A client that prepares statements and closes them can have
two packets in one read without any of that.

`PgSQLSession`: `DatabaseFound` shows of every plain startup message, whatever the number,
order and sizes of its parameters, that the loop which tells names by their first letters and
adds up lengths arrives at the value of "database".  The invariant
`Inv == Typed /\ LoginFirst /\ SettingsFound /\ EveryQueryJudged /\ JudgedBySettings`
then follows the settings from the login on: `SettingsFound` says that `conn.db` is that of
the database the server is in, or will be in when it takes the startup message on its way,
which `LoginFirst` shows to be alone on its way.

### Normalization and QueryAnalysis

The assumption asks of `Query` that each element is a derivation of the grammar and that its
text is a sequence of symbols, of the texts that they are not empty, of the weights that they
are numbers, and that the listed brute-force functions are functions.

The passes are recursive functions, and a recursive function has the equation of its
definition only when some function has it.  `Recursion` gives that: a
body that asks only for values at arguments of lower rank (`Descends`) has a
function, by `Steps` applied to the set of the ranks up to which there is one.  For the loops
over a text the rank is what is left of it (`NextPlace`, `Loop`), which yields the equations of
`lookForChar`, `get_q_string`, `removeQuotedText` and `Scanned`; that each token ends behind its
beginning (`TokenRange`) is what makes the last of them descend.  Then, by `Steps` over
what is left (`Backwards`), the two searches for the end of a literal end at the same place
(`SameEnd`).  The two readings do not go in step: a comment or a name is one token for the scanner
and symbol by symbol for normalization.  `Stretch` bridges that: where a token holds no quote and
no backslash (`Bare`), normalization copies it (`Copies`), and `LookOverBits` does the same for a
bit string, whose quotes normalization takes for those of a literal.  `RemovedIsScanned` puts them
together for every text that is not `Apart`: what the scanner passes over is part of `Scanned`, so
a quote or a backslash in it would be there to see (`QuoteOfConcat`).  `LiteralsInv` brings the latter
to the state in which the first pass is done.

For the flags, `DescribesList(x, list)` says what an object knows of the expressions that were
added up in it: their fields, whether there is a constant, the type of the first
operand, and whether Add came to a string with characters (`HasLong`).  A new
object describes its operand (`OneOperand`), Add keeps the description for one operand and one
element more (`NextOperand`, `NextExpression`), and for objects that describe two lists Comp
and IsEmptyPwd answer as the reference does for the sets of all their operands
(`CmpIsReference`); Comp compares cardinalities, so this takes that the sets are finite.
`RiskInv` is the invariant: the position is inside of the derivation
(`PositionInv`); the stack holds different objects that exist, so that changing
one changes no other (`StackInv`, lemmas `PushKeeps`, `ReplaceKeeps`, `MergeKeeps`,
`PopKeeps`); above what the select list and the table have left it holds one object per
expression read, and each describes its part of the clause (`ObjectsInv`); and the flags are those of the
conditions and operands already passed (`FlagsInv`).  There are two lemmas per action, for the
objects and for the flags.  When the parser has ended, no flag is missing if it is behind
the last condition (`AllExpected`), and it is short of it only at a decimal number
(`ErrorAtDecimal`); none is invented either way (`OnlyExpected`).

The proof corrected the reference.  `EmptyPwd` used to count every string of the list; the
lemma for Add fails for a string behind a number, and TLC, given the operand 5+'x',
found the query.  The reference now says what the code does.  The sum of the weights
(`TotalWeight`) is opaque in the proof.

### Only model-checked

- Liveness (`ReleasedIsSent`, `EndClosesBoth`, `RemovedStopsListening`,
  `StopClosesAll`, `LearningEnds`, `Answered`): fairness and ENABLED are beyond the
  prover.
- `CanonicalPattern`: what all five passes together make of a text that is itself put together
  from a derivation and a style.  The equations of the passes could be had as for the literals,
  but the passes work on what the one before has left, so that the proof
  needs a form of the text after each of them, for styles of any length.
- The four findings: a counterexample is one behaviour, which TLC finds.

## Plan

Done, in this order: `Relay` with `Pipe` and its proofs, since every byte goes
through it; `ProxyMap`; `Firewall`; `MySQLSession`; `PgSQLSession`; `AlertLog`
with `AlertStore`; `Normalization` and `QueryAnalysis`; then the proofs of every
safety property but `CanonicalPattern`.  Left:

1. `check_query` of `Firewall` under the sessions, so that the database of a
   session and the reload of its settings meet in one model.
2. `CanonicalPattern` pass by pass: the form of the text after each pass as an
   operator on derivations, and a lemma for each pass with `Backwards`.
3. More on what disturbs a session, as `CoalescesOnlyAfterOthers` does for MySQL: that no
   packet is `cut` where every read ends at a packet, and the same for `PgSQLSession`.

## Not modelled

- The LALR tables and the parts of the grammar named above for `QueryAnalysis`:
  CASE, CAST, nested SELECTs, UNION, several statements, functions with
  arguments.  Their actions are those already modelled, in other orders.
- Regular expressions of `patterns.cpp`: their match is the constant `Needs` of
  `Firewall`.  They are compiled once, at the start.
- `config.cpp`, `log.cpp` and `misc.cpp`: read once, or only written.
- The drivers: a statement is one step that may fail and then says so.  Some
  failures of theirs are answered as success without rows
  (`lib/sql_api.c:122-127`, 178-199); what the program makes of those is not
  modelled.
- `riskengine.cpp`, which nothing calls; packaging.
