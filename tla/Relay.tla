------------------------------- MODULE Relay -------------------------------
(***************************************************************************)
(* One proxied connection of GreenSQL: the four buffers of a Connection,   *)
(* the two read events and the two write events libevent holds for it, and *)
(* the callbacks of greensql.cpp that move bytes between the client and    *)
(* the database server.  libevent calls one callback at a time and a       *)
(* callback runs to its end, so a callback is one action.                  *)
(*                                                                         *)
(* The protocol parsers are abstracted to what the relay can tell of them: *)
(* how many bytes they release, whether they answer the client themselves, *)
(* whether they refuse to go on.  The bytes the client sends are numbered  *)
(* 1, 2, 3, ..., and so are those of the server; 0 is an answer of the     *)
(* proxy (Reply), whatever its length.                                     *)
(***************************************************************************)
EXTENDS Integers, Sequences

CONSTANTS
  Protocols,    \* values of GreenSQL::DBType: "mysql", "pgsql"
  ReqBound,     \* bound: bytes the client sends in all
  RespBound,    \* bound: bytes the server sends in all
  MaxReplies    \* bound: answers of the proxy to one piece of input

ASSUME RelayAssumption ==
  /\ Protocols \subseteq {"mysql", "pgsql"}
  /\ ReqBound \in Nat /\ RespBound \in Nat /\ MaxReplies \in Nat

VARIABLES
  protocol,        \* which Connection class serves it
  open,            \* the Connection object exists and its sockets are open
  first_response,  \* Connection::first_response
  request_in, request_out, response_in, response_out,
  proxyWriter,     \* proxy_event_writer is inserted: EV_WRITE on the client
  backendWriter,   \* backend_event_writer is inserted: EV_WRITE on the server
  client, backend, \* state of the peers: "up", "eof" or "reset"
  reqRead, respRead,     \* number of bytes read from each peer
  backendGot, clientGot, \* history: bytes each peer's socket has taken
  reqLog, respLog  \* history: bytes due to each peer, in the order they came

buffers == <<request_in, request_out, response_in, response_out>>
writers == <<proxyWriter, backendWriter>>
peers == <<client, backend>>
requestSide == <<request_in, request_out, reqRead, backendGot, reqLog>>
responseSide == <<response_in, response_out, respRead, clientGot, respLog>>
vars == <<protocol, open, first_response, writers, peers, requestSide, responseSide>>

Peer == {"up", "eof", "reset"}
Reply == 0
Byte == Nat

\* The k bytes that follow the first n bytes of a peer's stream.
Chunk(n, k) == [i \in 1..k |-> n + i]

Replies(r) == [i \in 1..r |-> Reply]

Drop(s, n) == SubSeq(s, n + 1, Len(s))
Take(s, n) == SubSeq(s, 1, n)

----------------------------------------------------------------------------
(* wrap_Server makes the Connection its proxy is for; Server_cb: both       *)
(* sockets are connected, the two read events are added, the two write     *)
(* events are prepared but not added.                                      *)

Init ==
  /\ protocol \in Protocols
  /\ open = TRUE
  /\ first_response = TRUE
  /\ request_in = <<>> /\ request_out = <<>>
  /\ response_in = <<>> /\ response_out = <<>>
  /\ proxyWriter = FALSE /\ backendWriter = FALSE
  /\ client = "up" /\ backend = "up"
  /\ reqRead = 0 /\ respRead = 0
  /\ backendGot = <<>> /\ clientGot = <<>>
  /\ reqLog = <<>> /\ respLog = <<>>

----------------------------------------------------------------------------
(* Writing.  send() on a socket whose peer is not reset takes n >= 0 of    *)
(* the bytes (n = 0 is EAGAIN, which socket_write reports as success); on  *)
(* a reset one it fails.  Nothing is sent when the buffer is empty.        *)

\* Mutants: the write event is never enabled; the whole buffer is chopped
\* after a partial write; nothing is chopped.
Sent_NeverArms(out, n) ==
  [ok |-> TRUE, out |-> Drop(out, n), sent |-> Take(out, n), writer |-> FALSE]
Sent_ChopsAll(out, n) ==
  [ok |-> TRUE, out |-> <<>>, sent |-> Take(out, n), writer |-> FALSE]
Sent_ChopsNothing(out, n) ==
  [ok |-> TRUE, out |-> out, sent |-> Take(out, n), writer |-> n < Len(out)]

Sent(out, n) ==
  [ok |-> TRUE, out |-> Drop(out, n), sent |-> Take(out, n),
   writer |-> n < Len(out)]

\* Mutant: EAGAIN is reported as a failure.
Proxy_write_cb_EagainFails(out) ==
  IF out # <<>>
  THEN {[ok |-> FALSE, out |-> out, sent |-> <<>>, writer |-> proxyWriter]}
       \cup {Sent(out, n) : n \in 1..Len(out)}
  ELSE {Sent(out, 0)}

\* Results of Proxy_write_cb when response_out holds out.
Proxy_write_cb(out) ==
  IF client = "reset" /\ out # <<>>
  THEN {[ok |-> FALSE, out |-> out, sent |-> <<>>, writer |-> proxyWriter]}
  ELSE {Sent(out, n) : n \in 0..Len(out)}

\* Results of Backend_write_cb: a failed send is forgiven, and the write
\* event added, until the parser has seen a first response.
Backend_write_cb(out) ==
  IF backend = "reset" /\ out # <<>>
  THEN {[ok |-> first_response, out |-> out, sent |-> <<>>,
         writer |-> first_response \/ backendWriter]}
  ELSE {Sent(out, n) : n \in 0..Len(out)}

\* Mutant: the backend's write event is not deleted.
Events_KeepsBackend(ok, proxyEvent, backendEvent) ==
  /\ open' = ok
  /\ proxyWriter' = (ok /\ proxyEvent)
  /\ backendWriter' = backendEvent

\* Connection::close deletes both events of each socket.
Events(ok, proxyEvent, backendEvent) ==
  /\ open' = ok
  /\ proxyWriter' = (ok /\ proxyEvent)
  /\ backendWriter' = (ok /\ backendEvent)

CloseConnection == Events(FALSE, FALSE, FALSE)

----------------------------------------------------------------------------
(* Reading.  socket_read returns a positive number of bytes, here at most  *)
(* the room left under the bound; EAGAIN (size 0) changes nothing, the end *)
(* of the stream and errors are the ..._Closed actions.                    *)

\* Mutant: the -1 of a failed recv() is returned as the size.
ReadSizes_Error(room) == -1..room
ReadSizes(room) == 1..room

----------------------------------------------------------------------------
(* The server's side: parseResponse releases a prefix of response_in       *)
(* (possibly none of it, when it waits for the rest of a packet).          *)

\* Results of ProxyValidateServerResponse on the given buffers.
ProxyValidateServerResponse(in, out) ==
  {[ok |-> TRUE, in |-> in, out |-> out, sent |-> <<>>, writer |-> proxyWriter]}
  \cup UNION { {[ok |-> w.ok, in |-> Drop(in, m), out |-> w.out,
                 sent |-> w.sent, writer |-> w.writer] :
                   w \in Proxy_write_cb(out \o Take(in, m))} : m \in 1..Len(in) }

\* PgSQLConnection::parseResponse clears first_response, the MySQL one does not.
SeenResponse == first_response' = (first_response /\ protocol = "mysql")

Backend_cb_Read(k) ==
  /\ open /\ backend = "up"
  /\ k \in ReadSizes(RespBound - respRead)
  /\ respRead' = respRead + k
  /\ respLog' = respLog \o Chunk(respRead, k)
  /\ \E v \in ProxyValidateServerResponse(response_in \o Chunk(respRead, k), response_out) :
       /\ response_in' = v.in
       /\ response_out' = v.out
       /\ clientGot' = clientGot \o v.sent
       /\ Events(v.ok, v.writer, backendWriter)
  /\ SeenResponse
  /\ UNCHANGED <<protocol, requestSide, peers>>

\* Mutant: the end of the stream is taken for a read of no bytes.
Backend_cb_Closed_ResetOnly ==
  /\ open /\ backend = "reset"
  /\ CloseConnection
  /\ UNCHANGED <<protocol, first_response, peers, requestSide, responseSide>>

\* recv() returns 0 or an error that is not EAGAIN.
Backend_cb_Closed ==
  /\ open /\ backend # "up"
  /\ CloseConnection
  /\ UNCHANGED <<protocol, first_response, peers, requestSide, responseSide>>

Backend_cb_Write ==
  /\ backendWriter
  /\ \E w \in Backend_write_cb(request_out) :
       /\ request_out' = w.out
       /\ backendGot' = backendGot \o w.sent
       /\ Events(w.ok, proxyWriter, w.writer)
  /\ UNCHANGED <<protocol, first_response, peers, request_in, reqRead, reqLog, responseSide>>

----------------------------------------------------------------------------
(* The client's side.                                                      *)

\* What parseRequest may do with request_in = in: release a prefix of it,
\* with answers to some of the packets in that prefix; or, for PostgreSQL,
\* answer and discard all of it (the SSL request), or refuse the login.
ParseRequest(in) ==
  LET outcome(ok, n, request, r) ==
        [ok |-> ok, left |-> Drop(in, n), request |-> request, replies |-> r]
  IN  {outcome(TRUE, n, Take(in, n), 0) : n \in 0..Len(in)}
      \cup {outcome(TRUE, n, Take(in, n), r) : n \in 1..Len(in), r \in 1..MaxReplies}
      \cup IF protocol = "pgsql"
           THEN {outcome(TRUE, Len(in), <<>>, 1), outcome(FALSE, 0, <<>>, 0)}
           ELSE {}

\* A reply is queued behind the response that is being received, if any.
QueuedIn(r) == IF response_in # <<>> THEN response_in \o Replies(r) ELSE response_in
\* Mutant of QueuedOut: the reply also goes straight to response_out.
QueuedOut_Always(r) == response_out \o Replies(r)
QueuedOut(r) == IF response_in # <<>> THEN response_out ELSE response_out \o Replies(r)

\* The response side after r replies were queued: the response parser runs
\* when response_in is not empty; otherwise response_out is written, and the
\* result of that write is ignored.
AnswerClient(r) ==
  IF r = 0
  THEN {[ok |-> TRUE, in |-> response_in, out |-> response_out, sent |-> <<>>,
         writer |-> proxyWriter]}
  ELSE IF response_in # <<>>
  THEN ProxyValidateServerResponse(QueuedIn(r), QueuedOut(r))
  ELSE {[ok |-> TRUE, in |-> response_in, out |-> w.out, sent |-> w.sent,
         writer |-> w.writer] : w \in Proxy_write_cb(QueuedOut(r))}

\* request_out after the released bytes were appended and written.
Forward(request) ==
  IF request = <<>>
  THEN {[ok |-> TRUE, out |-> request_out, sent |-> <<>>, writer |-> backendWriter]}
  ELSE Backend_write_cb(request_out \o request)

Abandoned == [ok |-> FALSE, out |-> request_out, sent |-> <<>>, writer |-> FALSE]

\* The bytes discarded with an answer of the proxy are no longer due.
Due(in, p) ==
  IF p.ok /\ p.request = <<>> /\ p.left = <<>>
  THEN Take(reqLog, Len(reqLog) - Len(request_in))
  ELSE reqLog \o Drop(in, Len(request_in))

Proxy_cb_Read(k) ==
  /\ open /\ client = "up"
  /\ k \in ReadSizes(ReqBound - reqRead)
  /\ reqRead' = reqRead + k
  /\ LET in == request_in \o Chunk(reqRead, k) IN
     \E p \in ParseRequest(in) :
     \E a \in AnswerClient(p.replies) :
     \E f \in IF p.ok /\ a.ok THEN Forward(p.request) ELSE {Abandoned} :
       /\ request_in' = p.left
       /\ reqLog' = Due(in, p)
       /\ response_in' = a.in
       /\ response_out' = a.out
       /\ clientGot' = clientGot \o a.sent
       /\ respLog' = respLog \o Replies(p.replies)
       /\ request_out' = f.out
       /\ backendGot' = backendGot \o f.sent
       /\ Events(f.ok, a.writer, f.writer)
       /\ IF p.replies > 0 /\ response_in # <<>>
          THEN SeenResponse ELSE UNCHANGED first_response
  /\ UNCHANGED <<protocol, peers, respRead>>

Proxy_cb_Closed ==
  /\ open /\ client # "up"
  /\ CloseConnection
  /\ UNCHANGED <<protocol, first_response, peers, requestSide, responseSide>>

Proxy_cb_Write ==
  /\ proxyWriter
  /\ \E w \in Proxy_write_cb(response_out) :
       /\ response_out' = w.out
       /\ clientGot' = clientGot \o w.sent
       /\ Events(w.ok, w.writer, backendWriter)
  /\ UNCHANGED <<protocol, first_response, peers, response_in, respRead, respLog, requestSide>>

----------------------------------------------------------------------------
(* The peers.  A peer may end its stream ("eof": recv returns 0, send still *)
(* succeeds) or reset the connection ("reset": recv and send fail).        *)

ClientEnds ==
  /\ open
  /\ \/ client = "up" /\ client' \in {"eof", "reset"}
     \/ client = "eof" /\ client' = "reset"
  /\ UNCHANGED <<protocol, open, first_response, writers, backend, requestSide, responseSide>>

BackendEnds ==
  /\ open
  /\ \/ backend = "up" /\ backend' \in {"eof", "reset"}
     \/ backend = "eof" /\ backend' = "reset"
  /\ UNCHANGED <<protocol, open, first_response, writers, client, requestSide, responseSide>>

Next ==
  \/ \E k \in ReadSizes(ReqBound) : Proxy_cb_Read(k)
  \/ \E k \in ReadSizes(RespBound) : Backend_cb_Read(k)
  \/ Proxy_cb_Closed \/ Proxy_cb_Write
  \/ Backend_cb_Closed \/ Backend_cb_Write
  \/ ClientEnds \/ BackendEnds

Spec == Init /\ [][Next]_vars

----------------------------------------------------------------------------
(* Properties.                                                             *)

\* The type of every variable.
TypeOK ==
  /\ protocol \in Protocols
  /\ open \in BOOLEAN /\ first_response \in BOOLEAN
  /\ proxyWriter \in BOOLEAN /\ backendWriter \in BOOLEAN
  /\ client \in Peer /\ backend \in Peer
  /\ request_in \in Seq(Byte) /\ request_out \in Seq(Byte)
  /\ response_in \in Seq(Byte) /\ response_out \in Seq(Byte)
  /\ reqRead \in Nat /\ respRead \in Nat
  /\ backendGot \in Seq(Byte) /\ clientGot \in Seq(Byte)
  /\ reqLog \in Seq(Byte) /\ respLog \in Seq(Byte)

\* A write event is held exactly while there is something to write: bytes
\* are never left in an output buffer with nobody to send them, and the event
\* loop never spins on a writable socket with nothing to send.  The client's
\* event is exempt once the client has reset the connection, because
\* ProxyValidateClientRequest ignores a failed Proxy_write_cb.
WriterArmed ==
  open => /\ client # "reset" => (proxyWriter <=> response_out # <<>>)
          /\ proxyWriter => response_out # <<>>
          /\ backendWriter <=> request_out # <<>>

\* Connection::close deletes every event: no callback can run on the deleted
\* Connection object.
NoEventAfterClose == proxyWriter \/ backendWriter => open

\* The bytes of a peer come in the order they were sent, each once, whatever
\* answers of the proxy stand between them; no byte comes without the one before.
InOrder(s) == \A i, j \in DOMAIN s : i < j /\ s[j] # Reply => s[i] < s[j]
NoGap(s) == \A i \in DOMAIN s : s[i] > 1 => \E j \in DOMAIN s : s[j] = s[i] - 1
NoReply(s) == \A i \in DOMAIN s : s[i] # Reply

\* Each peer receives the other's byte stream from its first byte, in order and
\* without gap or repetition, however reads, parsing and partial writes are cut
\* up.  Only input that the proxy answers itself (PostgreSQL) is missing in the
\* one direction, and only the proxy's answers are added in the other.
StreamsInOrder ==
  /\ InOrder(backendGot) /\ NoReply(backendGot)
  /\ protocol = "mysql" => NoGap(backendGot)
  /\ InOrder(clientGot) /\ NoGap(clientGot)

\* While the connection is open every byte due to a peer is either in its
\* socket or in one of the two buffers on the way to it, in order.
NothingLost ==
  open => /\ backendGot \o request_out \o request_in = reqLog
          /\ clientGot \o response_out \o response_in = respLog

\* The proxy drops a connection only when a peer has ended, or when the
\* PostgreSQL parser refuses the login: a full socket buffer or a packet that
\* is not complete yet are no cause.
ClosedForCause ==
  [][open /\ ~open' /\ client = "up" /\ backend = "up"
       => protocol = "pgsql" /\ reqRead' > reqRead]_vars

Fairness ==
  /\ WF_<<response_out, open>>(Proxy_cb_Write)
  /\ WF_<<request_out, open>>(Backend_cb_Write)
  /\ WF_vars(Proxy_cb_Closed) /\ WF_vars(Backend_cb_Closed)

FairSpec == Spec /\ Fairness

\* Every byte the parsers have released is sent, or the connection closes.
ReleasedIsSent ==
  /\ \A n \in 1..ReqBound :
       Len(backendGot \o request_out) >= n ~> Len(backendGot) >= n \/ ~open
  /\ \A n \in 1..RespBound :
       Len(clientGot \o response_out) >= n ~> Len(clientGot) >= n \/ ~open

\* When one end is gone the connection is closed, so the other end learns.
EndClosesBoth == client # "up" \/ backend # "up" ~> ~open

\* Each direction is a Pipe.
Requests == INSTANCE Pipe WITH log <- reqLog, got <- backendGot
Responses == INSTANCE Pipe WITH log <- respLog, got <- clientGot

\* The two directions implement the abstract pipe.
RequestsArePipe == Requests!PipeSpec
ResponsesArePipe == Responses!PipeSpec
=============================================================================
