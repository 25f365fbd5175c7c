---------------------------- MODULE RelayProofs ----------------------------
(***************************************************************************)
(* Proofs about Relay, for every protocol and every value of its bounds.   *)
(***************************************************************************)
EXTENDS Relay, SequenceTheorems, TLAPS

\* Take and Drop cut a sequence in two.
LEMMA Cut ==
  ASSUME NEW s \in Seq(Byte), NEW n \in 0..Len(s)
  PROVE  /\ Take(s, n) \in Seq(Byte) /\ Len(Take(s, n)) = n
         /\ Drop(s, n) \in Seq(Byte) /\ Len(Drop(s, n)) = Len(s) - n
         /\ Take(s, n) \o Drop(s, n) = s
<1>1. Len(s) \in Nat /\ \A i \in 1..Len(s) : s[i] \in Byte
  BY LenProperties, ElementOfSeq
<1>2. Take(s, n) \in Seq(Byte) /\ Len(Take(s, n)) = n
  BY <1>1, SubSeqProperties DEF Take
<1>3. Drop(s, n) \in Seq(Byte) /\ Len(Drop(s, n)) = Len(s) - n
  BY <1>1, SubSeqProperties DEF Drop
<1>4. Take(s, n) \o Drop(s, n) = SubSeq(s, 1, Len(s))
  <2>1. 1 \in 1..Len(s) + 1 /\ n \in (1 - 1)..Len(s) /\ Len(s) \in n..Len(s)
    BY <1>1
  <2> QED BY <2>1, ConcatAdjacentSubSeq DEF Take, Drop
<1>5. SubSeq(s, 1, Len(s)) = s
  BY SubSeqFull
<1> QED BY <1>2, <1>3, <1>4, <1>5

\* Concatenation is associative.
LEMMA Assoc ==
  \A a, b, c \in Seq(Byte) : (a \o b) \o c = a \o (b \o c)
  BY ConcatAssociative

\* A send splits the buffer into what was taken and what is left.
LEMMA SentSplits ==
  ASSUME NEW out \in Seq(Byte), NEW n \in 0..Len(out)
  PROVE  LET w == Sent(out, n) IN
         /\ w.ok = TRUE
         /\ w.out \in Seq(Byte) /\ w.sent \in Seq(Byte)
         /\ w.sent \o w.out = out
         /\ w.writer = (w.out # <<>>)
<1>1. /\ Take(out, n) \in Seq(Byte) /\ Drop(out, n) \in Seq(Byte)
      /\ Take(out, n) \o Drop(out, n) = out
      /\ Len(Drop(out, n)) = Len(out) - n
  BY Cut
<1>2. (n < Len(out)) = (Drop(out, n) # <<>>)
  <2>1. Drop(out, n) = <<>> <=> Len(Drop(out, n)) = 0
    BY <1>1, EmptySeq
  <2> QED BY <1>1, <2>1 DEF Byte
<1> QED BY <1>1, <1>2 DEF Sent

----------------------------------------------------------------------------
(* What the callbacks make of the buffers they are given.                  *)

\* The event of a buffer is held while the buffer is not empty; the client's
\* may be missing once the client has reset the connection.
ClientArmed(out, writer) ==
  /\ client # "reset" => writer = (out # <<>>)
  /\ writer => out # <<>>

\* Proxy_write_cb sends a prefix of the buffer.
LEMMA ProxyWrite ==
  ASSUME NEW out \in Seq(Byte), NEW w \in Proxy_write_cb(out),
         proxyWriter \in BOOLEAN
  PROVE  /\ w.ok \in BOOLEAN /\ w.writer \in BOOLEAN
         /\ w.out \in Seq(Byte) /\ w.sent \in Seq(Byte)
         /\ w.sent \o w.out = out
         /\ w.ok => w.writer = (w.out # <<>>)
         /\ ~w.ok => client = "reset" /\ w.out # <<>> /\ w.writer = proxyWriter
<1>1. CASE client = "reset" /\ out # <<>>
  <2>1. w = [ok |-> FALSE, out |-> out, sent |-> <<>>, writer |-> proxyWriter]
    BY <1>1 DEF Proxy_write_cb
  <2>2. <<>> \in Seq(Byte) /\ <<>> \o out = out
    BY EmptySeq, ConcatEmptySeq
  <2> QED BY <1>1, <2>1, <2>2
<1>2. CASE ~(client = "reset" /\ out # <<>>)
  <2>1. PICK n \in 0..Len(out) : w = Sent(out, n)
    BY <1>2 DEF Proxy_write_cb
  <2>2. /\ w.ok = TRUE
        /\ w.out \in Seq(Byte) /\ w.sent \in Seq(Byte)
        /\ w.sent \o w.out = out
        /\ w.writer = (w.out # <<>>)
    BY <2>1, SentSplits
  <2> QED BY <2>2
<1> QED BY <1>1, <1>2

\* Backend_write_cb sends a prefix of the buffer; when it reports success the
\* event is held exactly if something is left.
LEMMA BackendWrite ==
  ASSUME NEW out \in Seq(Byte), NEW w \in Backend_write_cb(out),
         backendWriter \in BOOLEAN, first_response \in BOOLEAN
  PROVE  /\ w.ok \in BOOLEAN /\ w.writer \in BOOLEAN
         /\ w.out \in Seq(Byte) /\ w.sent \in Seq(Byte)
         /\ w.sent \o w.out = out
         /\ w.ok => w.writer = (w.out # <<>>)
         /\ ~w.ok => backend = "reset"
<1>1. CASE backend = "reset" /\ out # <<>>
  <2>1. w = [ok |-> first_response, out |-> out, sent |-> <<>>,
             writer |-> first_response \/ backendWriter]
    BY <1>1 DEF Backend_write_cb
  <2>2. <<>> \in Seq(Byte) /\ <<>> \o out = out
    BY EmptySeq, ConcatEmptySeq
  <2>3. /\ w.ok = first_response /\ w.out = out /\ w.sent = <<>>
        /\ w.writer = (first_response \/ backendWriter)
    BY <2>1
  <2>4. CASE first_response = TRUE
    BY <1>1, <2>2, <2>3, <2>4
  <2>5. CASE first_response = FALSE
    BY <1>1, <2>2, <2>3, <2>5
  <2> QED BY <2>4, <2>5
<1>2. CASE ~(backend = "reset" /\ out # <<>>)
  <2>1. PICK n \in 0..Len(out) : w = Sent(out, n)
    BY <1>2 DEF Backend_write_cb
  <2>2. /\ w.ok = TRUE
        /\ w.out \in Seq(Byte) /\ w.sent \in Seq(Byte)
        /\ w.sent \o w.out = out
        /\ w.writer = (w.out # <<>>)
    BY <2>1, SentSplits
  <2> QED BY <2>2
<1> QED BY <1>1, <1>2

\* ProxyValidateServerResponse keeps the order of the response stream, and the
\* client's write event in step with response_out.
LEMMA Validate ==
  ASSUME NEW in \in Seq(Byte), NEW out \in Seq(Byte),
         NEW v \in ProxyValidateServerResponse(in, out),
         proxyWriter \in BOOLEAN, ClientArmed(out, proxyWriter)
  PROVE  /\ v.ok \in BOOLEAN /\ v.writer \in BOOLEAN
         /\ v.in \in Seq(Byte) /\ v.out \in Seq(Byte) /\ v.sent \in Seq(Byte)
         /\ v.sent \o (v.out \o v.in) = out \o in
         /\ v.ok => ClientArmed(v.out, v.writer)
         /\ ~v.ok => client = "reset"
<1>1. CASE v = [ok |-> TRUE, in |-> in, out |-> out, sent |-> <<>>, writer |-> proxyWriter]
  <2>1. <<>> \in Seq(Byte) /\ out \o in \in Seq(Byte)
    BY EmptySeq, ConcatProperties
  <2>2. <<>> \o (out \o in) = out \o in
    BY <2>1, ConcatEmptySeq
  <2> QED BY <1>1, <2>1, <2>2
<1>2. ASSUME NEW m \in 1..Len(in), NEW w \in Proxy_write_cb(out \o Take(in, m)),
             v = [ok |-> w.ok, in |-> Drop(in, m), out |-> w.out,
                  sent |-> w.sent, writer |-> w.writer]
      PROVE  /\ v.ok \in BOOLEAN /\ v.writer \in BOOLEAN
             /\ v.in \in Seq(Byte) /\ v.out \in Seq(Byte) /\ v.sent \in Seq(Byte)
             /\ v.sent \o (v.out \o v.in) = out \o in
             /\ v.ok => ClientArmed(v.out, v.writer)
             /\ ~v.ok => client = "reset"
  <2>1. /\ Take(in, m) \in Seq(Byte) /\ Drop(in, m) \in Seq(Byte)
        /\ Take(in, m) \o Drop(in, m) = in
    <3>1. m \in 0..Len(in)
      BY LenProperties
    <3> QED BY <3>1, Cut
  <2>2. out \o Take(in, m) \in Seq(Byte)
    BY <2>1, ConcatProperties
  <2>3. /\ w.ok \in BOOLEAN /\ w.writer \in BOOLEAN
        /\ w.out \in Seq(Byte) /\ w.sent \in Seq(Byte)
        /\ w.sent \o w.out = out \o Take(in, m)
        /\ w.ok => w.writer = (w.out # <<>>)
        /\ ~w.ok => client = "reset"
    BY <2>2, ProxyWrite
  <2>4. w.sent \o (w.out \o Drop(in, m)) = out \o in
    <3>1. w.sent \o (w.out \o Drop(in, m)) = (w.sent \o w.out) \o Drop(in, m)
      <4>1. w.sent \in Seq(Byte) /\ w.out \in Seq(Byte) /\ Drop(in, m) \in Seq(Byte)
        BY <2>1, <2>3
      <4> QED BY <4>1, Assoc, Zenon
    <3>2. (out \o Take(in, m)) \o Drop(in, m) = out \o (Take(in, m) \o Drop(in, m))
      BY <2>1, Assoc, Zenon
    <3> QED BY <2>1, <2>3, <3>1, <3>2
  <2>5. /\ v.ok = w.ok /\ v.in = Drop(in, m) /\ v.out = w.out
        /\ v.sent = w.sent /\ v.writer = w.writer
    BY <1>2
  <2>6. v.ok => ClientArmed(v.out, v.writer)
    BY <2>3, <2>5 DEF ClientArmed
  <2> QED BY <2>1, <2>3, <2>4, <2>5, <2>6
<1>3. \/ v = [ok |-> TRUE, in |-> in, out |-> out, sent |-> <<>>, writer |-> proxyWriter]
      \/ \E m \in 1..Len(in) : \E w \in Proxy_write_cb(out \o Take(in, m)) :
           v = [ok |-> w.ok, in |-> Drop(in, m), out |-> w.out,
                sent |-> w.sent, writer |-> w.writer]
  BY DEF ProxyValidateServerResponse
<1> QED BY <1>1, <1>2, <1>3

\* Replies and chunks are sequences of bytes.
LEMMA Generated ==
  ASSUME NEW n \in Nat, NEW k \in Nat
  PROVE  /\ Replies(k) \in Seq(Byte)
         /\ Chunk(n, k) \in Seq(Byte)
<1>1. \A i \in 1..k : Reply \in Byte /\ n + i \in Byte
  BY DEF Reply, Byte
<1>2. [i \in 1..k |-> Reply] \in Seq(Byte)
  BY <1>1, IsASeq
<1>3. [i \in 1..k |-> n + i] \in Seq(Byte)
  BY <1>1, IsASeq
<1> QED BY <1>2, <1>3 DEF Replies, Chunk

\* No reply is an empty sequence.
LEMMA NoReplies == Replies(0) = <<>>
<1>1. [i \in 1..0 |-> Reply] \in Seq(Byte)
  BY IsASeq
<1>2. Len([i \in 1..0 |-> Reply]) = 0
  BY DEF Reply
<1> QED BY <1>1, <1>2, EmptySeq DEF Replies

\* Queuing r replies appends them to the response stream.
LEMMA Answer ==
  ASSUME TypeOK, ClientArmed(response_out, proxyWriter),
         NEW r \in Nat, NEW a \in AnswerClient(r)
  PROVE  /\ a.ok \in BOOLEAN /\ a.writer \in BOOLEAN
         /\ a.in \in Seq(Byte) /\ a.out \in Seq(Byte) /\ a.sent \in Seq(Byte)
         /\ a.sent \o (a.out \o a.in) = (response_out \o response_in) \o Replies(r)
         /\ a.ok => ClientArmed(a.out, a.writer)
         /\ ~a.ok => client = "reset"
<1>0. /\ response_in \in Seq(Byte) /\ response_out \in Seq(Byte)
      /\ proxyWriter \in BOOLEAN
      /\ Replies(r) \in Seq(Byte) /\ <<>> \in Seq(Byte)
      /\ response_out \o response_in \in Seq(Byte)
      /\ response_in \o Replies(r) \in Seq(Byte)
      /\ response_out \o Replies(r) \in Seq(Byte)
  BY Generated, EmptySeq, ConcatProperties DEF TypeOK
<1>1. CASE r = 0
  <2>1. a = [ok |-> TRUE, in |-> response_in, out |-> response_out, sent |-> <<>>,
             writer |-> proxyWriter]
    BY <1>1 DEF AnswerClient
  <2>2. /\ (response_out \o response_in) \o <<>> = response_out \o response_in
        /\ <<>> \o (response_out \o response_in) = response_out \o response_in
    BY <1>0, ConcatEmptySeq
  <2> QED BY <1>0, <1>1, <2>1, <2>2, NoReplies
<1>2. CASE r # 0 /\ response_in # <<>>
  <2>1. a \in ProxyValidateServerResponse(response_in \o Replies(r), response_out)
    BY <1>2 DEF AnswerClient, QueuedIn, QueuedOut
  <2>2. response_out \o (response_in \o Replies(r))
          = (response_out \o response_in) \o Replies(r)
    BY <1>0, ConcatAssociative
  <2> QED BY <1>0, <2>1, <2>2, Validate
<1>3. CASE r # 0 /\ response_in = <<>>
  <2>1. PICK w \in Proxy_write_cb(response_out \o Replies(r)) :
          a = [ok |-> TRUE, in |-> response_in, out |-> w.out, sent |-> w.sent,
               writer |-> w.writer]
    BY <1>3 DEF AnswerClient, QueuedOut
  <2>2. /\ w.writer \in BOOLEAN
        /\ w.out \in Seq(Byte) /\ w.sent \in Seq(Byte)
        /\ w.sent \o w.out = response_out \o Replies(r)
        /\ w.ok \in BOOLEAN
        /\ w.ok => w.writer = (w.out # <<>>)
        /\ ~w.ok => client = "reset" /\ w.out # <<>> /\ w.writer = proxyWriter
    BY <1>0, ProxyWrite
  <2>3. ClientArmed(w.out, w.writer)
    BY <2>2 DEF ClientArmed
  <2>4. w.sent \o (w.out \o response_in) = (response_out \o response_in) \o Replies(r)
    BY <1>0, <1>3, <2>2, ConcatEmptySeq
  <2> QED BY <1>0, <2>1, <2>2, <2>3, <2>4
<1> QED BY <1>1, <1>2, <1>3

\* What is forwarded follows what is waiting in request_out.
LEMMA Forwarding ==
  ASSUME TypeOK, backendWriter = (request_out # <<>>),
         NEW request \in Seq(Byte), NEW f \in Forward(request)
  PROVE  /\ f.ok \in BOOLEAN /\ f.writer \in BOOLEAN
         /\ f.out \in Seq(Byte) /\ f.sent \in Seq(Byte)
         /\ f.sent \o f.out = request_out \o request
         /\ f.ok => f.writer = (f.out # <<>>)
         /\ ~f.ok => backend = "reset"
<1>0. /\ request_out \in Seq(Byte) /\ <<>> \in Seq(Byte)
      /\ request_out \o request \in Seq(Byte)
      /\ backendWriter \in BOOLEAN /\ first_response \in BOOLEAN
  BY EmptySeq, ConcatProperties DEF TypeOK
<1>1. CASE request = <<>>
  <2>1. f = [ok |-> TRUE, out |-> request_out, sent |-> <<>>, writer |-> backendWriter]
    BY <1>1 DEF Forward
  <2>2. <<>> \o request_out = request_out /\ request_out \o <<>> = request_out
    BY <1>0, ConcatEmptySeq
  <2> QED BY <1>0, <1>1, <2>1, <2>2
<1>2. CASE request # <<>>
  BY <1>0, <1>2, BackendWrite DEF Forward
<1> QED BY <1>1, <1>2

----------------------------------------------------------------------------
(* The inductive invariant, preserved action by action.                    *)

Inv == TypeOK /\ WriterArmed /\ NoEventAfterClose /\ NothingLost

\* What the invariant says of an open connection, in the form the lemmas above
\* take it.
LEMMA OpenInv ==
  ASSUME Inv, open
  PROVE  /\ ClientArmed(response_out, proxyWriter)
         /\ backendWriter = (request_out # <<>>)
         /\ backendGot \o (request_out \o request_in) = reqLog
         /\ clientGot \o (response_out \o response_in) = respLog
<1>1. ClientArmed(response_out, proxyWriter)
  BY DEF Inv, TypeOK, WriterArmed, ClientArmed
<1>2. backendWriter = (request_out # <<>>)
  BY DEF Inv, TypeOK, WriterArmed
<1>3. backendGot \o (request_out \o request_in) = reqLog
  <2>1. /\ backendGot \in Seq(Byte) /\ request_out \in Seq(Byte)
        /\ request_in \in Seq(Byte)
        /\ (backendGot \o request_out) \o request_in = reqLog
    BY DEF Inv, TypeOK, NothingLost
  <2> QED BY <2>1, Assoc, Zenon
<1>4. clientGot \o (response_out \o response_in) = respLog
  <2>1. /\ clientGot \in Seq(Byte) /\ response_out \in Seq(Byte)
        /\ response_in \in Seq(Byte)
        /\ (clientGot \o response_out) \o response_in = respLog
    BY DEF Inv, TypeOK, NothingLost
  <2> QED BY <2>1, Assoc, Zenon
<1> QED BY <1>1, <1>2, <1>3, <1>4

\* Splitting a concatenation where it was joined.
LEMMA CutConcat ==
  ASSUME NEW a \in Seq(Byte), NEW b \in Seq(Byte)
  PROVE  /\ Take(a \o b, Len(a)) = a
         /\ Drop(a \o b, Len(a)) = b
<1>1. /\ a \o b \in Seq(Byte) /\ Len(a \o b) = Len(a) + Len(b)
      /\ Len(a) \in Nat /\ Len(b) \in Nat
      /\ \A i \in 1..Len(a) + Len(b) :
           (a \o b)[i] = IF i <= Len(a) THEN a[i] ELSE b[i - Len(a)]
  BY ConcatProperties, LenProperties
<1>2. Len(a) \in 0..Len(a \o b)
  BY <1>1
<1>3. /\ Take(a \o b, Len(a)) \in Seq(Byte) /\ Len(Take(a \o b, Len(a))) = Len(a)
      /\ Drop(a \o b, Len(a)) \in Seq(Byte)
      /\ Len(Drop(a \o b, Len(a))) = Len(b)
  <2> DEFINE c == a \o b
  <2>1. c \in Seq(Byte) /\ Len(a) \in 0..Len(c)
    BY <1>1, <1>2
  <2>2. Len(c) - Len(a) = Len(b)
    BY <1>1
  <2> HIDE DEF c
  <2>3. /\ Take(c, Len(a)) \in Seq(Byte) /\ Len(Take(c, Len(a))) = Len(a)
        /\ Drop(c, Len(a)) \in Seq(Byte)
        /\ Len(Drop(c, Len(a))) = Len(c) - Len(a)
    BY <2>1, Cut
  <2> QED BY <2>2, <2>3 DEF c
<1>4. \A i \in 1..Len(a \o b) : (a \o b)[i] \in Byte
  BY <1>1, ElementOfSeq
<1>5. \A i \in 1..Len(a) : Take(a \o b, Len(a))[i] = a[i]
  BY <1>1, <1>4, SubSeqProperties DEF Take
<1>6. \A i \in 1..Len(b) : Drop(a \o b, Len(a))[i] = b[i]
  BY <1>1, <1>4, SubSeqProperties DEF Drop
<1> QED BY <1>3, <1>5, <1>6, SeqEqual

\* The outcomes of the request parser.
LEMMA Parsed ==
  ASSUME NEW in \in Seq(Byte), NEW p \in ParseRequest(in)
  PROVE  /\ p.ok \in BOOLEAN /\ p.replies \in Nat
         /\ p.left \in Seq(Byte) /\ p.request \in Seq(Byte)
         /\ p.ok => \/ p.request \o p.left = in
                    \/ p.request = <<>> /\ p.left = <<>> /\ protocol = "pgsql"
         /\ ~p.ok => protocol = "pgsql"
<1>0. /\ Len(in) \in Nat /\ <<>> \in Seq(Byte)
      /\ 1..MaxReplies \subseteq Nat
  BY LenProperties, EmptySeq, RelayAssumption
<1>1. ASSUME NEW n \in 0..Len(in), NEW r \in Nat,
             p = [ok |-> TRUE, left |-> Drop(in, n), request |-> Take(in, n), replies |-> r]
      PROVE  /\ p.ok /\ p.ok \in BOOLEAN /\ p.replies \in Nat
             /\ p.left \in Seq(Byte) /\ p.request \in Seq(Byte)
             /\ p.request \o p.left = in
  BY <1>1, Cut
<1>2. CASE /\ p = [ok |-> TRUE, left |-> Drop(in, Len(in)), request |-> <<>>, replies |-> 1]
           /\ protocol = "pgsql"
  <2>1. Drop(in, Len(in)) \in Seq(Byte) /\ Len(Drop(in, Len(in))) = 0
    BY <1>0, Cut
  <2> QED BY <1>0, <1>2, <2>1, EmptySeq
<1>3. CASE /\ p = [ok |-> FALSE, left |-> Drop(in, 0), request |-> <<>>, replies |-> 0]
           /\ protocol = "pgsql"
  <2>1. Drop(in, 0) \in Seq(Byte)
    BY <1>0, Cut
  <2> QED BY <1>0, <1>3, <2>1
<1>4. \/ \E n \in 0..Len(in), r \in Nat :
           p = [ok |-> TRUE, left |-> Drop(in, n), request |-> Take(in, n), replies |-> r]
      \/ /\ p = [ok |-> TRUE, left |-> Drop(in, Len(in)), request |-> <<>>, replies |-> 1]
         /\ protocol = "pgsql"
      \/ /\ p = [ok |-> FALSE, left |-> Drop(in, 0), request |-> <<>>, replies |-> 0]
         /\ protocol = "pgsql"
  BY <1>0 DEF ParseRequest
<1> QED BY <1>1, <1>2, <1>3, <1>4

\* The bytes due to the server once the parser is done with its input.
LEMMA DueInOrder ==
  ASSUME Inv, open, NEW chunk \in Seq(Byte), chunk # <<>>,
         NEW p \in ParseRequest(request_in \o chunk)
  PROVE  /\ Due(request_in \o chunk, p) \in Seq(Byte)
         /\ p.ok => Due(request_in \o chunk, p)
                       = (backendGot \o request_out) \o (p.request \o p.left)
         /\ \E rest \in Seq(Byte) :
              Due(request_in \o chunk, p) = (backendGot \o request_out) \o rest
         /\ \/ \E extra \in Seq(Byte) : Due(request_in \o chunk, p) = reqLog \o extra
            \/ \E extra \in Seq(Byte) : reqLog = Due(request_in \o chunk, p) \o extra
         /\ \/ Due(request_in \o chunk, p) = reqLog \o chunk
            \/ /\ reqLog = Due(request_in \o chunk, p) \o request_in
               /\ protocol = "pgsql"
<1> DEFINE in == request_in \o chunk
           sent == backendGot \o request_out
<1>1. /\ request_in \in Seq(Byte) /\ request_out \in Seq(Byte)
      /\ backendGot \in Seq(Byte) /\ reqLog \in Seq(Byte)
      /\ in \in Seq(Byte) /\ sent \in Seq(Byte)
      /\ Len(sent) \in Nat /\ Len(request_in) \in Nat
  BY ConcatProperties, LenProperties DEF Inv, TypeOK
<1>2. reqLog = sent \o request_in
  BY DEF Inv, NothingLost
<1>3. in # <<>> /\ Drop(in, Len(request_in)) = chunk
  BY <1>1, CutConcat, ConcatEqualIffEmpty
<1>4. Take(reqLog, Len(reqLog) - Len(request_in)) = sent
  <2>1. Len(reqLog) = Len(sent) + Len(request_in)
    BY <1>1, <1>2, ConcatProperties
  <2>2. Len(reqLog) - Len(request_in) = Len(sent)
    BY <1>1, <2>1
  <2> QED BY <1>1, <1>2, <2>2, CutConcat
<1>5. CASE p.ok /\ p.request = <<>> /\ p.left = <<>>
  <2>1. Due(in, p) = sent
    BY <1>4, <1>5 DEF Due
  <2>2. <<>> \in Seq(Byte) /\ <<>> \o <<>> = <<>> /\ sent \o <<>> = sent
    BY <1>1, EmptySeq, ConcatEmptySeq
  <2> HIDE DEF in, sent
  <2>3. Due(in, p) = sent \o <<>> /\ reqLog = Due(in, p) \o request_in
    BY <1>2, <2>1, <2>2
  <2>4. p.ok => Due(in, p) = sent \o (p.request \o p.left)
    BY <1>5, <2>1, <2>2
  <2>5. Due(in, p) \in Seq(Byte)
    BY <1>1, <2>1
  <2>6. protocol = "pgsql"
    <3>1. in \in Seq(Byte) /\ p \in ParseRequest(in)
      BY <1>1 DEF in
    <3>2. p.request \o p.left = in \/ protocol = "pgsql"
      BY ONLY <1>5, <3>1, Parsed
    <3> QED BY <1>3, <1>5, <2>2, <3>2
  <2> QED BY <1>1, <2>2, <2>3, <2>4, <2>5, <2>6 DEF in, sent
<1>6. CASE ~(p.ok /\ p.request = <<>> /\ p.left = <<>>)
  <2>1. Due(in, p) = reqLog \o chunk
    BY <1>3, <1>6 DEF Due
  <2>2. Due(in, p) = sent \o in
    BY <1>1, <1>2, <2>1, Assoc, Zenon
  <2>3. Due(in, p) \in Seq(Byte)
    BY <1>1, <2>1, ConcatProperties
  <2>4. p.ok => p.request \o p.left = in
    BY <1>1, <1>6, Parsed
  <2> QED BY <1>1, <2>1, <2>2, <2>3, <2>4
<1> QED BY <1>5, <1>6

\* A step of the response stream: something was accepted, something sent, and
\* the rest is still in the two buffers.
ResponseMoved ==
  /\ response_in' \in Seq(Byte) /\ response_out' \in Seq(Byte)
  /\ clientGot' \in Seq(Byte) /\ respLog' \in Seq(Byte)
  /\ \E sent \in Seq(Byte) : clientGot' = clientGot \o sent
  /\ \E extra \in Seq(Byte) : respLog' = respLog \o extra
  /\ clientGot' \o (response_out' \o response_in') = respLog'

\* A step of the request stream: the same, but input may have been taken back,
\* and when the connection closes what the parser released may be lost.
RequestMoved ==
  /\ request_in' \in Seq(Byte) /\ request_out' \in Seq(Byte)
  /\ backendGot' \in Seq(Byte) /\ reqLog' \in Seq(Byte)
  /\ \E sent \in Seq(Byte) : backendGot' = backendGot \o sent
  /\ \E rest \in Seq(Byte) : reqLog' = backendGot' \o rest
  /\ \/ \E extra \in Seq(Byte) : reqLog' = reqLog \o extra
     \/ \E extra \in Seq(Byte) : reqLog = reqLog' \o extra
  /\ open' => backendGot' \o (request_out' \o request_in') = reqLog'

\* What a step must do to the events and to the remaining variables.
EventsFollow ==
  /\ open' \in BOOLEAN /\ first_response' \in BOOLEAN
  /\ proxyWriter' \in BOOLEAN /\ backendWriter' \in BOOLEAN
  /\ client' \in Peer /\ backend' \in Peer
  /\ reqRead' \in Nat /\ respRead' \in Nat
  /\ open' => /\ client' # "reset" => proxyWriter' = (response_out' # <<>>)
              /\ proxyWriter' => response_out' # <<>>
              /\ backendWriter' = (request_out' # <<>>)
  /\ ~open' => ~proxyWriter' /\ ~backendWriter'

\* The three together re-establish the invariant.
LEMMA Combine ==
  ASSUME RequestMoved, ResponseMoved, EventsFollow, protocol' \in Protocols
  PROVE  Inv'
<1>1. TypeOK'
  BY DEF RequestMoved, ResponseMoved, EventsFollow, TypeOK
<1>2. WriterArmed'
  BY DEF EventsFollow, WriterArmed
<1>3. NoEventAfterClose'
  BY DEF EventsFollow, NoEventAfterClose
<1>4. NothingLost'
  <2>1. open' => (backendGot' \o request_out') \o request_in' = reqLog'
    <3>1. /\ backendGot' \in Seq(Byte) /\ request_out' \in Seq(Byte)
          /\ request_in' \in Seq(Byte)
          /\ open' => backendGot' \o (request_out' \o request_in') = reqLog'
      BY DEF RequestMoved
    <3> QED BY <3>1, Assoc, Zenon
  <2>2. (clientGot' \o response_out') \o response_in' = respLog'
    <3>1. /\ clientGot' \in Seq(Byte) /\ response_out' \in Seq(Byte)
          /\ response_in' \in Seq(Byte)
          /\ clientGot' \o (response_out' \o response_in') = respLog'
      BY DEF ResponseMoved
    <3> QED BY <3>1, Assoc, Zenon
  <2> QED BY <2>1, <2>2 DEF NothingLost
<1> QED BY <1>1, <1>2, <1>3, <1>4 DEF Inv

\* Concatenation under a name of its own, which the solvers leave alone.
Cat(a, b) == a \o b

\* Cat is closed and associative.
LEMMA CatProperties ==
  /\ \A a, b \in Seq(Byte) : Cat(a, b) \in Seq(Byte)
  /\ \A a, b, c \in Seq(Byte) : Cat(Cat(a, b), c) = Cat(a, Cat(b, c))
<1>1. \A a, b \in Seq(Byte) : Cat(a, b) \in Seq(Byte)
  BY ConcatProperties DEF Cat
<1>2. \A a, b, c \in Seq(Byte) : Cat(Cat(a, b), c) = Cat(a, Cat(b, c))
  BY Assoc DEF Cat
<1> QED BY <1>1, <1>2

\* Bytes sent, left and newly accepted make the stream longer by the latter.
LEMMA Moves ==
  \A got, out, in, extra, sent, rest \in Seq(Byte) :
    Cat(sent, rest) = Cat(Cat(out, in), extra)
      => Cat(Cat(got, sent), rest) = Cat(Cat(got, Cat(out, in)), extra)
  BY CatProperties

\* The same, when a prefix of the output buffer was sent.
LEMMA Sends ==
  \A got, out, in, sent, left \in Seq(Byte) :
    Cat(sent, left) = out
      => Cat(Cat(got, sent), Cat(left, in)) = Cat(got, Cat(out, in))
  BY CatProperties

\* What is sent and left of two joined sequences keeps their order.
LEMMA Rejoin ==
  \A a, b, c, d \in Seq(Byte) :
    Cat(Cat(a, b), Cat(c, d)) = Cat(a, Cat(Cat(b, c), d))
<1> TAKE a, b, c, d \in Seq(Byte)
<1>1. Cat(b, c) \in Seq(Byte) /\ Cat(c, d) \in Seq(Byte)
  BY CatProperties
<1>2. Cat(Cat(a, b), Cat(c, d)) = Cat(a, Cat(b, Cat(c, d)))
  BY ONLY <1>1, a \in Seq(Byte), b \in Seq(Byte), CatProperties
<1>3. Cat(Cat(b, c), d) = Cat(b, Cat(c, d))
  BY ONLY b \in Seq(Byte), c \in Seq(Byte), d \in Seq(Byte), CatProperties
<1> QED BY <1>2, <1>3

\* Nothing happened to the response stream of an open connection.
LEMMA ResponseIdle ==
  ASSUME Inv, open, UNCHANGED responseSide
  PROVE  ResponseMoved
<1>1. /\ response_in \in Seq(Byte) /\ response_out \in Seq(Byte)
      /\ clientGot \in Seq(Byte) /\ respLog \in Seq(Byte)
      /\ clientGot \o (response_out \o response_in) = respLog
      /\ <<>> \in Seq(Byte)
  BY OpenInv, EmptySeq DEF Inv, TypeOK
<1>2. clientGot = clientGot \o <<>> /\ respLog = respLog \o <<>>
  BY <1>1, ConcatEmptySeq
<1>3. /\ response_in' = response_in /\ response_out' = response_out
      /\ clientGot' = clientGot /\ respLog' = respLog
  BY DEF responseSide
<1> QED BY <1>1, <1>2, <1>3 DEF ResponseMoved

\* Nothing happened to the request stream of an open connection.
LEMMA RequestIdle ==
  ASSUME Inv, open, UNCHANGED requestSide
  PROVE  RequestMoved
<1>1. /\ request_in \in Seq(Byte) /\ request_out \in Seq(Byte)
      /\ backendGot \in Seq(Byte) /\ reqLog \in Seq(Byte)
      /\ backendGot \o (request_out \o request_in) = reqLog
      /\ request_out \o request_in \in Seq(Byte)
      /\ <<>> \in Seq(Byte)
  BY OpenInv, EmptySeq, ConcatProperties DEF Inv, TypeOK
<1>2. backendGot = backendGot \o <<>> /\ reqLog = reqLog \o <<>>
  BY <1>1, ConcatEmptySeq
<1>3. /\ request_in' = request_in /\ request_out' = request_out
      /\ backendGot' = backendGot /\ reqLog' = reqLog
  BY DEF requestSide
<1> QED BY <1>1, <1>2, <1>3 DEF RequestMoved

----------------------------------------------------------------------------
(* One lemma per action.                                                   *)

Moved == open /\ RequestMoved /\ ResponseMoved /\ EventsFollow

\* A read brings at least one byte.
LEMMA ChunkRead ==
  ASSUME NEW n \in Nat, NEW room \in Int, NEW k \in ReadSizes(room)
  PROVE  k \in Nat /\ k > 0 /\ Chunk(n, k) \in Seq(Byte) /\ Chunk(n, k) # <<>>
<1>1. k \in Nat /\ k > 0
  BY DEF ReadSizes
<1>2. Chunk(n, k) \in Seq(Byte)
  BY <1>1, Generated
<1>3. DOMAIN Chunk(n, k) = 1..k
  BY DEF Chunk
<1>4. DOMAIN <<>> = 1..0
  OBVIOUS
<1>5. Chunk(n, k) # <<>>
  BY <1>1, <1>3, <1>4
<1> QED BY <1>1, <1>2, <1>5

\* Reading from the server moves bytes along the response stream.
LEMMA BackendRead ==
  ASSUME Inv, NEW k, Backend_cb_Read(k)
  PROVE  Moved
<1> DEFINE chunk == Chunk(respRead, k)
<1>0. /\ open /\ TypeOK
      /\ RespBound - respRead \in Int
      /\ k \in ReadSizes(RespBound - respRead)
  BY RelayAssumption DEF Backend_cb_Read, Inv, TypeOK
<1>1. k \in Nat /\ chunk \in Seq(Byte)
  BY <1>0, ChunkRead DEF TypeOK
<1> DEFINE input == response_in \o chunk
<1>2. PICK v \in ProxyValidateServerResponse(input, response_out) :
        /\ response_in' = v.in
        /\ response_out' = v.out
        /\ clientGot' = clientGot \o v.sent
        /\ Events(v.ok, v.writer, backendWriter)
  BY DEF Backend_cb_Read
<1>3. /\ response_in \in Seq(Byte) /\ response_out \in Seq(Byte)
      /\ clientGot \in Seq(Byte) /\ respLog \in Seq(Byte)
      /\ input \in Seq(Byte)
      /\ clientGot \o (response_out \o response_in) = respLog
      /\ proxyWriter \in BOOLEAN /\ ClientArmed(response_out, proxyWriter)
  BY <1>0, <1>1, OpenInv, ConcatProperties DEF TypeOK
<1>5. respLog' = respLog \o chunk
  BY DEF Backend_cb_Read
<1> HIDE DEF chunk
<1>a. /\ response_out \o input = (response_out \o response_in) \o chunk
      /\ response_out \o response_in \in Seq(Byte)
  <2>1. /\ response_out \in Seq(Byte) /\ response_in \in Seq(Byte)
        /\ chunk \in Seq(Byte)
    BY <1>1, <1>3
  <2>2. response_out \o (response_in \o chunk) = (response_out \o response_in) \o chunk
    BY ONLY <2>1, Assoc, Zenon
  <2> QED BY <2>1, <2>2, ConcatProperties
<1> HIDE DEF input
<1>4. /\ v.ok \in BOOLEAN /\ v.writer \in BOOLEAN
      /\ v.in \in Seq(Byte) /\ v.out \in Seq(Byte) /\ v.sent \in Seq(Byte)
      /\ v.sent \o (v.out \o v.in) = response_out \o input
      /\ v.ok => ClientArmed(v.out, v.writer)
  BY <1>2, <1>3, Validate
<1>6. ResponseMoved
  <2>1. v.sent \o (v.out \o v.in) = (response_out \o response_in) \o chunk
    BY <1>4, <1>a
  <2>2. /\ v.out \o v.in \in Seq(Byte) /\ respLog \o chunk \in Seq(Byte)
        /\ clientGot \o v.sent \in Seq(Byte)
    BY <1>1, <1>3, <1>4, ConcatProperties
  <2>3. (clientGot \o v.sent) \o (v.out \o v.in)
          = (clientGot \o (response_out \o response_in)) \o chunk
    <3>1. /\ clientGot \in Seq(Byte) /\ response_out \in Seq(Byte)
          /\ response_in \in Seq(Byte) /\ chunk \in Seq(Byte)
          /\ v.sent \in Seq(Byte) /\ Cat(v.out, v.in) \in Seq(Byte)
      BY <1>1, <1>3, <1>4, <2>2 DEF Cat
    <3>2. Cat(v.sent, Cat(v.out, v.in)) = Cat(Cat(response_out, response_in), chunk)
      BY <2>1 DEF Cat
    <3>3. Cat(Cat(clientGot, v.sent), Cat(v.out, v.in))
            = Cat(Cat(clientGot, Cat(response_out, response_in)), chunk)
      BY ONLY <3>1, <3>2, Moves
    <3> QED BY <3>3 DEF Cat
  <2> QED BY <1>1, <1>2, <1>3, <1>4, <1>5, <2>2, <2>3 DEF ResponseMoved
<1>7. RequestMoved
  BY <1>0, RequestIdle DEF Backend_cb_Read
<1>8. EventsFollow
  <2>1. /\ open' = v.ok
        /\ proxyWriter' = (v.ok /\ v.writer)
        /\ backendWriter' = (v.ok /\ backendWriter)
    BY <1>2 DEF Events
  <2>2. /\ client' = client /\ backend' = backend /\ request_out' = request_out
        /\ reqRead' = reqRead /\ respRead' = respRead + k
        /\ first_response' = (first_response /\ protocol = "mysql")
    BY DEF Backend_cb_Read, peers, requestSide, SeenResponse
  <2>3. backendWriter = (request_out # <<>>)
    BY <1>0, OpenInv
  <2>4. /\ first_response \in BOOLEAN /\ backendWriter \in BOOLEAN
        /\ client \in Peer /\ backend \in Peer
        /\ reqRead \in Nat /\ respRead + k \in Nat
    BY <1>0, <1>1 DEF TypeOK
  <2>5. /\ open' \in BOOLEAN /\ proxyWriter' \in BOOLEAN /\ backendWriter' \in BOOLEAN
        /\ first_response' \in BOOLEAN
        /\ ~open' => ~proxyWriter' /\ ~backendWriter'
    BY <1>4, <2>1, <2>2, <2>4
  <2>6. open' => /\ client' # "reset" => proxyWriter' = (response_out' # <<>>)
                 /\ proxyWriter' => response_out' # <<>>
                 /\ backendWriter' = (request_out' # <<>>)
    BY <1>2, <1>4, <2>1, <2>2, <2>3 DEF ClientArmed
  <2> QED BY <2>2, <2>4, <2>5, <2>6 DEF EventsFollow
<1> QED BY <1>0, <1>6, <1>7, <1>8 DEF Moved

\* Writing to the server moves bytes along the request stream.
LEMMA BackendWrites ==
  ASSUME Inv, Backend_cb_Write
  PROVE  Moved
<1>0. open /\ TypeOK
  BY DEF Backend_cb_Write, Inv, NoEventAfterClose
<1>1. PICK w \in Backend_write_cb(request_out) :
        /\ request_out' = w.out
        /\ backendGot' = backendGot \o w.sent
        /\ Events(w.ok, proxyWriter, w.writer)
  BY DEF Backend_cb_Write
<1>2. /\ request_in \in Seq(Byte) /\ request_out \in Seq(Byte)
      /\ backendGot \in Seq(Byte) /\ reqLog \in Seq(Byte)
      /\ backendGot \o (request_out \o request_in) = reqLog
      /\ first_response \in BOOLEAN
      /\ proxyWriter \in BOOLEAN /\ backendWriter \in BOOLEAN
      /\ ClientArmed(response_out, proxyWriter)
      /\ <<>> \in Seq(Byte)
  BY <1>0, OpenInv, EmptySeq DEF TypeOK
<1>3. /\ w.ok \in BOOLEAN /\ w.writer \in BOOLEAN
      /\ w.out \in Seq(Byte) /\ w.sent \in Seq(Byte)
      /\ w.sent \o w.out = request_out
      /\ w.ok => w.writer = (w.out # <<>>)
  BY <1>2, BackendWrite
<1>4. /\ reqLog' = reqLog /\ request_in' = request_in
      /\ client' = client /\ backend' = backend /\ reqRead' = reqRead
      /\ respRead' = respRead /\ first_response' = first_response
      /\ response_out' = response_out
  BY DEF Backend_cb_Write, peers, responseSide
<1>5. RequestMoved
  <2>1. /\ w.out \o request_in \in Seq(Byte)
        /\ backendGot \o w.sent \in Seq(Byte)
    BY <1>2, <1>3, ConcatProperties
  <2>2. (backendGot \o w.sent) \o (w.out \o request_in) = reqLog
    <3>1. (backendGot \o w.sent) \o (w.out \o request_in)
            = backendGot \o (request_out \o request_in)
      <4>1. Cat(w.sent, w.out) = request_out
        BY <1>3 DEF Cat
      <4>2. Cat(Cat(backendGot, w.sent), Cat(w.out, request_in))
              = Cat(backendGot, Cat(request_out, request_in))
        BY ONLY <1>2, <1>3, <4>1, Sends
      <4> QED BY <4>2 DEF Cat
    <3> QED BY <1>2, <3>1
  <2>3. reqLog = reqLog \o <<>>
    BY <1>2, ConcatEmptySeq
  <2> QED BY <1>1, <1>2, <1>3, <1>4, <2>1, <2>2, <2>3 DEF RequestMoved
<1>6. ResponseMoved
  BY <1>0, ResponseIdle DEF Backend_cb_Write
<1>7. EventsFollow
  <2>1. /\ open' = w.ok
        /\ proxyWriter' = (w.ok /\ proxyWriter)
        /\ backendWriter' = (w.ok /\ w.writer)
    BY <1>1 DEF Events
  <2>2. /\ open' \in BOOLEAN /\ proxyWriter' \in BOOLEAN /\ backendWriter' \in BOOLEAN
        /\ ~open' => ~proxyWriter' /\ ~backendWriter'
    BY <1>2, <1>3, <2>1
  <2>3. /\ first_response \in BOOLEAN /\ client \in Peer /\ backend \in Peer
        /\ reqRead \in Nat /\ respRead \in Nat
    BY <1>0 DEF TypeOK
  <2>4. open' => /\ client' # "reset" => proxyWriter' = (response_out' # <<>>)
                 /\ proxyWriter' => response_out' # <<>>
                 /\ backendWriter' = (request_out' # <<>>)
    BY <1>1, <1>2, <1>3, <1>4, <2>1 DEF ClientArmed
  <2> QED BY <1>4, <2>2, <2>3, <2>4 DEF EventsFollow
<1> QED BY <1>0, <1>5, <1>6, <1>7 DEF Moved

\* Writing to the client moves bytes along the response stream.
LEMMA ProxyWrites ==
  ASSUME Inv, Proxy_cb_Write
  PROVE  Moved
<1>0. open /\ TypeOK
  BY DEF Proxy_cb_Write, Inv, NoEventAfterClose
<1>1. PICK w \in Proxy_write_cb(response_out) :
        /\ response_out' = w.out
        /\ clientGot' = clientGot \o w.sent
        /\ Events(w.ok, w.writer, backendWriter)
  BY DEF Proxy_cb_Write
<1>2. /\ response_in \in Seq(Byte) /\ response_out \in Seq(Byte)
      /\ clientGot \in Seq(Byte) /\ respLog \in Seq(Byte)
      /\ clientGot \o (response_out \o response_in) = respLog
      /\ proxyWriter \in BOOLEAN /\ backendWriter \in BOOLEAN
      /\ backendWriter = (request_out # <<>>)
      /\ <<>> \in Seq(Byte)
  BY <1>0, OpenInv, EmptySeq DEF TypeOK
<1>3. /\ w.ok \in BOOLEAN /\ w.writer \in BOOLEAN
      /\ w.out \in Seq(Byte) /\ w.sent \in Seq(Byte)
      /\ w.sent \o w.out = response_out
      /\ w.ok => w.writer = (w.out # <<>>)
  BY <1>2, ProxyWrite
<1>4. /\ respLog' = respLog /\ response_in' = response_in
      /\ client' = client /\ backend' = backend /\ reqRead' = reqRead
      /\ respRead' = respRead /\ first_response' = first_response
      /\ request_out' = request_out
  BY DEF Proxy_cb_Write, peers, requestSide
<1>5. ResponseMoved
  <2>1. /\ w.out \o response_in \in Seq(Byte)
        /\ clientGot \o w.sent \in Seq(Byte)
    BY <1>2, <1>3, ConcatProperties
  <2>2. (clientGot \o w.sent) \o (w.out \o response_in) = respLog
    <3>1. (clientGot \o w.sent) \o (w.out \o response_in)
            = clientGot \o (response_out \o response_in)
      <4>1. Cat(w.sent, w.out) = response_out
        BY <1>3 DEF Cat
      <4>2. Cat(Cat(clientGot, w.sent), Cat(w.out, response_in))
              = Cat(clientGot, Cat(response_out, response_in))
        BY ONLY <1>2, <1>3, <4>1, Sends
      <4> QED BY <4>2 DEF Cat
    <3> QED BY <1>2, <3>1
  <2>3. respLog = respLog \o <<>>
    BY <1>2, ConcatEmptySeq
  <2> QED BY <1>1, <1>2, <1>3, <1>4, <2>1, <2>2, <2>3 DEF ResponseMoved
<1>6. RequestMoved
  BY <1>0, RequestIdle DEF Proxy_cb_Write
<1>7. EventsFollow
  <2>1. /\ open' = w.ok
        /\ proxyWriter' = (w.ok /\ w.writer)
        /\ backendWriter' = (w.ok /\ backendWriter)
    BY <1>1 DEF Events
  <2>2. /\ open' \in BOOLEAN /\ proxyWriter' \in BOOLEAN /\ backendWriter' \in BOOLEAN
        /\ ~open' => ~proxyWriter' /\ ~backendWriter'
    BY <1>2, <1>3, <2>1
  <2>3. /\ first_response \in BOOLEAN /\ client \in Peer /\ backend \in Peer
        /\ reqRead \in Nat /\ respRead \in Nat
    BY <1>0 DEF TypeOK
  <2>4. open' => /\ client' # "reset" => proxyWriter' = (response_out' # <<>>)
                 /\ proxyWriter' => response_out' # <<>>
                 /\ backendWriter' = (request_out' # <<>>)
    BY <1>1, <1>2, <1>3, <1>4, <2>1
  <2> QED BY <1>4, <2>2, <2>3, <2>4 DEF EventsFollow
<1> QED BY <1>0, <1>5, <1>6, <1>7 DEF Moved

\* The ends and closures of the peers move no byte.
LEMMA EndsMove ==
  ASSUME Inv, Proxy_cb_Closed \/ Backend_cb_Closed \/ ClientEnds \/ BackendEnds
  PROVE  Moved
<1>0. open /\ TypeOK /\ UNCHANGED <<requestSide, responseSide, first_response>>
  BY DEF Proxy_cb_Closed, Backend_cb_Closed, ClientEnds, BackendEnds, Inv
<1>1. RequestMoved /\ ResponseMoved
  BY <1>0, RequestIdle, ResponseIdle
<1>2. /\ request_out' = request_out /\ response_out' = response_out
      /\ reqRead' = reqRead /\ respRead' = respRead
      /\ first_response' = first_response
  BY <1>0 DEF requestSide, responseSide
<1>3. /\ backendWriter = (request_out # <<>>)
      /\ ClientArmed(response_out, proxyWriter)
      /\ first_response \in BOOLEAN /\ client \in Peer /\ backend \in Peer
      /\ reqRead \in Nat /\ respRead \in Nat
      /\ proxyWriter \in BOOLEAN /\ backendWriter \in BOOLEAN
  BY <1>0, OpenInv DEF TypeOK
<1>4. CASE Proxy_cb_Closed \/ Backend_cb_Closed
  <2>1. /\ open' = FALSE /\ proxyWriter' = FALSE /\ backendWriter' = FALSE
        /\ client' = client /\ backend' = backend
    BY <1>4 DEF Proxy_cb_Closed, Backend_cb_Closed, CloseConnection, Events, peers
  <2> QED BY <1>0, <1>1, <1>2, <1>3, <2>1 DEF Moved, EventsFollow
<1>5. CASE ClientEnds \/ BackendEnds
  <2>1. /\ open' = open /\ proxyWriter' = proxyWriter
        /\ backendWriter' = backendWriter
        /\ client' \in Peer /\ backend' \in Peer
        /\ client' # "reset" => client # "reset"
    BY <1>3, <1>5 DEF ClientEnds, BackendEnds, writers, Peer
  <2> QED BY <1>0, <1>1, <1>2, <1>3, <2>1 DEF Moved, EventsFollow, ClientArmed
<1> QED BY <1>4, <1>5

\* Reading from the client moves bytes along the request stream, and the
\* proxy's answers along the response stream.
LEMMA ProxyRead ==
  ASSUME Inv, NEW k, Proxy_cb_Read(k)
  PROVE  Moved
<1> DEFINE chunk == Chunk(reqRead, k)
           in == request_in \o chunk
<1>0. /\ open /\ TypeOK
      /\ ReqBound - reqRead \in Int
      /\ k \in ReadSizes(ReqBound - reqRead)
  BY RelayAssumption DEF Proxy_cb_Read, Inv, TypeOK
<1>1. k \in Nat /\ chunk \in Seq(Byte) /\ chunk # <<>>
  BY <1>0, ChunkRead DEF TypeOK
<1>2. PICK p \in ParseRequest(in) :
      \E a \in AnswerClient(p.replies) :
      \E f \in IF p.ok /\ a.ok THEN Forward(p.request) ELSE {Abandoned} :
       /\ request_in' = p.left
       /\ reqLog' = Due(in, p)
       /\ response_in' = a.in
       /\ response_out' = a.out
       /\ clientGot' = clientGot \o a.sent
       /\ respLog' = respLog \o Replies(p.replies)
       /\ request_out' = f.out
       /\ backendGot' = backendGot \o f.sent
       /\ Events(f.ok, a.writer, f.writer)
       /\ IF p.replies > 0 /\ response_in # <<>>
          THEN SeenResponse ELSE UNCHANGED first_response
  BY DEF Proxy_cb_Read
<1>3. PICK a \in AnswerClient(p.replies) :
      \E f \in IF p.ok /\ a.ok THEN Forward(p.request) ELSE {Abandoned} :
       /\ request_in' = p.left
       /\ reqLog' = Due(in, p)
       /\ response_in' = a.in
       /\ response_out' = a.out
       /\ clientGot' = clientGot \o a.sent
       /\ respLog' = respLog \o Replies(p.replies)
       /\ request_out' = f.out
       /\ backendGot' = backendGot \o f.sent
       /\ Events(f.ok, a.writer, f.writer)
       /\ IF p.replies > 0 /\ response_in # <<>>
          THEN SeenResponse ELSE UNCHANGED first_response
  BY <1>2
<1>4. PICK f \in IF p.ok /\ a.ok THEN Forward(p.request) ELSE {Abandoned} :
       /\ request_in' = p.left
       /\ reqLog' = Due(in, p)
       /\ response_in' = a.in
       /\ response_out' = a.out
       /\ clientGot' = clientGot \o a.sent
       /\ respLog' = respLog \o Replies(p.replies)
       /\ request_out' = f.out
       /\ backendGot' = backendGot \o f.sent
       /\ Events(f.ok, a.writer, f.writer)
       /\ IF p.replies > 0 /\ response_in # <<>>
          THEN SeenResponse ELSE UNCHANGED first_response
  BY <1>3
<1>5. /\ request_in \in Seq(Byte) /\ request_out \in Seq(Byte)
      /\ response_in \in Seq(Byte) /\ response_out \in Seq(Byte)
      /\ backendGot \in Seq(Byte) /\ clientGot \in Seq(Byte)
      /\ reqLog \in Seq(Byte) /\ respLog \in Seq(Byte)
      /\ clientGot \o (response_out \o response_in) = respLog
      /\ ClientArmed(response_out, proxyWriter)
      /\ backendWriter = (request_out # <<>>)
      /\ in \in Seq(Byte) /\ <<>> \in Seq(Byte)
  BY <1>0, <1>1, OpenInv, EmptySeq, ConcatProperties DEF TypeOK
<1>6. /\ p.ok \in BOOLEAN /\ p.replies \in Nat
      /\ p.left \in Seq(Byte) /\ p.request \in Seq(Byte)
  BY <1>5, Parsed
<1>7. /\ a.ok \in BOOLEAN /\ a.writer \in BOOLEAN
      /\ a.in \in Seq(Byte) /\ a.out \in Seq(Byte) /\ a.sent \in Seq(Byte)
      /\ a.sent \o (a.out \o a.in)
           = (response_out \o response_in) \o Replies(p.replies)
      /\ a.ok => ClientArmed(a.out, a.writer)
  BY <1>0, <1>5, <1>6, Answer
<1>8. /\ Due(in, p) \in Seq(Byte)
      /\ p.ok => Due(in, p) = (backendGot \o request_out) \o (p.request \o p.left)
      /\ \E rest \in Seq(Byte) : Due(in, p) = (backendGot \o request_out) \o rest
      /\ \/ \E extra \in Seq(Byte) : Due(in, p) = reqLog \o extra
         \/ \E extra \in Seq(Byte) : reqLog = Due(in, p) \o extra
  BY <1>0, <1>1, DueInOrder
<1> HIDE DEF in, chunk
<1>9. /\ f.ok \in BOOLEAN /\ f.writer \in BOOLEAN
      /\ f.out \in Seq(Byte) /\ f.sent \in Seq(Byte)
      /\ f.ok => p.ok /\ a.ok
      /\ f.ok => f.writer = (f.out # <<>>)
      /\ \/ f.sent \o f.out = request_out \o p.request /\ p.ok
         \/ f.sent = <<>> /\ f.out = request_out /\ ~f.ok
  <2>1. CASE p.ok /\ a.ok
    BY <1>0, <1>4, <1>5, <1>6, <2>1, Forwarding
  <2>2. CASE ~(p.ok /\ a.ok)
    <3>1. f = Abandoned
      BY <1>4, <2>2
    <3>2. /\ f.ok = FALSE /\ f.writer = FALSE
          /\ f.sent = <<>> /\ f.out = request_out
      BY <3>1 DEF Abandoned
    <3> QED BY ONLY <1>5, <3>2
  <2> QED BY <2>1, <2>2
<1>10. ResponseMoved
  <2> DEFINE extra == Replies(p.replies)
  <2>1. extra \in Seq(Byte)
    BY <1>6, Generated
  <2>2. /\ a.out \o a.in \in Seq(Byte) /\ respLog \o extra \in Seq(Byte)
        /\ clientGot \o a.sent \in Seq(Byte)
    BY <1>5, <1>7, <2>1, ConcatProperties
  <2>3. (clientGot \o a.sent) \o (a.out \o a.in)
          = (clientGot \o (response_out \o response_in)) \o extra
    <3>1. /\ clientGot \in Seq(Byte) /\ response_out \in Seq(Byte)
          /\ response_in \in Seq(Byte) /\ extra \in Seq(Byte)
          /\ a.sent \in Seq(Byte) /\ Cat(a.out, a.in) \in Seq(Byte)
      BY <1>5, <1>7, <2>1, <2>2 DEF Cat
    <3>2. Cat(a.sent, Cat(a.out, a.in)) = Cat(Cat(response_out, response_in), extra)
      BY <1>7 DEF Cat
    <3> HIDE DEF extra
    <3>3. Cat(Cat(clientGot, a.sent), Cat(a.out, a.in))
            = Cat(Cat(clientGot, Cat(response_out, response_in)), extra)
      BY ONLY <3>1, <3>2, Moves
    <3> QED BY <3>3 DEF Cat
  <2>4. respLog' = respLog \o extra
    BY <1>4
  <2> HIDE DEF extra
  <2>5. clientGot' \o (response_out' \o response_in') = respLog'
    BY <1>4, <1>5, <2>3, <2>4
  <2> QED BY <1>4, <1>5, <1>7, <2>1, <2>2, <2>4, <2>5 DEF ResponseMoved
<1>11. RequestMoved
  <2>1. /\ request_in' = p.left /\ request_out' = f.out
        /\ reqLog' = Due(in, p) /\ backendGot' = backendGot \o f.sent
        /\ open' = f.ok
    BY <1>4 DEF Events
  <2>2. /\ f.out \o p.left \in Seq(Byte) /\ backendGot \o f.sent \in Seq(Byte)
        /\ p.request \o p.left \in Seq(Byte)
    BY <1>5, <1>6, <1>9, ConcatProperties
  <2>3. CASE f.sent \o f.out = request_out \o p.request /\ p.ok
    <3>1. (backendGot \o f.sent) \o (f.out \o p.left)
            = (backendGot \o request_out) \o (p.request \o p.left)
      <4>1. /\ Cat(f.sent, f.out) = Cat(request_out, p.request)
            /\ backendGot \in Seq(Byte) /\ request_out \in Seq(Byte)
            /\ f.sent \in Seq(Byte) /\ f.out \in Seq(Byte)
            /\ p.request \in Seq(Byte) /\ p.left \in Seq(Byte)
        BY <1>5, <1>6, <1>9, <2>3 DEF Cat
      <4>2. Cat(Cat(backendGot, f.sent), Cat(f.out, p.left))
              = Cat(Cat(backendGot, request_out), Cat(p.request, p.left))
        <5>1. Cat(Cat(backendGot, f.sent), Cat(f.out, p.left))
                = Cat(backendGot, Cat(Cat(f.sent, f.out), p.left))
          BY ONLY <4>1, Rejoin
        <5>2. Cat(Cat(backendGot, request_out), Cat(p.request, p.left))
                = Cat(backendGot, Cat(Cat(request_out, p.request), p.left))
          BY ONLY <4>1, Rejoin
        <5> QED BY ONLY <4>1, <5>1, <5>2
      <4> QED BY <4>2 DEF Cat
    <3>2. Due(in, p) = (backendGot \o f.sent) \o (f.out \o p.left)
      BY <1>8, <2>3, <3>1
    <3> QED BY <1>6, <1>8, <1>9, <2>1, <2>2, <3>2 DEF RequestMoved
  <2>4. CASE f.sent = <<>> /\ f.out = request_out /\ ~f.ok
    <3>1. backendGot \o <<>> = backendGot
      BY <1>5, ConcatEmptySeq
    <3>2. \E rest \in Seq(Byte) : Due(in, p) = backendGot \o rest
      <4>1. PICK rest \in Seq(Byte) : Due(in, p) = (backendGot \o request_out) \o rest
        BY <1>8
      <4>2. /\ (backendGot \o request_out) \o rest = backendGot \o (request_out \o rest)
            /\ request_out \o rest \in Seq(Byte)
        <5>1. /\ backendGot \in Seq(Byte) /\ request_out \in Seq(Byte)
              /\ rest \in Seq(Byte)
          BY <1>5, <4>1
        <5>2. (backendGot \o request_out) \o rest = backendGot \o (request_out \o rest)
          BY ONLY <5>1, Assoc, Zenon
        <5> QED BY <5>1, <5>2, ConcatProperties
      <4> QED BY <4>1, <4>2
    <3> QED BY <1>5, <1>6, <1>8, <1>9, <2>1, <2>2, <2>4, <3>1, <3>2 DEF RequestMoved
  <2> QED BY <1>9, <2>3, <2>4
<1>12. EventsFollow
  <2>1. /\ open' = f.ok
        /\ proxyWriter' = (f.ok /\ a.writer)
        /\ backendWriter' = (f.ok /\ f.writer)
        /\ response_out' = a.out /\ request_out' = f.out
    BY <1>4 DEF Events
  <2>2. /\ first_response \in BOOLEAN /\ client \in Peer /\ backend \in Peer
        /\ reqRead + k \in Nat /\ respRead \in Nat
    BY <1>0, <1>1 DEF TypeOK
  <2>3. first_response' \in BOOLEAN
    <3>1. SeenResponse \/ UNCHANGED first_response
      BY <1>4
    <3> QED BY <2>2, <3>1 DEF SeenResponse
  <2>4. /\ client' = client /\ backend' = backend /\ respRead' = respRead
        /\ reqRead' = reqRead + k
    BY DEF Proxy_cb_Read, peers
  <2>5. /\ open' \in BOOLEAN /\ proxyWriter' \in BOOLEAN /\ backendWriter' \in BOOLEAN
        /\ ~open' => ~proxyWriter' /\ ~backendWriter'
    BY <1>7, <1>9, <2>1
  <2>6. open' => /\ client' # "reset" => proxyWriter' = (response_out' # <<>>)
                 /\ proxyWriter' => response_out' # <<>>
                 /\ backendWriter' = (request_out' # <<>>)
    BY <1>7, <1>9, <2>1, <2>4 DEF ClientArmed
  <2> QED BY <2>2, <2>3, <2>4, <2>5, <2>6 DEF EventsFollow
<1> QED BY <1>0, <1>10, <1>11, <1>12 DEF Moved

----------------------------------------------------------------------------
(* The theorems.                                                           *)

\* Every step of an open connection moves both streams on.
LEMMA NextMoves ==
  ASSUME Inv, Next
  PROVE  Moved
  BY ProxyRead, BackendRead, BackendWrites, ProxyWrites, EndsMove DEF Next

\* The class of a Connection never changes.
LEMMA ProtocolKept ==
  ASSUME Next
  PROVE  protocol' = protocol
  BY DEF Next, Proxy_cb_Read, Proxy_cb_Closed, Proxy_cb_Write, Backend_cb_Read,
         Backend_cb_Closed, Backend_cb_Write, ClientEnds, BackendEnds

\* The invariant holds of a new connection and is preserved by every step.
THEOREM Invariant == Spec => []Inv
<1>1. Init => Inv
  <2> SUFFICES ASSUME Init PROVE Inv
    OBVIOUS
  <2>1. <<>> \in Seq(Byte) /\ <<>> \o <<>> = <<>>
    BY EmptySeq, ConcatEmptySeq
  <2> QED BY <2>1 DEF Init, Inv, TypeOK, WriterArmed, NoEventAfterClose, NothingLost, Peer
<1>2. Inv /\ [Next]_vars => Inv'
  <2> SUFFICES ASSUME Inv, [Next]_vars PROVE Inv'
    OBVIOUS
  <2>1. CASE Next
    <3>1. protocol' \in Protocols
      BY <2>1, ProtocolKept DEF Inv, TypeOK
    <3> QED BY <2>1, <3>1, NextMoves, Combine DEF Moved
  <2>2. CASE UNCHANGED vars
    BY <2>2 DEF vars, writers, peers, requestSide, responseSide,
         Inv, TypeOK, WriterArmed, NoEventAfterClose, NothingLost
  <2> QED BY <2>1, <2>2
<1> QED BY <1>1, <1>2, PTL DEF Spec

\* Every variable keeps its type, whatever is read, parsed and sent.
THEOREM TypeCorrect == Spec => []TypeOK
<1>1. Inv => TypeOK
  BY DEF Inv
<1> QED BY <1>1, Invariant, PTL

\* Bytes never wait in an output buffer without the write event that sends
\* them, and no write event is held for an empty buffer.
THEOREM WritersArmed == Spec => []WriterArmed
<1>1. Inv => WriterArmed
  BY DEF Inv
<1> QED BY <1>1, Invariant, PTL

\* No event survives the Connection it would be delivered to.
THEOREM NoLateEvent == Spec => []NoEventAfterClose
<1>1. Inv => NoEventAfterClose
  BY DEF Inv
<1> QED BY <1>1, Invariant, PTL

\* Every byte due to a peer of an open connection is in its socket or in the
\* buffers on the way to it, in the order it came.
THEOREM NoByteLost == Spec => []NothingLost
<1>1. Inv => NothingLost
  BY DEF Inv
<1> QED BY <1>1, Invariant, PTL

----------------------------------------------------------------------------
(* Each direction implements the abstract pipe.                            *)

\* A sequence is a prefix of its extensions.
LEMMA Extended ==
  ASSUME NEW s \in Seq(Byte), NEW t \in Seq(Byte)
  PROVE  Requests!IsPrefix(s, s \o t) /\ Responses!IsPrefix(s, s \o t)
<1>1. Take(s \o t, Len(s)) = s
  BY CutConcat
<1>2. SubSeq(s, 1, Len(s)) = s
  BY SubSeqFull
<1>3. Len(s) <= Len(s \o t)
  BY LenProperties, ConcatProperties
<1> QED BY <1>1, <1>2, <1>3 DEF Take, Requests!IsPrefix, Responses!IsPrefix

\* The requests of a connection are a lossless pipe from the client to the
\* server, in which the proxy may take back what it has not sent.
THEOREM RequestPipe == Spec => RequestsArePipe
<1>1. Init => Requests!PipeInit
  BY DEF Init, Requests!PipeInit
<1>2. Inv /\ [Next]_vars => [Requests!Transfer]_Requests!pipeVars
  <2> SUFFICES ASSUME Inv, [Next]_vars PROVE [Requests!Transfer]_Requests!pipeVars
    OBVIOUS
  <2>1. CASE Next
    <3>1. open /\ RequestMoved /\ open' \in BOOLEAN
      BY <2>1, NextMoves DEF Moved, EventsFollow
    <3>2. /\ backendGot \in Seq(Byte) /\ reqLog \in Seq(Byte)
          /\ backendGot' \in Seq(Byte) /\ reqLog' \in Seq(Byte)
      BY <3>1 DEF Inv, TypeOK, RequestMoved
    <3>3. Requests!IsPrefix(backendGot, backendGot')
      BY <3>1, <3>2, Extended DEF RequestMoved
    <3>4. Requests!IsPrefix(backendGot', reqLog')
      BY <3>1, <3>2, Extended DEF RequestMoved
    <3>5. Requests!IsPrefix(reqLog, reqLog') \/ Requests!IsPrefix(reqLog', reqLog)
      BY <3>1, <3>2, Extended DEF RequestMoved
    <3> QED BY <3>1, <3>3, <3>4, <3>5
            DEF Requests!Transfer, Requests!Accept, Requests!TakeBack
  <2>2. CASE UNCHANGED vars
    BY <2>2 DEF vars, requestSide, Requests!pipeVars
  <2> QED BY <2>1, <2>2
<1> QED BY <1>1, <1>2, Invariant, PTL DEF Spec, RequestsArePipe, Requests!PipeSpec

\* The responses of a connection, the proxy's answers among them, are a
\* lossless pipe to the client.
THEOREM ResponsePipe == Spec => ResponsesArePipe
<1>1. Init => Responses!PipeInit
  BY DEF Init, Responses!PipeInit
<1>2. Inv /\ [Next]_vars => [Responses!Transfer]_Responses!pipeVars
  <2> SUFFICES ASSUME Inv, [Next]_vars PROVE [Responses!Transfer]_Responses!pipeVars
    OBVIOUS
  <2>1. CASE Next
    <3>1. open /\ ResponseMoved /\ open' \in BOOLEAN
      BY <2>1, NextMoves DEF Moved, EventsFollow
    <3>2. /\ clientGot \in Seq(Byte) /\ respLog \in Seq(Byte)
          /\ clientGot' \in Seq(Byte) /\ respLog' \in Seq(Byte)
          /\ response_out' \o response_in' \in Seq(Byte)
      BY <3>1, ConcatProperties DEF Inv, TypeOK, ResponseMoved
    <3>3. Responses!IsPrefix(clientGot, clientGot')
      BY <3>1, <3>2, Extended DEF ResponseMoved
    <3>4. Responses!IsPrefix(clientGot', respLog')
      BY <3>1, <3>2, Extended DEF ResponseMoved
    <3>5. Responses!IsPrefix(respLog, respLog')
      BY <3>1, <3>2, Extended DEF ResponseMoved
    <3> QED BY <3>1, <3>3, <3>4, <3>5 DEF Responses!Transfer, Responses!Accept
  <2>2. CASE UNCHANGED vars
    BY <2>2 DEF vars, responseSide, Responses!pipeVars
  <2> QED BY <2>1, <2>2
<1> QED BY <1>1, <1>2, Invariant, PTL DEF Spec, ResponsesArePipe, Responses!PipeSpec

----------------------------------------------------------------------------
(* Closing.                                                                *)

\* The proxy closes a connection only when a peer has ended or the PostgreSQL
\* parser refuses the login: no full socket and no incomplete packet does it.
THEOREM ClosesForCause == Spec => ClosedForCause
<1> DEFINE Cause == open /\ ~open' /\ client = "up" /\ backend = "up"
                      => protocol = "pgsql" /\ reqRead' > reqRead
<1>1. Inv /\ [Next]_vars => [Cause]_vars
  <2> SUFFICES ASSUME Inv, Next, open, ~open', client = "up", backend = "up"
               PROVE  protocol = "pgsql" /\ reqRead' > reqRead
    OBVIOUS
  <2>0. /\ TypeOK /\ ClientArmed(response_out, proxyWriter)
        /\ backendWriter = (request_out # <<>>)
        /\ client # "reset" /\ backend # "reset"
        /\ reqRead \in Nat /\ respRead \in Nat
        /\ ReqBound - reqRead \in Int /\ RespBound - respRead \in Int
        /\ request_in \in Seq(Byte) /\ request_out \in Seq(Byte)
        /\ response_in \in Seq(Byte) /\ response_out \in Seq(Byte)
        /\ proxyWriter \in BOOLEAN /\ backendWriter \in BOOLEAN
        /\ first_response \in BOOLEAN
    BY OpenInv, RelayAssumption DEF Inv, TypeOK
  <2>1. ASSUME NEW k, Proxy_cb_Read(k)
        PROVE  protocol = "pgsql" /\ reqRead' > reqRead
    <3> DEFINE in == request_in \o Chunk(reqRead, k)
    <3>1. k \in Nat /\ k > 0 /\ reqRead' = reqRead + k
      BY <2>0, <2>1, ChunkRead DEF Proxy_cb_Read
    <3>2. in \in Seq(Byte)
      BY <2>0, <3>1, Generated, ConcatProperties
    <3>3. PICK p \in ParseRequest(in) :
            \E a \in AnswerClient(p.replies) :
            \E f \in IF p.ok /\ a.ok THEN Forward(p.request) ELSE {Abandoned} :
              open' = f.ok
      BY <2>1 DEF Proxy_cb_Read, Events
    <3>a. PICK a \in AnswerClient(p.replies) :
            \E f \in IF p.ok /\ a.ok THEN Forward(p.request) ELSE {Abandoned} :
              open' = f.ok
      BY <3>3
    <3> HIDE DEF in
    <3>4. /\ p.ok \in BOOLEAN /\ p.replies \in Nat /\ p.request \in Seq(Byte)
          /\ ~p.ok => protocol = "pgsql"
      BY <3>2, Parsed
    <3>5. a.ok \in BOOLEAN /\ (~a.ok => client = "reset")
      BY <2>0, <3>4, Answer
    <3>6. ~p.ok
      <4> SUFFICES ASSUME p.ok PROVE FALSE
        OBVIOUS
      <4>1. PICK f \in Forward(p.request) : open' = f.ok
        BY <2>0, <3>a, <3>5
      <4>2. ~f.ok => backend = "reset"
        BY <2>0, <3>4, Forwarding
      <4> QED BY <2>0, <4>1, <4>2
    <3> QED BY <2>0, <3>1, <3>4, <3>6
  <2>2. ASSUME NEW k, Backend_cb_Read(k)
        PROVE  FALSE
    <3> DEFINE in == response_in \o Chunk(respRead, k)
    <3>1. k \in Nat
      BY <2>0, <2>2, ChunkRead DEF Backend_cb_Read
    <3>2. in \in Seq(Byte)
      BY <2>0, <3>1, Generated, ConcatProperties
    <3>3. PICK v \in ProxyValidateServerResponse(in, response_out) : open' = v.ok
      BY <2>2 DEF Backend_cb_Read, Events
    <3> HIDE DEF in
    <3>4. ~v.ok => client = "reset"
      BY <2>0, <3>2, Validate
    <3> QED BY <2>0, <3>3, <3>4
  <2>3. ASSUME Proxy_cb_Write
        PROVE  FALSE
    <3>1. PICK w \in Proxy_write_cb(response_out) : open' = w.ok
      BY <2>3 DEF Proxy_cb_Write, Events
    <3>2. ~w.ok => client = "reset"
      BY <2>0, ProxyWrite
    <3> QED BY <2>0, <3>1, <3>2
  <2>4. ASSUME Backend_cb_Write
        PROVE  FALSE
    <3>1. PICK w \in Backend_write_cb(request_out) : open' = w.ok
      BY <2>4 DEF Backend_cb_Write, Events
    <3>2. ~w.ok => backend = "reset"
      BY <2>0, BackendWrite
    <3> QED BY <2>0, <3>1, <3>2
  <2>5. ~Proxy_cb_Closed /\ ~Backend_cb_Closed
    BY DEF Proxy_cb_Closed, Backend_cb_Closed
  <2>6. ~ClientEnds /\ ~BackendEnds
    BY DEF ClientEnds, BackendEnds
  <2> QED BY <2>1, <2>2, <2>3, <2>4, <2>5, <2>6 DEF Next
<1> QED BY <1>1, Invariant, PTL DEF Spec, ClosedForCause

----------------------------------------------------------------------------
(* The order of the streams.                                               *)

\* A log that holds bytes of the first n a peer has sent, in their order, and
\* one that holds all of them.
Ordered(log, n) == InOrder(log) /\ \A i \in DOMAIN log : log[i] <= n
Complete(log, n) == \A v \in 1..n : \E i \in DOMAIN log : log[i] = v

\* The values of a chunk and of replies.
LEMMA GeneratedValues ==
  ASSUME NEW n \in Nat, NEW k \in Nat
  PROVE  /\ Len(Chunk(n, k)) = k /\ \A i \in 1..k : Chunk(n, k)[i] = n + i
         /\ Len(Replies(k)) = k /\ \A i \in 1..k : Replies(k)[i] = Reply
<1>1. Chunk(n, k) \in Seq(Byte) /\ Replies(k) \in Seq(Byte)
  BY Generated
<1>2. /\ DOMAIN Chunk(n, k) = 1..k /\ \A i \in 1..k : Chunk(n, k)[i] = n + i
      /\ DOMAIN Replies(k) = 1..k /\ \A i \in 1..k : Replies(k)[i] = Reply
  BY DEF Chunk, Replies
<1>3. \A s \in Seq(Byte) : DOMAIN s = 1..k => Len(s) = k
  BY LenProperties
<1> QED BY <1>1, <1>2, <1>3

\* A concatenation, index by index.
LEMMA Indices ==
  ASSUME NEW s \in Seq(Byte), NEW t \in Seq(Byte)
  PROVE  /\ s \o t \in Seq(Byte) /\ Len(s) \in Nat /\ Len(t) \in Nat
         /\ DOMAIN s = 1..Len(s) /\ DOMAIN (s \o t) = 1..Len(s) + Len(t)
         /\ \A i \in 1..Len(s) : s[i] \in Nat /\ (s \o t)[i] = s[i]
         /\ \A i \in 1..Len(t) : (s \o t)[Len(s) + i] = t[i]
         /\ \A i \in 1..Len(s) + Len(t) :
              i \notin 1..Len(s) => \E j \in 1..Len(t) : i = Len(s) + j
<1>1. /\ s \o t \in Seq(Byte) /\ Len(s) \in Nat /\ Len(t) \in Nat
      /\ Len(s \o t) = Len(s) + Len(t)
      /\ \A i \in 1..Len(s) + Len(t) :
           (s \o t)[i] = IF i <= Len(s) THEN s[i] ELSE t[i - Len(s)]
  BY ConcatProperties, LenProperties
<1>2. DOMAIN s = 1..Len(s) /\ DOMAIN (s \o t) = 1..Len(s \o t)
  BY <1>1, LenProperties
<1>3. \A i \in 1..Len(s) : s[i] \in Nat
  BY ElementOfSeq DEF Byte
<1>4. \A i \in 1..Len(s) : (s \o t)[i] = s[i]
  BY <1>1
<1>5. ASSUME NEW i \in 1..Len(t)
      PROVE  (s \o t)[Len(s) + i] = t[i]
  <2>1. /\ Len(s) + i \in 1..Len(s) + Len(t) /\ ~(Len(s) + i <= Len(s))
        /\ Len(s) + i - Len(s) = i
    BY <1>1
  <2> QED BY <1>1, <2>1
<1>6. ASSUME NEW i \in 1..Len(s) + Len(t), i \notin 1..Len(s)
      PROVE  \E j \in 1..Len(t) : i = Len(s) + j
  <2>1. i - Len(s) \in 1..Len(t) /\ i = Len(s) + (i - Len(s))
    BY <1>1, <1>6
  <2> QED BY <2>1
<1> QED BY <1>1, <1>2, <1>3, <1>4, <1>5, <1>6

\* A read puts the next k bytes behind a log, and keeps it ordered.
LEMMA ReadKeepsOrder ==
  ASSUME NEW log \in Seq(Byte), NEW n \in Nat, NEW k \in Nat, Ordered(log, n)
  PROVE  LET new == log \o Chunk(n, k) IN
         /\ Ordered(new, n + k)
         /\ NoReply(log) => NoReply(new)
         /\ Complete(log, n) => Complete(new, n + k)
<1> DEFINE new == log \o Chunk(n, k)
<1>1. /\ Chunk(n, k) \in Seq(Byte) /\ Len(Chunk(n, k)) = k
      /\ \A i \in 1..k : Chunk(n, k)[i] = n + i
  BY Generated, GeneratedValues
<1>2. /\ Len(log) \in Nat
      /\ DOMAIN log = 1..Len(log) /\ DOMAIN new = 1..Len(log) + k
      /\ \A i \in 1..Len(log) : log[i] \in Nat /\ new[i] = log[i]
  BY <1>1, Indices
<1>3. \A i \in 1..k : new[Len(log) + i] = n + i
  BY <1>1, Indices
<1>4. \A i \in DOMAIN new : \/ i \in 1..Len(log)
                            \/ \E j \in 1..k : i = Len(log) + j
  <2> HIDE DEF new
  <2> TAKE i \in DOMAIN new
  <2>1. CASE i \notin 1..Len(log)
    <3>1. i - Len(log) \in 1..k /\ i = Len(log) + (i - Len(log))
      BY <1>2, <2>1
    <3> QED BY <3>1
  <2> QED BY <2>1
<1>a. \A i \in 1..Len(log) : log[i] <= n
  BY <1>2 DEF Ordered
<1> HIDE DEF new
<1>5. \A i \in DOMAIN new : new[i] <= n + k
  <2> TAKE i \in DOMAIN new
  <2>1. CASE i \in 1..Len(log)
    BY <1>2, <1>a, <2>1
  <2>2. ASSUME NEW j \in 1..k, i = Len(log) + j
        PROVE  new[i] <= n + k
    BY <1>3, <2>2
  <2> QED BY <1>4, <2>1, <2>2
<1>6. InOrder(new)
  <2> SUFFICES ASSUME NEW i \in DOMAIN new, NEW j \in DOMAIN new,
                      i < j, new[j] # Reply
               PROVE  new[i] < new[j]
    BY DEF InOrder
  <2>1. CASE j \in 1..Len(log)
    <3>1. i \in 1..Len(log)
      BY <1>2, <2>1
    <3> QED BY <1>2, <1>3, <2>1, <3>1 DEF Ordered, InOrder
  <2>2. ASSUME NEW b \in 1..k, j = Len(log) + b, i \in 1..Len(log)
        PROVE  new[i] < new[j]
    <3>1. new[i] \in Nat /\ new[i] <= n /\ new[j] = n + b
      BY <1>2, <1>3, <1>a, <2>2
    <3> QED BY <3>1
  <2>3. ASSUME NEW b \in 1..k, j = Len(log) + b, NEW a \in 1..k, i = Len(log) + a
        PROVE  new[i] < new[j]
    <3>1. a < b
      BY <1>2, <2>3
    <3>2. new[i] = n + a /\ new[j] = n + b
      BY <1>3, <2>3
    <3> QED BY <3>1, <3>2
  <2>4. CASE i \notin 1..Len(log) /\ j \notin 1..Len(log)
    <3>1. PICK a \in 1..k : i = Len(log) + a
      BY <1>4, <2>4
    <3>2. PICK b \in 1..k : j = Len(log) + b
      BY <1>4, <2>4
    <3> QED BY <2>3, <3>1, <3>2
  <2> QED BY <1>4, <2>1, <2>2, <2>4
<1>7. NoReply(log) => NoReply(new)
  <2> SUFFICES ASSUME NoReply(log), NEW i \in DOMAIN new PROVE new[i] # Reply
    BY DEF NoReply
  <2>1. CASE i \in 1..Len(log)
    BY <1>2, <2>1 DEF NoReply
  <2>2. ASSUME NEW j \in 1..k, i = Len(log) + j
        PROVE  new[i] # Reply
    BY <1>3, <2>2 DEF Reply
  <2> QED BY <1>4, <2>1, <2>2
<1>8. Complete(log, n) => Complete(new, n + k)
  <2> SUFFICES ASSUME Complete(log, n), NEW v \in 1..n + k
               PROVE  \E i \in DOMAIN new : new[i] = v
    BY DEF Complete
  <2>1. CASE v <= n
    <3>1. PICK i \in DOMAIN log : log[i] = v
      BY <2>1 DEF Complete
    <3> QED BY <1>2, <1>3, <3>1
  <2>2. CASE v > n
    <3>1. v - n \in 1..k /\ n + (v - n) = v
      BY <2>2
    <3>2. new[Len(log) + (v - n)] = v
      BY <1>3, <3>1
    <3>3. Len(log) + (v - n) \in DOMAIN new
      BY <1>2, <3>1
    <3> QED BY <3>2, <3>3
  <2> QED BY <2>1, <2>2
<1> QED BY <1>5, <1>6, <1>7, <1>8 DEF new, Ordered

\* Answers of the proxy behind a log leave it ordered.
LEMMA RepliesKeepOrder ==
  ASSUME NEW log \in Seq(Byte), NEW n \in Nat, NEW r \in Nat, Ordered(log, n)
  PROVE  LET new == log \o Replies(r) IN
         /\ Ordered(new, n)
         /\ Complete(log, n) => Complete(new, n)
<1> DEFINE new == log \o Replies(r)
<1>1. /\ Replies(r) \in Seq(Byte) /\ Len(Replies(r)) = r
      /\ \A i \in 1..r : Replies(r)[i] = Reply
  BY Generated, GeneratedValues
<1>2. /\ Len(log) \in Nat
      /\ DOMAIN log = 1..Len(log) /\ DOMAIN new = 1..Len(log) + r
      /\ \A i \in 1..Len(log) : log[i] \in Nat /\ new[i] = log[i]
  BY <1>1, Indices
<1>3. \A i \in DOMAIN new : i \in 1..Len(log) \/ new[i] = Reply
  <2> TAKE i \in DOMAIN new
  <2>1. CASE i \notin 1..Len(log)
    <3> DEFINE j == i - Len(log)
    <3>1. j \in 1..r /\ i = Len(log) + j
      <4> HIDE DEF new
      <4> QED BY <1>2, <2>1
    <3> HIDE DEF j
    <3>2. new[Len(log) + j] = Replies(r)[j]
      BY <1>1, <3>1, Indices
    <3> QED BY <1>1, <3>1, <3>2
  <2> QED BY <2>1
<1> HIDE DEF new
<1>4. \A i \in DOMAIN new : new[i] <= n
  BY <1>2, <1>3 DEF Ordered, Reply
<1>5. InOrder(new)
  <2> SUFFICES ASSUME NEW i \in DOMAIN new, NEW j \in DOMAIN new,
                      i < j, new[j] # Reply
               PROVE  new[i] < new[j]
    BY DEF InOrder
  <2>1. j \in 1..Len(log) /\ i \in 1..Len(log)
    BY <1>2, <1>3
  <2> QED BY <1>2, <1>3, <2>1 DEF Ordered, InOrder
<1>6. Complete(log, n) => Complete(new, n)
  <2> SUFFICES ASSUME Complete(log, n), NEW v \in 1..n
               PROVE  \E i \in DOMAIN new : new[i] = v
    BY DEF Complete
  <2>1. PICK i \in DOMAIN log : log[i] = v
    BY DEF Complete
  <2> QED BY <1>2, <2>1
<1> QED BY <1>4, <1>5, <1>6 DEF new, Ordered

\* What holds of a log holds of what has been sent of it; of a complete log
\* nothing is sent before the byte that precedes it.
LEMMA PrefixKeepsOrder ==
  ASSUME NEW got \in Seq(Byte), NEW rest \in Seq(Byte), NEW n \in Nat,
         Ordered(got \o rest, n)
  PROVE  /\ Ordered(got, n)
         /\ NoReply(got \o rest) => NoReply(got)
         /\ Complete(got \o rest, n) => NoGap(got)
<1> DEFINE log == got \o rest
<1>1. /\ log \in Seq(Byte) /\ Len(got) \in Nat /\ Len(rest) \in Nat
      /\ DOMAIN got = 1..Len(got) /\ DOMAIN log = 1..Len(got) + Len(rest)
      /\ \A i \in DOMAIN got : i \in DOMAIN log /\ log[i] = got[i]
  BY Indices
<1>2. \A i \in DOMAIN log : log[i] \in Nat /\ log[i] <= n
  <2>1. \A i \in DOMAIN log : log[i] \in Nat
    BY <1>1, LenProperties, ElementOfSeq DEF Byte
  <2> QED BY <2>1 DEF Ordered
<1>3. InOrder(log)
  BY DEF Ordered
<1> HIDE DEF log
<1>4. Ordered(got, n)
  <2>1. InOrder(got)
    BY <1>1, <1>3 DEF InOrder
  <2> QED BY <1>1, <1>2, <2>1 DEF Ordered
<1>5. NoReply(log) => NoReply(got)
  BY <1>1 DEF NoReply
<1>6. Complete(log, n) => NoGap(got)
  <2> SUFFICES ASSUME Complete(log, n), NEW i \in DOMAIN got, got[i] > 1
               PROVE  \E j \in DOMAIN got : got[j] = got[i] - 1
    BY DEF NoGap
  <2>1. i \in DOMAIN log /\ log[i] = got[i] /\ got[i] - 1 \in 1..n
    BY <1>1, <1>2
  <2>2. PICK j \in DOMAIN log : log[j] = got[i] - 1
    BY <2>1 DEF Complete
  <2>3. ~ i < j
    <3> SUFFICES ASSUME i < j PROVE FALSE
      OBVIOUS
    <3>1. log[j] # Reply
      BY <2>1, <2>2 DEF Reply
    <3>2. log[i] < log[j]
      BY <1>3, <2>1, <3>1 DEF InOrder
    <3> QED BY <1>2, <2>1, <2>2, <3>2
  <2>4. j \in DOMAIN got
    BY <1>1, <2>3
  <2> QED BY <1>1, <2>2, <2>4
<1> QED BY <1>4, <1>5, <1>6 DEF log

\* The two logs hold the bytes read in their order, all of them but for input
\* that PostgreSQL's parser discards, and what was sent is a prefix of them.
LogsInv ==
  /\ Ordered(reqLog, reqRead) /\ NoReply(reqLog)
  /\ protocol = "mysql" => Complete(reqLog, reqRead)
  /\ Ordered(respLog, respRead) /\ Complete(respLog, respRead)
  /\ \E rest \in Seq(Byte) : reqLog = backendGot \o rest
  /\ \E rest \in Seq(Byte) : respLog = clientGot \o rest

\* Logs that are in order deliver streams that are.
LEMMA LogsGiveStreams ==
  ASSUME TypeOK, LogsInv
  PROVE  StreamsInOrder
<1>1. PICK rest \in Seq(Byte) : reqLog = backendGot \o rest
  BY DEF LogsInv
<1>2. PICK more \in Seq(Byte) : respLog = clientGot \o more
  BY DEF LogsInv
<1>3. /\ backendGot \in Seq(Byte) /\ clientGot \in Seq(Byte)
      /\ reqRead \in Nat /\ respRead \in Nat
  BY DEF TypeOK
<1>4. /\ Ordered(backendGot, reqRead) /\ NoReply(backendGot)
      /\ protocol = "mysql" => NoGap(backendGot)
  BY <1>1, <1>3, PrefixKeepsOrder DEF LogsInv
<1>5. Ordered(clientGot, respRead) /\ NoGap(clientGot)
  BY <1>2, <1>3, PrefixKeepsOrder DEF LogsInv
<1> QED BY <1>4, <1>5 DEF StreamsInOrder, Ordered

\* A step that reads from neither peer leaves the logs alone.
LEMMA LogsIdle ==
  ASSUME Inv, LogsInv, Next,
         UNCHANGED <<protocol, reqLog, reqRead, respLog, respRead>>
  PROVE  LogsInv'
<1>1. Moved
  BY NextMoves
<1>2. \E rest \in Seq(Byte) : reqLog' = backendGot' \o rest
  BY <1>1 DEF Moved, RequestMoved
<1>3. \E rest \in Seq(Byte) : respLog' = clientGot' \o rest
  BY <1>1, ConcatProperties DEF Moved, ResponseMoved
<1>4. /\ reqLog' = reqLog /\ reqRead' = reqRead /\ protocol' = protocol
      /\ respLog' = respLog /\ respRead' = respRead
  OBVIOUS
<1> QED BY <1>2, <1>3, <1>4 DEF LogsInv, Ordered, Complete, InOrder, NoReply

\* Each peer is given the other's stream in order, without gap or repetition,
\* only discarded input missing and only the proxy's answers added.
THEOREM StreamsStayInOrder == Spec => []StreamsInOrder
<1>1. Init => LogsInv
  <2> SUFFICES ASSUME Init PROVE LogsInv
    OBVIOUS
  <2>1. /\ <<>> \in Seq(Byte) /\ <<>> \o <<>> = <<>>
        /\ DOMAIN <<>> = {}
    BY EmptySeq, ConcatEmptySeq
  <2>2. 1..0 = {}
    OBVIOUS
  <2> QED BY <2>1, <2>2 DEF Init, LogsInv, Ordered, InOrder, NoReply, Complete
<1>2. Inv /\ LogsInv /\ [Next]_vars => LogsInv'
  <2> SUFFICES ASSUME Inv, LogsInv, [Next]_vars PROVE LogsInv'
    OBVIOUS
  <2>0. /\ reqLog \in Seq(Byte) /\ respLog \in Seq(Byte)
        /\ reqRead \in Nat /\ respRead \in Nat
        /\ request_in \in Seq(Byte)
        /\ ReqBound - reqRead \in Int /\ RespBound - respRead \in Int
    BY RelayAssumption DEF Inv, TypeOK
  <2>1. ASSUME NEW k, Proxy_cb_Read(k)
        PROVE  LogsInv'
    <3> DEFINE chunk == Chunk(reqRead, k)
    <3>1. /\ k \in Nat /\ chunk \in Seq(Byte) /\ chunk # <<>>
          /\ open /\ reqRead' = reqRead + k
          /\ respRead' = respRead /\ protocol' = protocol
      BY <2>0, <2>1, ChunkRead DEF Proxy_cb_Read
    <3>2. PICK p \in ParseRequest(request_in \o chunk) :
            /\ reqLog' = Due(request_in \o chunk, p)
            /\ respLog' = respLog \o Replies(p.replies)
      BY <2>1 DEF Proxy_cb_Read
    <3>3. p.replies \in Nat
      BY <2>0, <3>1, Parsed, ConcatProperties
    <3>4. /\ Due(request_in \o chunk, p) \in Seq(Byte)
          /\ \/ Due(request_in \o chunk, p) = reqLog \o chunk
             \/ /\ reqLog = Due(request_in \o chunk, p) \o request_in
                /\ protocol = "pgsql"
      <4> HIDE DEF chunk
      <4> QED BY <3>1, DueInOrder
    <3>5. Ordered(respLog', respRead') /\ Complete(respLog', respRead')
      BY <2>0, <3>1, <3>2, <3>3, RepliesKeepOrder DEF LogsInv
    <3>6. /\ Ordered(reqLog', reqRead') /\ NoReply(reqLog')
          /\ protocol' = "mysql" => Complete(reqLog', reqRead')
      <4>1. CASE reqLog' = reqLog \o chunk
        BY <2>0, <3>1, <4>1, ReadKeepsOrder DEF LogsInv
      <4>2. CASE /\ reqLog = reqLog' \o request_in /\ reqLog' \in Seq(Byte)
                 /\ protocol = "pgsql"
        <5>1. Ordered(reqLog', reqRead) /\ NoReply(reqLog')
          BY <2>0, <4>2, PrefixKeepsOrder DEF LogsInv
        <5>2. \A i \in DOMAIN reqLog' : reqLog'[i] \in Nat
          BY <4>2, ElementOfSeq DEF Byte
        <5>3. Ordered(reqLog', reqRead')
          BY <2>0, <3>1, <5>1, <5>2 DEF Ordered
        <5> QED BY <3>1, <4>2, <5>1, <5>3
      <4> QED BY <3>2, <3>4, <4>1, <4>2
    <3>7. Moved
      BY <2>1, ProxyRead
    <3>8. /\ \E rest \in Seq(Byte) : reqLog' = backendGot' \o rest
          /\ \E rest \in Seq(Byte) : respLog' = clientGot' \o rest
      BY <3>7, ConcatProperties DEF Moved, RequestMoved, ResponseMoved
    <3> QED BY <3>5, <3>6, <3>8 DEF LogsInv
  <2>2. ASSUME NEW k, Backend_cb_Read(k)
        PROVE  LogsInv'
    <3>1. /\ k \in Nat /\ respRead' = respRead + k
          /\ respLog' = respLog \o Chunk(respRead, k)
          /\ reqRead' = reqRead /\ protocol' = protocol /\ reqLog' = reqLog
      BY <2>0, <2>2, ChunkRead DEF Backend_cb_Read, requestSide
    <3>2. Ordered(respLog', respRead') /\ Complete(respLog', respRead')
      BY <2>0, <3>1, ReadKeepsOrder DEF LogsInv
    <3>3. Moved
      BY <2>2, BackendRead
    <3>4. /\ \E rest \in Seq(Byte) : reqLog' = backendGot' \o rest
          /\ \E rest \in Seq(Byte) : respLog' = clientGot' \o rest
      BY <3>3, ConcatProperties DEF Moved, RequestMoved, ResponseMoved
    <3> QED BY <3>1, <3>2, <3>4 DEF LogsInv
  <2>3. CASE \/ Proxy_cb_Closed \/ Proxy_cb_Write \/ Backend_cb_Closed
             \/ Backend_cb_Write \/ ClientEnds \/ BackendEnds
    <3>1. UNCHANGED <<protocol, reqLog, reqRead, respLog, respRead>>
      BY <2>3 DEF Proxy_cb_Closed, Proxy_cb_Write, Backend_cb_Closed, Backend_cb_Write,
           ClientEnds, BackendEnds, requestSide, responseSide
    <3> QED BY <2>3, <3>1, LogsIdle DEF Next
  <2>4. CASE UNCHANGED vars
    BY <2>4 DEF vars, requestSide, responseSide, LogsInv, Ordered, Complete,
         InOrder, NoReply
  <2> QED BY <2>1, <2>2, <2>3, <2>4 DEF Next
<1>3. Inv /\ LogsInv => StreamsInOrder
  BY LogsGiveStreams DEF Inv
<1> QED BY <1>1, <1>2, <1>3, Invariant, PTL DEF Spec
=============================================================================
