------------------------- MODULE MySQLSessionProofs -------------------------
(***************************************************************************)
(* Proofs about MySQLSession, for all databases, all commands and every    *)
(* way of cutting the two streams into reads.                              *)
(***************************************************************************)
EXTENDS MySQLSession, PacketsProofs, FiniteSetTheorems

Packet == [kind : AllCommands \cup {"login"}, name : Name, size : Nat \ {0}]
Reply == {r \in [kind : {"greeting", "ok", "err", "row", "eof"}, size : Nat \ {0}] :
            r.kind \in {"ok", "err"} => r.size >= 7}
Forward == [kind : AllCommands \cup {"login"}, name : Name, settings : Settings,
            allowed : BOOLEAN, judged : Nat]

\* Packets and replies have sizes.
LEMMA Streams ==
  /\ \A ps \in Seq(Packet) : Stream(ps)
  /\ \A ps \in Seq(Reply) : Stream(ps)
<1>1. ASSUME NEW ps \in Seq(Packet) PROVE Stream(ps)
  <2>1. \A i \in 1..Len(ps) : ps[i] \in Packet
    BY ElementOfSeq
  <2>2. \A i \in 1..Len(ps) : ps[i].size \in Nat \ {0}
    BY <2>1 DEF Packet
  <2> QED BY <2>2, LenProperties DEF Stream
<1>2. ASSUME NEW ps \in Seq(Reply) PROVE Stream(ps)
  <2>1. \A i \in 1..Len(ps) : ps[i] \in Reply
    BY ElementOfSeq
  <2>2. \A i \in 1..Len(ps) : ps[i].size \in Nat \ {0}
    BY <2>1 DEF Reply
  <2> QED BY <2>2, LenProperties DEF Stream
<1> QED BY <1>1, <1>2

\* Every kind has a size.
LEMMA Sizes ==
  /\ \A kind : Size(kind) \in Nat \ {0}
  /\ Size("ok") = 11 /\ Size("err") = 20
<1>1. ASSUME NEW kind PROVE Size(kind) \in Nat \ {0}
  BY DEF Size
<1> QED BY <1>1 DEF Size

\* The settings found for a name are settings there are.
LEMMA Found ==
  \A name : dbmap_find(name) \in Settings
  BY DEF dbmap_find, Settings

----------------------------------------------------------------------------
(* What parseResponse releases.                                            *)

\* It finds so many packets that their bytes are there.
LEMMA CompleteDef ==
  ASSUME NEW ps, Stream(ps), NEW full \in Nat
  PROVE  Complete(ps, full) \in 0..Len(ps) /\ Bytes(ps, Complete(ps, full)) <= full
<1> DEFINE S == {n \in 0..Len(ps) : Bytes(ps, n) <= full
                                     /\ \A i \in 1..n - 1 : Bytes(ps, i) + 5 < full}
<1>1. S \in SUBSET (0..Len(ps)) /\ Len(ps) \in Nat
  BY DEF Stream
<1>2. 0 \in S
  <2>1. 1..0 - 1 = {}
    OBVIOUS
  <2> QED BY <1>1, <2>1, BytesDef
<1>3. Max(S) \in S
  <2> HIDE DEF S
  <2> QED BY <1>1, <1>2, Greatest
<1>4. Complete(ps, full) = Max(S)
  BY DEF Complete
<1> QED BY <1>3, <1>4

\* The connection stays one, and no more is released than is there.
LEMMA ParsedResponse ==
  ASSUME NEW c \in Connection, NEW ps \in Seq(Reply), NEW full \in Nat
  PROVE  /\ parseResponse(c, ps, full).conn \in Connection
         /\ parseResponse(c, ps, full).bytes \in 0..full
<1> DEFINE n == Complete(ps, full)
           parsed == [c EXCEPT !.StartResponse = FALSE]
           r == parseResponse(c, ps, full)
<1>1. Stream(ps)
  BY Streams
<1>2. n \in 0..Len(ps) /\ Bytes(ps, n) \in 0..full
  <2>1. n \in 0..Len(ps) /\ Bytes(ps, n) <= full
    BY <1>1, CompleteDef
  <2> HIDE DEF n
  <2> QED BY <1>1, <2>1, BytesDef
<1>3. parsed \in Connection
  BY DEF Connection
<1>4. ParseResponsePackets(parsed, SubSeq(ps, 1, n)) \in Connection
  <2>1. dbmap_find(parsed.db_new_name) \in Settings
    BY Found
  <2> HIDE DEF parsed, n
  <2> QED BY <1>3, <2>1 DEF ParseResponsePackets, Connection
<1>5. \/ r = [conn |-> c, bytes |-> 0]
      \/ r = [conn |-> parsed, bytes |-> Bytes(ps, n)]
      \/ r = [conn |-> parsed, bytes |-> full]
      \/ r = [conn |-> parsed, bytes |-> 0]
      \/ r = [conn |-> ParseResponsePackets(parsed, SubSeq(ps, 1, n)), bytes |-> Bytes(ps, n)]
  BY DEF parseResponse
<1> HIDE DEF parsed, n, r
<1>6. r.conn \in Connection /\ r.bytes \in 0..full
  BY <1>2, <1>3, <1>4, <1>5
<1> QED BY <1>6 DEF r

\* The number of answers in a sequence is one.
LEMMA AnswersType ==
  ASSUME NEW ps \in Seq(Reply)
  PROVE  Answers(ps) \in Nat
<1> DEFINE S == {i \in DOMAIN ps : ps[i].kind \in {"greeting", "ok", "err", "eof"}}
<1>1. DOMAIN ps = 1..Len(ps) /\ Len(ps) \in Nat
  BY LenProperties
<1>2. IsFiniteSet(1..Len(ps)) /\ S \subseteq 1..Len(ps)
  BY <1>1, FS_Interval
<1>3. IsFiniteSet(S)
  BY <1>2, FS_Subset
<1>4. Cardinality(S) \in Nat
  BY <1>3, FS_CardinalityType
<1> QED BY <1>4 DEF Answers

\* What becomes of the response stream when the parser has run.
LEMMA Released ==
  ASSUME NEW c \in Connection, NEW ps \in Seq(Reply), NEW full \in Nat,
         full <= Bytes(ps, Len(ps)), owed \in Int,
         ProxyValidateServerResponse(c, ps, full)
  PROVE  /\ conn' = parseResponse(c, ps, full).conn /\ conn' \in Connection
         /\ responses' \in Seq(Reply) /\ owed' \in Int /\ framed' \in BOOLEAN
         /\ framed' => response_in' \in 0..Bytes(responses', Len(responses'))
<1> DEFINE r == parseResponse(c, ps, full)
           n == Whole(ps, r.bytes)
<1>1. /\ conn' = r.conn /\ responses' = From(ps, n) /\ response_in' = full - r.bytes
      /\ owed' = owed - Answers(SubSeq(ps, 1, n))
      /\ framed' = (Bytes(ps, n) = r.bytes)
  BY DEF ProxyValidateServerResponse
<1>2. r.conn \in Connection /\ r.bytes \in 0..full
  BY ParsedResponse
<1> HIDE DEF r
<1>3. Stream(ps) /\ n \in 0..Len(ps)
  <2>1. Stream(ps)
    BY Streams
  <2>2. r.bytes \in Nat
    BY <1>2
  <2> QED BY <2>1, <2>2, WholeDef
<1> HIDE DEF n
<1>4. /\ From(ps, n) \in Seq(Reply) /\ Len(From(ps, n)) = Len(ps) - n
      /\ \A i \in 0..Len(ps) - n : Bytes(From(ps, n), i) = Bytes(ps, n + i) - Bytes(ps, n)
  BY <1>3, FromStream
<1>5. Bytes(From(ps, n), Len(ps) - n) = Bytes(ps, Len(ps)) - Bytes(ps, n)
  <2>1. Len(ps) \in Nat /\ Len(ps) - n \in 0..Len(ps) - n /\ n + (Len(ps) - n) = Len(ps)
    BY <1>3 DEF Stream
  <2> QED BY <1>4, <2>1
<1>6. Bytes(ps, n) \in Nat /\ Bytes(ps, Len(ps)) \in Nat
  <2>1. Len(ps) \in 0..Len(ps)
    BY <1>3 DEF Stream
  <2> QED BY <1>3, <2>1, BytesDef
<1>7. Answers(SubSeq(ps, 1, n)) \in Nat
  BY <1>3, FirstStream, AnswersType
<1>8. owed' \in Int
  BY <1>1, <1>7
<1>9. framed' => response_in' \in 0..Bytes(responses', Len(responses'))
  <2> SUFFICES ASSUME framed'
               PROVE  response_in' \in 0..Bytes(responses', Len(responses'))
    OBVIOUS
  <2>1. Bytes(ps, n) = r.bytes
    BY <1>1
  <2>2. Bytes(responses', Len(responses')) = Bytes(ps, Len(ps)) - r.bytes
    BY <1>1, <1>4, <1>5, <2>1
  <2>3. full - r.bytes \in 0..Bytes(ps, Len(ps)) - r.bytes
    BY <1>2, <1>6
  <2> QED BY <1>1, <2>2, <2>3
<1>10. conn' \in Connection /\ responses' \in Seq(Reply) /\ framed' \in BOOLEAN
  BY <1>1, <1>2, <1>4
<1>11. conn' = parseResponse(c, ps, full).conn
  BY <1>1 DEF r
<1> QED BY <1>8, <1>9, <1>10, <1>11

----------------------------------------------------------------------------
(* What parseRequest takes from the stream of the client.                  *)

\* The loop stops behind a packet, within the buffer; it runs once where the
\* buffer holds no more than the packet.
LEMMA RepeatsDef ==
  ASSUME NEW z \in Nat \ {0}, NEW full \in Nat, z <= full
  PROVE  /\ Repeats(z, full) \in Nat \ {0}
         /\ Repeats(z, full) * z \in z..full
         /\ full = z => Repeats(z, full) = 1
<1> DEFINE S == {n \in 1..full : LoopEnds(n, z, full)}
           m == Repeats(z, full)
<1>1. full \in S
  <2>1. full * z >= full
    OBVIOUS
  <2>2. full \in 1..full /\ full * z \in Nat /\ full * z + 7 > full
    BY <2>1
  <2> QED BY <2>2 DEF LoopEnds
<1>2. PICK x \in S : \A y \in S : x <= y
  <2>1. S \in SUBSET Nat /\ S # {}
    BY <1>1
  <2> HIDE DEF S
  <2> QED BY <2>1, Least
<1>3. m \in S /\ \A y \in S : m <= y
  <2>1. m = Min(S)
    BY DEF Repeats
  <2> HIDE DEF S, m
  <2> QED BY <1>2, <2>1 DEF Min
<1> HIDE DEF m
<1>4. m \in 1..full
  BY <1>3
<1>5. m * z >= z
  BY <1>4
<1>6. m * z \in Nat /\ m * z <= full
  <2>1. CASE m = 1
    BY <2>1
  <2>2. CASE m # 1
    <3>1. m - 1 \in 1..full /\ (m - 1) + 1 = m /\ ~(m <= m - 1)
      BY <1>4, <2>2
    <3>2. ~LoopEnds(m - 1, z, full)
      BY <1>3, <3>1
    <3>3. ~(m * z > full)
      BY <3>1, <3>2 DEF LoopEnds
    <3>4. m * z \in Nat
      BY <1>4
    <3> QED BY <3>3, <3>4
  <2> QED BY <2>1, <2>2
<1>7. full = z => m = 1
  <2> SUFFICES ASSUME full = z PROVE m = 1
    OBVIOUS
  <2>1. 1 \in S
    BY DEF LoopEnds
  <2>2. m <= 1
    BY <1>3, <2>1
  <2> QED BY <1>4, <2>2
<1>8. m * z \in z..full /\ m \in Nat \ {0}
  BY <1>4, <1>5, <1>6
<1> QED BY <1>7, <1>8 DEF m

\* What is released holds the first packet, and nothing else where the buffer
\* held no more.
LEMMA Taken ==
  ASSUME NEW ps \in Seq(Packet), NEW full \in Nat, Len(ps) > 0,
         ps[1].size <= full, full <= Bytes(ps, Len(ps)),
         NEW n, n = Repeats(ps[1].size, full),
         NEW start, start = n * ps[1].size,
         NEW whole, whole = Whole(ps, start)
  PROVE  /\ ps[1] \in Packet /\ n \in Nat \ {0} /\ start \in 0..full
         /\ whole \in 1..Len(ps) /\ Bytes(ps, whole) <= start
         /\ full = ps[1].size => n = 1 /\ whole = 1 /\ AtPacket(ps, start)
<1> DEFINE z == ps[1].size
<1>1. Stream(ps)
  BY Streams
<1>2. Len(ps) \in Nat /\ 1 \in 1..Len(ps) /\ 1 \in 0..Len(ps)
  BY <1>1 DEF Stream
<1>3. ps[1] \in Packet
  BY <1>2, ElementOfSeq
<1>4. z \in Nat \ {0} /\ z <= full
  BY <1>3 DEF Packet
<1>5. Bytes(ps, 1) = z /\ Whole(ps, z) = 1
  BY <1>1, <1>2, WholeFirst
<1> HIDE DEF z
<1>6. n = Repeats(z, full) /\ start = n * z
  BY DEF z
<1>7. n \in Nat \ {0} /\ start \in z..full /\ (full = z => n = 1)
  BY <1>4, <1>6, RepeatsDef
<1>8. start \in Nat
  BY <1>4, <1>7
<1>9. /\ whole \in 0..Len(ps) /\ Bytes(ps, whole) <= start
      /\ \A i \in 0..Len(ps) : Bytes(ps, i) <= start => i <= whole
  BY <1>1, <1>8, WholeDef
<1>10. 1 <= whole
  BY <1>2, <1>4, <1>5, <1>7, <1>9
<1>11. full = z => n = 1 /\ whole = 1 /\ AtPacket(ps, start)
  <2> SUFFICES ASSUME full = z PROVE n = 1 /\ whole = 1 /\ AtPacket(ps, start)
    OBVIOUS
  <2>1. n = 1 /\ start = z
    BY <1>4, <1>6, <1>7
  <2>2. whole = 1
    BY <1>5, <2>1
  <2> QED BY <1>5, <2>1, <2>2 DEF AtPacket
<1>12. start \in 0..full /\ whole \in 1..Len(ps)
  BY <1>2, <1>4, <1>7, <1>9, <1>10
<1> QED BY <1>3, <1>7, <1>9, <1>11, <1>12 DEF z

\* What the server gets are packets, as many as were released.
LEMMA ForwardedType ==
  ASSUME conn \in Connection, NEW ps \in Seq(Packet), NEW n \in Nat,
         NEW allowed \in BOOLEAN
  PROVE  /\ Forwarded(ps, n, allowed) \in Seq(Forward)
         /\ Len(Forwarded(ps, n, allowed)) = Len(ps)
<1>1. Len(ps) \in Nat /\ DOMAIN ps = 1..Len(ps) /\ \A i \in 1..Len(ps) : ps[i] \in Packet
  BY LenProperties, ElementOfSeq
<1>2. conn.db \in Settings
  BY DEF Connection
<1> DEFINE f == Forwarded(ps, n, allowed)
<1>3. f \in [1..Len(ps) -> Forward]
  BY <1>1, <1>2 DEF Forwarded, Forward, Packet
<1> HIDE DEF f
<1>4. f \in Seq(Forward) /\ Len(f) = Len(ps)
  BY <1>1, <1>3
<1> QED BY <1>4 DEF f

\* Replies of the kinds there are.
LEMMA Replies ==
  ASSUME NEW kinds \in Seq({"greeting", "ok", "err", "row", "eof"})
  PROVE  /\ [i \in DOMAIN kinds |-> Response(kinds[i])] \in Seq(Reply)
         /\ Len([i \in DOMAIN kinds |-> Response(kinds[i])]) = Len(kinds)
<1> DEFINE K == {"greeting", "ok", "err", "row", "eof"}
           f == [i \in DOMAIN kinds |-> Response(kinds[i])]
<1>1. Len(kinds) \in Nat /\ DOMAIN kinds = 1..Len(kinds) /\ \A i \in 1..Len(kinds) : kinds[i] \in K
  BY LenProperties, ElementOfSeq
<1>2. ASSUME NEW kind \in K PROVE Response(kind) \in Reply
  <2>1. Size(kind) \in Nat \ {0} /\ (kind \in {"ok", "err"} => Size(kind) >= 7)
    BY Sizes
  <2> QED BY <2>1 DEF Response, Reply
<1> HIDE DEF K
<1>3. f \in [1..Len(kinds) -> Reply]
  BY <1>1, <1>2
<1> HIDE DEF f
<1>4. f \in Seq(Reply) /\ Len(f) = Len(kinds)
  BY <1>1, <1>3
<1> QED BY <1>4 DEF f

\* The answers of blockResponse: n packets of eleven bytes.
LEMMA Blocks ==
  ASSUME NEW n \in Nat
  PROVE  LET oks == [j \in 1..n |-> Response("ok")] IN
         /\ oks \in Seq(Reply) /\ Len(oks) = n /\ Bytes(oks, n) = n * 11
<1> DEFINE oks == [j \in 1..n |-> Response("ok")]
<1>1. Response("ok") \in Reply /\ Response("ok").size = 11
  BY Sizes DEF Response, Reply
<1>2. oks \in [1..n -> Reply]
  BY <1>1
<1>3. \A i \in 1..n : oks[i].size = 11
  BY <1>1
<1> HIDE DEF oks
<1>4. oks \in Seq(Reply) /\ Len(oks) = n
  BY <1>2
<1>5. Bytes(oks, n) = n * 11
  <2>1. Stream(oks)
    BY <1>4, Streams
  <2> QED BY <1>3, <1>4, <2>1, BytesOfElevens
<1> QED BY <1>4, <1>5 DEF oks

\* The response stream with the answers of blockResponse put in at a packet.
LEMMA PutIn ==
  ASSUME NEW ps \in Seq(Reply), NEW i \in 0..Len(ps), NEW n \in Nat
  PROVE  LET qs == SubSeq(ps, 1, i) \o [j \in 1..n |-> Response("ok")] \o From(ps, i) IN
         qs \in Seq(Reply) /\ Bytes(qs, Len(qs)) = Bytes(ps, Len(ps)) + n * 11
<1> DEFINE first == SubSeq(ps, 1, i)
           oks == [j \in 1..n |-> Response("ok")]
           last == From(ps, i)
<1>1. Stream(ps) /\ Len(ps) \in Nat /\ Len(ps) \in 0..Len(ps)
  BY Streams DEF Stream
<1>2. /\ first \in Seq(Reply) /\ Len(first) = i
      /\ \A k \in 0..i : Bytes(first, k) = Bytes(ps, k)
  BY <1>1, FirstStream
<1>3. oks \in Seq(Reply) /\ Len(oks) = n /\ Bytes(oks, n) = n * 11
  BY Blocks
<1>4. /\ last \in Seq(Reply) /\ Len(last) = Len(ps) - i
      /\ \A k \in 0..Len(ps) - i : Bytes(last, k) = Bytes(ps, i + k) - Bytes(ps, i)
  BY <1>1, FromStream
<1> HIDE DEF first, oks, last
<1>5. Bytes(first, Len(first)) = Bytes(ps, i)
  BY <1>1, <1>2
<1>6. Bytes(last, Len(last)) = Bytes(ps, Len(ps)) - Bytes(ps, i)
  <2>1. Len(ps) - i \in 0..Len(ps) - i /\ i + (Len(ps) - i) = Len(ps)
    BY <1>1
  <2> QED BY <1>4, <2>1
<1>7. Bytes(ps, i) \in Nat /\ Bytes(ps, Len(ps)) \in Nat
  BY <1>1, BytesDef
<1>8. first \o oks \in Seq(Reply)
  BY <1>2, <1>3, ConcatProperties
<1>9. Bytes(first \o oks, Len(first \o oks)) = Bytes(ps, i) + n * 11
  BY <1>2, <1>3, <1>5, Streams, BehindConcat
<1>10. first \o oks \o last \in Seq(Reply)
  BY <1>4, <1>8, ConcatProperties
<1>11. Bytes(first \o oks \o last, Len(first \o oks \o last))
         = Bytes(first \o oks, Len(first \o oks)) + Bytes(last, Len(last))
  BY <1>4, <1>8, Streams, BehindConcat
<1>12. Bytes(first \o oks \o last, Len(first \o oks \o last)) = Bytes(ps, Len(ps)) + n * 11
  BY <1>6, <1>7, <1>9, <1>11
<1> QED BY <1>10, <1>12 DEF first, oks, last

\* What an answer of the proxy changes.
LEMMA Answering ==
  ASSUME NEW c \in Connection, NEW n \in Nat, framed, owed \in Int,
         responses \in Seq(Reply), response_in \in 0..Bytes(responses, Len(responses)),
         Answer(c, n)
  PROVE  /\ conn' \in Connection /\ responses' \in Seq(Reply)
         /\ owed' \in Int /\ framed' \in BOOLEAN
         /\ framed' => response_in' \in 0..Bytes(responses', Len(responses'))
<1>1. CASE n = 0 \/ response_in = 0
  <2>1. conn' = c /\ owed' = owed - n /\ UNCHANGED <<down, framed>>
    BY <1>1 DEF Answer
  <2> QED BY <2>1 DEF down
<1>2. CASE ~(n = 0 \/ response_in = 0)
  <2> DEFINE i == Whole(responses, response_in)
             qs == SubSeq(responses, 1, i) \o [j \in 1..n |-> Response("ok")]
                     \o From(responses, i)
  <2>1. CASE AtPacket(responses, response_in)
    <3>1. ProxyValidateServerResponse(c, qs, response_in + n * Size("ok"))
      BY <1>2, <2>1 DEF Answer
    <3>2. Stream(responses) /\ response_in \in Nat /\ Bytes(responses, Len(responses)) \in Nat
      <4>1. Stream(responses)
        BY Streams
      <4>2. Len(responses) \in 0..Len(responses)
        BY <4>1 DEF Stream
      <4> QED BY <4>1, <4>2, BytesDef
    <3>3. i \in 0..Len(responses)
      BY <3>2, WholeDef
    <3> HIDE DEF i
    <3>4. qs \in Seq(Reply) /\ Bytes(qs, Len(qs)) = Bytes(responses, Len(responses)) + n * 11
      BY <3>3, PutIn
    <3> HIDE DEF qs
    <3> DEFINE full == response_in + n * Size("ok")
    <3>5. full \in Nat /\ full <= Bytes(qs, Len(qs))
      BY <3>2, <3>4, Sizes
    <3>6. ProxyValidateServerResponse(c, qs, full)
      BY <3>1
    <3> HIDE DEF full
    <3> QED BY <3>4, <3>5, <3>6, Released
  <2>2. CASE ~AtPacket(responses, response_in)
    <3>1. conn' = c /\ framed' = FALSE /\ UNCHANGED <<down, owed>>
      BY <1>2, <2>2 DEF Answer
    <3> QED BY <3>1 DEF down
  <2> QED BY <2>1, <2>2
<1> QED BY <1>1, <1>2

----------------------------------------------------------------------------
(* The types.                                                              *)

\* The login is the first packet of the client.
LoginFirst ==
  /\ \A i \in 1..Len(requests) : requests[i].kind = "login" => i = 1 /\ conn.first_request
  /\ commands = 0 => requests = <<>> /\ conn.first_request

Typed ==
  /\ conn \in Connection
  /\ requests \in Seq(Packet) /\ responses \in Seq(Reply) /\ toServer \in Seq(Forward)
  /\ framed => request_in \in 0..Bytes(requests, Len(requests))
  /\ framed => response_in \in 0..Bytes(responses, Len(responses))
  /\ serverDb \in Name /\ owed \in Int /\ commands \in 0..MaxCommands + 1
  /\ framed \in BOOLEAN
  /\ disturbed \subseteq {"cut", "coalesced", "blocked", "use", "changeuser"}
  /\ LoginFirst

LEMMA TypedImplies == Typed => TypeOK
<1> SUFFICES ASSUME Typed PROVE TypeOK
  OBVIOUS
<1>1. requests \in Seq([kind : AllCommands \cup {"login"}, name : Name, size : Nat])
  <2>1. Packet \subseteq [kind : AllCommands \cup {"login"}, name : Name, size : Nat]
    BY DEF Packet
  <2> QED BY <2>1, SeqMonotonic DEF Typed
<1>2. responses \in Seq([kind : {"greeting", "ok", "err", "row", "eof"}, size : Nat])
  <2>1. Reply \subseteq [kind : {"greeting", "ok", "err", "row", "eof"}, size : Nat]
    BY DEF Reply
  <2> QED BY <2>1, SeqMonotonic DEF Typed
<1> QED BY <1>1, <1>2 DEF Typed, TypeOK, Forward

LEMMA TypedInit == Init => Typed
<1> SUFFICES ASSUME Init PROVE Typed
  OBVIOUS
<1>1. conn \in Connection /\ conn.first_request
  <2>1. dbmap_find(NoDatabase) \in Settings /\ NoDatabase \in Name
    BY Found DEF Name
  <2> QED BY <2>1 DEF Init, Connection
<1>2. requests \in Seq(Packet) /\ toServer \in Seq(Forward) /\ Len(requests) = 0
  BY EmptySeq DEF Init
<1>3. responses \in Seq(Reply)
  <2>1. Size("greeting") \in Nat \ {0}
    BY Sizes
  <2>2. Response("greeting") \in Reply
    BY <2>1 DEF Response, Reply
  <2> QED BY <2>2 DEF Init
<1>4. Bytes(requests, Len(requests)) \in Nat /\ Bytes(responses, Len(responses)) \in Nat
  <2>1. Stream(requests) /\ Stream(responses)
    BY <1>2, <1>3, Streams
  <2>2. Len(requests) \in 0..Len(requests) /\ Len(responses) \in 0..Len(responses)
    BY <2>1 DEF Stream
  <2> QED BY <2>1, <2>2, BytesDef
<1>5. LoginFirst
  BY <1>1, <1>2 DEF LoginFirst, Init
<1>6. serverDb \in Name /\ owed \in Int /\ commands \in 0..MaxCommands + 1
  BY MySQLSessionAssumption DEF Init, Name
<1> QED BY <1>1, <1>2, <1>3, <1>4, <1>5, <1>6 DEF Typed, Init

LEMMA TypedStutter == Typed /\ UNCHANGED vars => Typed'
  BY DEF Typed, LoginFirst, vars, up, down

\* The connection behind a packet of the client.
LEMMA ParsedRequest ==
  ASSUME Typed, Len(requests) > 0
  PROVE  /\ requests[1] \in Packet
         /\ ParseRequestPacket(requests[1]) \in Connection
<1> DEFINE p == requests[1]
<1>1. p \in Packet /\ 1 \in 1..Len(requests)
  <2>1. requests \in Seq(Packet)
    BY DEF Typed
  <2>2. 1 \in 1..Len(requests)
    BY <2>1, LenProperties
  <2> QED BY <2>1, <2>2, ElementOfSeq
<1>2. p.kind = "login" => conn.first_request
  BY <1>1 DEF Typed, LoginFirst
<1>3. conn \in Connection
  BY DEF Typed
<1>4. p.kind \in AllCommands \cup {"login"} /\ p.name \in Name /\ NoDatabase \in Name
  BY <1>1 DEF Packet, Name
<1> HIDE DEF p
<1>5. CASE conn.first_request
  <2>1. dbmap_find(p.name) \in Settings
    BY Found
  <2>2. ParseLogin(conn, p) \in Connection
    BY <1>3, <1>4, <2>1 DEF ParseLogin, Connection
  <2> QED BY <1>1, <1>5, <2>2 DEF p, ParseRequestPacket
<1>6. CASE ~conn.first_request
  <2>1. p.kind \in AllCommands
    BY <1>2, <1>4, <1>6
  <2>2. ParseCommand(conn, p) \in Connection
    BY <1>3, <1>4, <2>1 DEF ParseCommand, Connection
  <2> QED BY <1>1, <1>6, <2>2 DEF p, ParseRequestPacket
<1> QED BY <1>5, <1>6

\* What the packets behind the first ones are.
LEMMA Remaining ==
  ASSUME Typed, NEW whole \in 1..Len(requests)
  PROVE  /\ From(requests, whole) \in Seq(Packet)
         /\ Len(From(requests, whole)) = Len(requests) - whole
         /\ \A i \in 1..Len(requests) - whole :
              /\ From(requests, whole)[i] = requests[whole + i]
              /\ From(requests, whole)[i].kind # "login"
         /\ Bytes(From(requests, whole), Len(From(requests, whole)))
              = Bytes(requests, Len(requests)) - Bytes(requests, whole)
<1>1. requests \in Seq(Packet) /\ Stream(requests) /\ Len(requests) \in Nat
  BY Streams DEF Typed, Stream
<1>2. whole \in 0..Len(requests)
  OBVIOUS
<1> DEFINE rs == From(requests, whole)
<1>3. /\ rs \in Seq(Packet) /\ Len(rs) = Len(requests) - whole
      /\ \A i \in 1..Len(requests) - whole : rs[i] = requests[whole + i]
      /\ \A i \in 0..Len(requests) - whole :
           Bytes(rs, i) = Bytes(requests, whole + i) - Bytes(requests, whole)
  BY <1>1, <1>2, FromStream
<1> HIDE DEF rs
<1>4. \A i \in 1..Len(requests) - whole : rs[i].kind # "login"
  <2> TAKE i \in 1..Len(requests) - whole
  <2>1. whole + i \in 1..Len(requests) /\ whole + i # 1
    BY <1>1
  <2>2. requests[whole + i].kind # "login"
    BY <2>1 DEF Typed, LoginFirst
  <2> QED BY <1>3, <2>2
<1>5. Bytes(rs, Len(rs)) = Bytes(requests, Len(requests)) - Bytes(requests, whole)
  <2>1. Len(requests) - whole \in 0..Len(requests) - whole
        /\ whole + (Len(requests) - whole) = Len(requests)
    BY <1>1
  <2> QED BY <1>3, <2>1
<1> QED BY <1>3, <1>4, <1>5 DEF rs

\* A step of Proxy_cb that parses, in its parts.
LEMMA ParseStep ==
  ASSUME Typed, framed, NEW full \in Nat, Len(requests) > 0,
         full <= Bytes(requests, Len(requests)), Proxy_cb_Parses(full)
  PROVE  LET p == requests[1]
             n == Repeats(p.size, full)
             start == n * p.size
             whole == Whole(requests, start)
         IN  /\ n \in Nat \ {0} /\ whole \in 1..Len(requests) /\ start \in 0..full
             /\ full = p.size => n = 1 /\ whole = 1 /\ AtPacket(requests, start)
             /\ p.size <= full /\ p \in Packet
             /\ requests' = From(requests, whole)
             /\ \E allowed \in BOOLEAN :
                  /\ SubSeq(requests, 1, whole) \in Seq(Packet)
                  /\ Len(SubSeq(requests, 1, whole)) = whole
                  /\ toServer' = toServer \o Forwarded(SubSeq(requests, 1, whole), n, allowed)
                  /\ Forwarded(SubSeq(requests, 1, whole), n, allowed) \in Seq(Forward)
                  /\ Len(Forwarded(SubSeq(requests, 1, whole), n, allowed)) = whole
                  /\ AtPacket(requests, start)
                       => Answer(ParseRequestPacket(p), IF allowed THEN 0 ELSE n)
                  /\ ~AtPacket(requests, start)
                       => framed' = FALSE /\ UNCHANGED <<conn, down, owed>>
                  /\ p.kind \notin Judged => allowed
                  /\ disturbed' = disturbed
                       \cup (IF full > p.size THEN {"coalesced"} ELSE {})
                       \cup (IF allowed THEN {} ELSE {"blocked"})
                       \cup (IF framed' THEN {} ELSE {"cut"})
                       \cup ({p.kind} \cap {"use", "changeuser"})
             /\ request_in' = full - start
<1> DEFINE p == requests[1]
           n == Repeats(p.size, full)
           start == n * p.size
           whole == Whole(requests, start)
<1>1. requests \in Seq(Packet) /\ conn \in Connection
  BY DEF Typed
<1>2. p.size <= full
  BY DEF Proxy_cb_Parses
<1>3. /\ p \in Packet /\ n \in Nat \ {0} /\ start \in 0..full /\ whole \in 1..Len(requests)
      /\ full = p.size => n = 1 /\ whole = 1 /\ AtPacket(requests, start)
  BY <1>1, <1>2, Taken
<1>4. SubSeq(requests, 1, whole) \in Seq(Packet) /\ Len(SubSeq(requests, 1, whole)) = whole
  <2>1. whole \in 0..Len(requests)
    BY <1>3
  <2> HIDE DEF whole
  <2> QED BY <1>1, <2>1, Streams, FirstStream
<1>5. PICK allowed \in IF p.kind \in Judged THEN Verdicts ELSE {TRUE} :
        /\ toServer' = toServer \o Forwarded(SubSeq(requests, 1, whole), n, allowed)
        /\ IF AtPacket(requests, start)
           THEN Answer(ParseRequestPacket(p), IF allowed THEN 0 ELSE n)
           ELSE framed' = FALSE /\ UNCHANGED <<conn, down, owed>>
        /\ disturbed' = disturbed
             \cup (IF full > p.size THEN {"coalesced"} ELSE {})
             \cup (IF allowed THEN {} ELSE {"blocked"})
             \cup (IF framed' THEN {} ELSE {"cut"})
             \cup ({p.kind} \cap {"use", "changeuser"})
  BY DEF Proxy_cb_Parses
<1>6. requests' = From(requests, whole) /\ request_in' = full - start
  BY DEF Proxy_cb_Parses
<1> HIDE DEF p, n, start, whole
<1>7. allowed \in BOOLEAN /\ (p.kind \notin Judged => allowed)
  BY <1>5, MySQLSessionAssumption
<1>8. /\ Forwarded(SubSeq(requests, 1, whole), n, allowed) \in Seq(Forward)
      /\ Len(Forwarded(SubSeq(requests, 1, whole), n, allowed)) = whole
  BY <1>1, <1>3, <1>4, <1>7, ForwardedType
<1>9. \E a \in BOOLEAN :
        /\ SubSeq(requests, 1, whole) \in Seq(Packet)
        /\ Len(SubSeq(requests, 1, whole)) = whole
        /\ toServer' = toServer \o Forwarded(SubSeq(requests, 1, whole), n, a)
        /\ Forwarded(SubSeq(requests, 1, whole), n, a) \in Seq(Forward)
        /\ Len(Forwarded(SubSeq(requests, 1, whole), n, a)) = whole
        /\ AtPacket(requests, start) => Answer(ParseRequestPacket(p), IF a THEN 0 ELSE n)
        /\ ~AtPacket(requests, start) => framed' = FALSE /\ UNCHANGED <<conn, down, owed>>
        /\ p.kind \notin Judged => a
        /\ disturbed' = disturbed
             \cup (IF full > p.size THEN {"coalesced"} ELSE {})
             \cup (IF a THEN {} ELSE {"blocked"})
             \cup (IF framed' THEN {} ELSE {"cut"})
             \cup ({p.kind} \cap {"use", "changeuser"})
  <2> allowed \in BOOLEAN
    BY <1>7
  <2> WITNESS allowed \in BOOLEAN
  <2> QED BY <1>4, <1>5, <1>7, <1>8
<1> QED BY <1>2, <1>3, <1>6, <1>9 DEF p, n, start, whole

LEMMA TypedProxy == Typed /\ Proxy_cb => Typed'
<1> SUFFICES ASSUME Typed, Proxy_cb PROVE Typed'
  OBVIOUS
<1>1. PICK full \in ReadTo(requests, request_in, Cuts) :
        Proxy_cb_Waits(full) \/ Proxy_cb_Parses(full)
  BY DEF Proxy_cb
<1>2. framed /\ UNCHANGED <<serverDb, commands>>
  BY DEF Proxy_cb
<1>3. full \in Nat /\ full <= Bytes(requests, Len(requests)) /\ Len(requests) > 0
  <2>1. Stream(requests) /\ request_in \in Int /\ Cuts \in SUBSET Nat
    BY <1>2, Streams, MySQLSessionAssumption DEF Typed
  <2> QED BY <1>1, <2>1, ReadWithin
<1>4. requests \in Seq(Packet) /\ Len(requests) \in Nat
      /\ Bytes(requests, Len(requests)) \in Nat
  <2>1. requests \in Seq(Packet) /\ Stream(requests)
    BY Streams DEF Typed
  <2>2. Len(requests) \in 0..Len(requests) /\ Len(requests) \in Nat
    BY <2>1 DEF Stream
  <2> QED BY <2>1, <2>2, BytesDef
<1>5. CASE Proxy_cb_Waits(full)
  <2>1. /\ request_in' = full
        /\ UNCHANGED <<conn, requests, responses, response_in, toServer, owed, framed,
                       disturbed, serverDb, commands>>
    BY <1>2, <1>5 DEF Proxy_cb_Waits, down
  <2>2. request_in' \in 0..Bytes(requests', Len(requests'))
    <3>1. full \in 0..Bytes(requests, Len(requests))
      BY <1>3, <1>4
    <3> QED BY <2>1, <3>1
  <2>3. LoginFirst'
    BY <2>1 DEF Typed, LoginFirst
  <2> QED BY <2>1, <2>2, <2>3 DEF Typed
<1>6. CASE Proxy_cb_Parses(full)
  <2> DEFINE p == requests[1]
             n == Repeats(p.size, full)
             start == n * p.size
             whole == Whole(requests, start)
  <2>1. /\ n \in Nat \ {0} /\ whole \in 1..Len(requests) /\ start \in 0..full
        /\ p \in Packet /\ requests' = From(requests, whole) /\ request_in' = full - start
    BY <1>2, <1>3, <1>6, ParseStep
  <2>2. PICK allowed \in BOOLEAN :
          /\ toServer' = toServer \o Forwarded(SubSeq(requests, 1, whole), n, allowed)
          /\ Forwarded(SubSeq(requests, 1, whole), n, allowed) \in Seq(Forward)
          /\ AtPacket(requests, start)
               => Answer(ParseRequestPacket(p), IF allowed THEN 0 ELSE n)
          /\ ~AtPacket(requests, start)
               => framed' = FALSE /\ UNCHANGED <<conn, down, owed>>
          /\ disturbed' = disturbed
               \cup (IF full > p.size THEN {"coalesced"} ELSE {})
               \cup (IF allowed THEN {} ELSE {"blocked"})
               \cup (IF framed' THEN {} ELSE {"cut"})
               \cup ({p.kind} \cap {"use", "changeuser"})
    BY <1>2, <1>3, <1>6, ParseStep
  <2>3. AtPacket(requests, start) => Bytes(requests, whole) = start
    BY DEF AtPacket
  <2>4. ParseRequestPacket(p) \in Connection
    BY <1>3, ParsedRequest
  <2> HIDE DEF p, n, start, whole
  <2>5. /\ requests' \in Seq(Packet) /\ Len(requests') = Len(requests) - whole
        /\ \A i \in 1..Len(requests) - whole : requests'[i].kind # "login"
        /\ Bytes(requests', Len(requests'))
             = Bytes(requests, Len(requests)) - Bytes(requests, whole)
    BY <2>1, Remaining
  <2>6. toServer' \in Seq(Forward)
    BY <2>2, ConcatProperties DEF Typed
  <2>7. /\ conn' \in Connection /\ responses' \in Seq(Reply) /\ owed' \in Int
        /\ framed' \in BOOLEAN /\ (framed' => AtPacket(requests, start))
        /\ framed' => response_in' \in 0..Bytes(responses', Len(responses'))
    <3>1. CASE AtPacket(requests, start)
      <4> DEFINE m == IF allowed THEN 0 ELSE n
      <4>1. m \in Nat
        BY <2>1
      <4>2. Answer(ParseRequestPacket(p), m)
        BY <2>2, <3>1
      <4> HIDE DEF m
      <4>3. /\ owed \in Int /\ responses \in Seq(Reply)
            /\ response_in \in 0..Bytes(responses, Len(responses))
        BY <1>2 DEF Typed
      <4> QED BY <1>2, <2>4, <3>1, <4>1, <4>2, <4>3, Answering
    <3>2. CASE ~AtPacket(requests, start)
      BY <2>2, <3>2 DEF Typed, down
    <3> QED BY <3>1, <3>2
  <2>8. framed' => request_in' \in 0..Bytes(requests', Len(requests'))
    <3> SUFFICES ASSUME framed' PROVE request_in' \in 0..Bytes(requests', Len(requests'))
      OBVIOUS
    <3>1. Bytes(requests', Len(requests')) = Bytes(requests, Len(requests)) - start
      BY <2>3, <2>5, <2>7
    <3>2. full - start \in 0..Bytes(requests, Len(requests)) - start
      BY <1>3, <1>4, <2>1
    <3> QED BY <2>1, <3>1, <3>2
  <2>9. LoginFirst'
    <3>1. commands # 0
      BY <1>3, EmptySeq DEF Typed, LoginFirst
    <3> QED BY <1>2, <2>5, <3>1 DEF LoginFirst
  <2>10. disturbed' \subseteq {"cut", "coalesced", "blocked", "use", "changeuser"}
    <3>1. disturbed \subseteq {"cut", "coalesced", "blocked", "use", "changeuser"}
      BY DEF Typed
    <3> QED BY <2>2, <3>1
  <2>11. serverDb' \in Name /\ commands' \in 0..MaxCommands + 1
    BY <1>2 DEF Typed
  <2> QED BY <2>5, <2>6, <2>7, <2>8, <2>9, <2>10, <2>11 DEF Typed
<1> QED BY <1>1, <1>5, <1>6

\* What parsing a response leaves of the flags.
LEMMA FirstKept ==
  ASSUME NEW c \in Connection, NEW ps, NEW full
  PROVE  parseResponse(c, ps, full).conn.first_request = c.first_request
  BY DEF parseResponse, ParseResponsePackets, Connection

LEMMA TypedBackend == Typed /\ Backend_cb => Typed'
<1> SUFFICES ASSUME Typed, Backend_cb PROVE Typed'
  OBVIOUS
<1>1. PICK full \in ReadTo(responses, response_in, Cuts) :
        ProxyValidateServerResponse(conn, responses, full)
  BY DEF Backend_cb
<1>2. /\ framed /\ UNCHANGED <<requests, request_in, toServer, serverDb, commands>>
      /\ disturbed' = IF framed' THEN disturbed ELSE disturbed \cup {"cut"}
  BY DEF Backend_cb, up
<1>3. /\ conn \in Connection /\ responses \in Seq(Reply) /\ owed \in Int
      /\ response_in \in Int /\ Cuts \in SUBSET Nat
  BY <1>2, MySQLSessionAssumption DEF Typed
<1>4. full \in Nat /\ full <= Bytes(responses, Len(responses))
  BY <1>1, <1>3, Streams, ReadWithin
<1>5. /\ conn' = parseResponse(conn, responses, full).conn /\ conn' \in Connection
      /\ responses' \in Seq(Reply) /\ owed' \in Int /\ framed' \in BOOLEAN
      /\ framed' => response_in' \in 0..Bytes(responses', Len(responses'))
  BY <1>1, <1>3, <1>4, Released
<1>6. conn'.first_request = conn.first_request
  BY <1>3, <1>5, FirstKept
<1>7. LoginFirst'
  BY <1>2, <1>6 DEF Typed, LoginFirst
<1>8. disturbed' \subseteq {"cut", "coalesced", "blocked", "use", "changeuser"}
  BY <1>2 DEF Typed
<1>9. framed' => request_in' \in 0..Bytes(requests', Len(requests'))
  BY <1>2 DEF Typed
<1> QED BY <1>2, <1>5, <1>7, <1>8, <1>9 DEF Typed

\* The stream of the client grows by a packet.
LEMMA Grows ==
  ASSUME NEW ps \in Seq(Packet), NEW p \in Packet
  PROVE  /\ Append(ps, p) \in Seq(Packet) /\ Len(Append(ps, p)) = Len(ps) + 1
         /\ \A i \in 1..Len(ps) : Append(ps, p)[i] = ps[i]
         /\ Append(ps, p)[Len(ps) + 1] = p
         /\ Bytes(ps, Len(ps)) \in Nat /\ Bytes(Append(ps, p), Len(Append(ps, p))) \in Nat
         /\ Bytes(ps, Len(ps)) <= Bytes(Append(ps, p), Len(Append(ps, p)))
<1>1. /\ Append(ps, p) \in Seq(Packet) /\ Len(Append(ps, p)) = Len(ps) + 1
      /\ \A i \in 1..Len(ps) : Append(ps, p)[i] = ps[i]
      /\ Append(ps, p)[Len(ps) + 1] = p
  BY AppendProperties
<1>2. Append(ps, p) = ps \o <<p>>
  BY AppendIsConcat
<1>3. <<p>> \in Seq(Packet)
  OBVIOUS
<1>4. Stream(ps) /\ Stream(<<p>>) /\ Stream(Append(ps, p))
  BY <1>1, <1>3, Streams
<1>5. Bytes(ps, Len(ps)) <= Bytes(Append(ps, p), Len(Append(ps, p)))
  BY <1>2, <1>3, <1>4, ConcatStream
<1>6. Bytes(ps, Len(ps)) \in Nat /\ Bytes(Append(ps, p), Len(Append(ps, p))) \in Nat
  <2>1. Len(ps) \in 0..Len(ps) /\ Len(Append(ps, p)) \in 0..Len(Append(ps, p))
    BY <1>4 DEF Stream
  <2> QED BY <1>4, <2>1, BytesDef
<1> QED BY <1>1, <1>5, <1>6

\* What the client sends is a packet.
LEMMA Requested ==
  ASSUME NEW kind \in AllCommands \cup {"login"}, NEW name \in Name
  PROVE  Request(kind, name) \in Packet
<1>1. Size(kind) \in Nat \ {0}
  BY Sizes
<1> QED BY <1>1 DEF Request, Packet

LEMMA TypedSends ==
  ASSUME Typed, NEW p \in Packet, NEW answers \in Nat, Sends(p, answers),
         commands <= MaxCommands,
         p.kind = "login" => commands = 0, p.kind # "login" => commands # 0
  PROVE  Typed'
<1>1. /\ requests' = Append(requests, p) /\ owed' = owed + answers /\ commands' = commands + 1
      /\ UNCHANGED <<conn, request_in, responses, response_in, toServer, serverDb, framed,
                     disturbed>>
  BY DEF Sends, down
<1>2. requests \in Seq(Packet)
  BY DEF Typed
<1>3. /\ requests' \in Seq(Packet) /\ Len(requests') = Len(requests) + 1
      /\ \A i \in 1..Len(requests) : requests'[i] = requests[i]
      /\ requests'[Len(requests) + 1] = p
      /\ Bytes(requests, Len(requests)) \in Nat /\ Bytes(requests', Len(requests')) \in Nat
      /\ Bytes(requests, Len(requests)) <= Bytes(requests', Len(requests'))
  BY <1>1, <1>2, Grows
<1>4. owed' \in Int /\ commands' \in 0..MaxCommands + 1 /\ commands' # 0
  BY <1>1, MySQLSessionAssumption DEF Typed
<1>5. framed' => request_in' \in 0..Bytes(requests', Len(requests'))
  BY <1>1, <1>3 DEF Typed
<1>6. LoginFirst'
  <2>1. ASSUME NEW i \in 1..Len(requests'), requests'[i].kind = "login"
        PROVE  i = 1 /\ conn'.first_request
    <3>1. Len(requests) \in Nat
      BY <1>2, LenProperties
    <3>2. CASE i \in 1..Len(requests)
      BY <1>1, <1>3, <2>1, <3>2 DEF Typed, LoginFirst
    <3>3. CASE i = Len(requests) + 1
      <4>1. commands = 0
        BY <1>3, <2>1, <3>3
      <4>2. Len(requests) = 0 /\ conn.first_request
        BY <4>1, EmptySeq DEF Typed, LoginFirst
      <4> QED BY <1>1, <3>3, <4>2
    <3> QED BY <1>3, <3>1, <3>2, <3>3
  <2> QED BY <1>4, <2>1 DEF LoginFirst
<1> QED BY <1>1, <1>3, <1>4, <1>5, <1>6 DEF Typed

LEMMA TypedClient == Typed /\ (ClientLogsIn \/ ClientSends) => Typed'
<1>1. ASSUME Typed, ClientLogsIn PROVE Typed'
  <2>1. PICK name \in Name : Sends(Request("login", name), 1)
    BY <1>1 DEF ClientLogsIn
  <2>2. Request("login", name) \in Packet
    BY Requested
  <2>3. Request("login", name).kind = "login" /\ commands = 0
    BY <1>1 DEF Request, ClientLogsIn
  <2>4. commands <= MaxCommands
    BY <2>3, MySQLSessionAssumption
  <2> QED BY <1>1, <2>1, <2>2, <2>3, <2>4, TypedSends
<1>2. ASSUME Typed, ClientSends PROVE Typed'
  <2>1. PICK kind \in Command, name \in Name :
          Sends(Request(kind, name), IF kind = "close" THEN 0 ELSE 1)
    BY <1>2 DEF ClientSends
  <2>2. kind \in AllCommands
    BY MySQLSessionAssumption
  <2>3. Request(kind, name) \in Packet
    BY <2>2, Requested
  <2>4. Request(kind, name).kind # "login"
    BY <2>2 DEF Request, AllCommands
  <2>5. commands <= MaxCommands /\ commands # 0
    BY <1>2, MySQLSessionAssumption DEF ClientSends
  <2> DEFINE answers == IF kind = "close" THEN 0 ELSE 1
  <2>6. answers \in Nat /\ Sends(Request(kind, name), answers)
    BY <2>1
  <2> HIDE DEF answers
  <2> QED BY <1>2, <2>3, <2>4, <2>5, <2>6, TypedSends
<1> QED BY <1>1, <1>2

\* What an answer of the server changes.
LEMMA TypedReplies ==
  ASSUME Typed, toServer # <<>>,
         NEW kinds \in Seq({"greeting", "ok", "err", "row", "eof"}), NEW database \in Name,
         ServerReplies(kinds, database)
  PROVE  Typed'
<1> DEFINE rs == [i \in DOMAIN kinds |-> Response(kinds[i])]
<1>1. /\ responses' = responses \o rs /\ serverDb' = database /\ toServer' = Tail(toServer)
      /\ UNCHANGED <<conn, requests, request_in, response_in, owed, commands, framed, disturbed>>
  BY DEF ServerReplies, up
<1>2. rs \in Seq(Reply)
  BY Replies
<1> HIDE DEF rs
<1>3. responses \in Seq(Reply) /\ toServer \in Seq(Forward)
  BY DEF Typed
<1>4. responses' \in Seq(Reply) /\ Bytes(responses, Len(responses)) <= Bytes(responses', Len(responses'))
  BY <1>1, <1>2, <1>3, Streams, ConcatStream
<1>5. Bytes(responses, Len(responses)) \in Nat /\ Bytes(responses', Len(responses')) \in Nat
  <2>1. Stream(responses) /\ Stream(responses')
    BY <1>3, <1>4, Streams
  <2>2. Len(responses) \in 0..Len(responses) /\ Len(responses') \in 0..Len(responses')
    BY <2>1 DEF Stream
  <2> QED BY <2>1, <2>2, BytesDef
<1>6. toServer' \in Seq(Forward)
  BY <1>1, <1>3, HeadTailProperties
<1>7. framed' => response_in' \in 0..Bytes(responses', Len(responses'))
  BY <1>1, <1>4, <1>5 DEF Typed
<1>8. LoginFirst'
  BY <1>1 DEF Typed, LoginFirst
<1> QED BY <1>1, <1>4, <1>6, <1>7, <1>8 DEF Typed

\* Which answers there are.
LEMMA ServerStep ==
  ASSUME Typed, ServerAnswers
  PROVE  /\ framed /\ toServer # <<>> /\ Head(toServer) \in Forward
         /\ \E kinds \in Seq({"greeting", "ok", "err", "row", "eof"}), database \in Name :
              ServerReplies(kinds, database)
<1>1. framed /\ toServer # <<>> /\ toServer \in Seq(Forward) /\ serverDb \in Name
  BY DEF ServerAnswers, Typed
<1>2. Head(toServer) \in Forward
  BY <1>1, HeadTailProperties
<1>3. Head(toServer).name \in Name
  BY <1>2 DEF Forward
<1> DEFINE K == {"greeting", "ok", "err", "row", "eof"}
<1>4. /\ <<"ok">> \in Seq(K) /\ <<"err">> \in Seq(K) /\ <<"row", "eof">> \in Seq(K)
      /\ <<>> \in Seq(K)
  OBVIOUS
<1>5. \/ ServerReplies(<<"ok">>, Head(toServer).name) \/ ServerReplies(<<"ok">>, serverDb)
      \/ ServerReplies(<<"err">>, serverDb) \/ ServerReplies(<<"row", "eof">>, serverDb)
      \/ ServerReplies(<<>>, serverDb)
  BY DEF ServerAnswers
<1> HIDE DEF K
<1>6. \E kinds \in Seq(K), database \in Name : ServerReplies(kinds, database)
  BY <1>1, <1>3, <1>4, <1>5
<1> QED BY <1>1, <1>2, <1>6 DEF K

LEMMA TypedServer == Typed /\ ServerAnswers => Typed'
  BY ServerStep, TypedReplies

\* Every variable keeps its type: the parsers never take more than is there,
\* the counts of judgements and of answers are numbers, the settings in use are
\* settings there are, and no login comes but first.
THEOREM TypeCorrect == Spec => []TypeOK
<1>1. Init => Typed
  BY TypedInit
<1>2. Typed /\ [Next]_vars => Typed'
  BY TypedProxy, TypedBackend, TypedClient, TypedServer, TypedStutter DEF Next
<1>3. Typed => TypeOK
  BY TypedImplies
<1> QED BY <1>1, <1>2, <1>3, PTL DEF Spec

----------------------------------------------------------------------------
(* Queries are judged.                                                     *)

\* Where a read brings no more than a packet, one packet is taken and sent on,
\* judged once if it is to be judged.
LEMMA OneTaken ==
  ASSUME Typed, framed, NEW full \in Nat, Len(requests) > 0,
         full <= Bytes(requests, Len(requests)), Proxy_cb_Parses(full),
         "coalesced" \notin disturbed'
  PROVE  LET p == requests[1] IN
         /\ "coalesced" \notin disturbed /\ requests' = From(requests, 1)
         /\ \E allowed \in BOOLEAN :
              /\ Len(toServer') = Len(toServer) + 1
              /\ \A i \in 1..Len(toServer) : toServer'[i] = toServer[i]
              /\ toServer'[Len(toServer) + 1]
                   = [kind |-> p.kind, name |-> p.name, settings |-> conn.db,
                      allowed |-> allowed, judged |-> IF p.kind \in Judged THEN 1 ELSE 0]
              /\ Answer(ParseRequestPacket(p), IF allowed THEN 0 ELSE 1)
              /\ disturbed' = {} => disturbed = {} /\ allowed /\ framed'
                                                   /\ p.kind \notin {"use", "changeuser"}
<1> DEFINE p == requests[1]
           n == Repeats(p.size, full)
           start == n * p.size
           whole == Whole(requests, start)
           first == SubSeq(requests, 1, whole)
<1>1. /\ whole \in 1..Len(requests) /\ p.size <= full /\ p \in Packet
      /\ full = p.size => n = 1 /\ whole = 1 /\ AtPacket(requests, start)
      /\ requests' = From(requests, whole)
  BY ParseStep
<1>2. PICK allowed \in BOOLEAN :
        /\ first \in Seq(Packet) /\ Len(first) = whole
        /\ toServer' = toServer \o Forwarded(first, n, allowed)
        /\ Forwarded(first, n, allowed) \in Seq(Forward)
        /\ Len(Forwarded(first, n, allowed)) = whole
        /\ AtPacket(requests, start)
             => Answer(ParseRequestPacket(p), IF allowed THEN 0 ELSE n)
        /\ disturbed' = disturbed
             \cup (IF full > p.size THEN {"coalesced"} ELSE {})
             \cup (IF allowed THEN {} ELSE {"blocked"})
             \cup (IF framed' THEN {} ELSE {"cut"})
             \cup ({p.kind} \cap {"use", "changeuser"})
  BY ParseStep
<1>3. requests \in Seq(Packet) /\ toServer \in Seq(Forward) /\ Len(toServer) \in Nat
  BY LenProperties DEF Typed
<1>4. first[1] = p
  <2>1. whole \in 0..Len(requests) /\ 1 \in 1..whole
    BY <1>1
  <2> HIDE DEF whole
  <2> QED BY <1>3, <2>1, Streams, FirstStream
<1>5. p.size \in Nat
  BY <1>1 DEF Packet
<1> HIDE DEF p, n, start, whole, first
<1>6. full = p.size
  <2>1. ~(full > p.size)
    BY <1>2
  <2> QED BY <1>1, <1>5, <2>1
<1>7. n = 1 /\ whole = 1 /\ AtPacket(requests, start)
  BY <1>1, <1>6
<1> DEFINE sent == Forwarded(first, 1, allowed)
<1>8. /\ sent \in Seq(Forward) /\ Len(sent) = 1 /\ toServer' = toServer \o sent
  BY <1>2, <1>7
<1>9. sent[1] = [kind |-> p.kind, name |-> p.name, settings |-> conn.db,
                 allowed |-> allowed, judged |-> IF p.kind \in Judged THEN 1 ELSE 0]
  <2>1. 1 \in DOMAIN first
    BY <1>2, <1>7
  <2> QED BY <1>4, <2>1 DEF Forwarded
<1> HIDE DEF sent
<1>10. /\ Len(toServer') = Len(toServer) + 1
       /\ \A i \in 1..Len(toServer) : toServer'[i] = toServer[i]
       /\ toServer'[Len(toServer) + 1] = sent[1]
  <2>1. /\ Len(toServer \o sent) = Len(toServer) + 1
        /\ \A i \in 1..Len(toServer) + 1 :
             (toServer \o sent)[i] = IF i <= Len(toServer) THEN toServer[i]
                                                         ELSE sent[i - Len(toServer)]
    <3>1. sent \in Seq(Forward) /\ Len(sent) = 1
      BY <1>8
    <3>2. /\ Len(toServer \o sent) = Len(toServer) + Len(sent)
          /\ \A i \in 1..Len(toServer) + Len(sent) :
               (toServer \o sent)[i] = IF i <= Len(toServer) THEN toServer[i]
                                                           ELSE sent[i - Len(toServer)]
      BY <1>3, <3>1, ConcatProperties
    <3> QED BY <3>1, <3>2
  <2>2. Len(toServer) + 1 \in 1..Len(toServer) + 1 /\ ~(Len(toServer) + 1 <= Len(toServer))
        /\ (Len(toServer) + 1) - Len(toServer) = 1
        /\ \A i \in 1..Len(toServer) : i \in 1..Len(toServer) + 1 /\ i <= Len(toServer)
    BY <1>3
  <2> QED BY <1>8, <2>1, <2>2
<1>11. Answer(ParseRequestPacket(p), IF allowed THEN 0 ELSE 1)
  BY <1>2, <1>7
<1>12. disturbed' = {} => disturbed = {} /\ allowed /\ framed'
                                         /\ p.kind \notin {"use", "changeuser"}
  BY <1>2
<1>13. "coalesced" \notin disturbed /\ requests' = From(requests, 1)
  BY <1>1, <1>2, <1>7
<1> QED BY <1>9, <1>10, <1>11, <1>12, <1>13 DEF p

\* The packets on the way to the server, but the first.
LEMMA Behind ==
  ASSUME Typed, toServer # <<>>
  PROVE  /\ Len(Tail(toServer)) = Len(toServer) - 1 /\ Len(toServer) \in Nat \ {0}
         /\ DOMAIN Tail(toServer) = 1..Len(toServer) - 1
         /\ DOMAIN toServer = 1..Len(toServer)
         /\ \A i \in 1..Len(toServer) - 1 : Tail(toServer)[i] = toServer[i + 1]
         /\ Head(toServer) = toServer[1]
<1>1. toServer \in Seq(Forward)
  BY DEF Typed
<1>2. /\ Tail(toServer) \in Seq(Forward) /\ Len(Tail(toServer)) = Len(toServer) - 1
      /\ \A i \in 1..Len(Tail(toServer)) : Tail(toServer)[i] = toServer[i + 1]
  BY <1>1, HeadTailProperties
<1>3. Len(toServer) \in Nat \ {0} /\ DOMAIN toServer = 1..Len(toServer)
  BY <1>1, EmptySeq, LenProperties
<1>4. DOMAIN Tail(toServer) = 1..Len(toServer) - 1
  BY <1>2, LenProperties
<1> QED BY <1>2, <1>3, <1>4

LEMMA JudgedStep == Typed /\ EveryQueryJudged /\ [Next]_vars => EveryQueryJudged'
<1> SUFFICES ASSUME Typed, EveryQueryJudged, [Next]_vars, "coalesced" \notin disturbed'
             PROVE  \A i \in DOMAIN toServer' : toServer'[i].kind \in {"query", "use", "prepare"}
                                                 => toServer'[i].judged = 1
  BY DEF EveryQueryJudged
<1>1. ASSUME toServer' = toServer, "coalesced" \notin disturbed
      PROVE  \A i \in DOMAIN toServer' : toServer'[i].kind \in {"query", "use", "prepare"}
                                          => toServer'[i].judged = 1
  BY <1>1 DEF EveryQueryJudged
<1>2. CASE Proxy_cb
  <2>1. PICK full \in ReadTo(requests, request_in, Cuts) :
          Proxy_cb_Waits(full) \/ Proxy_cb_Parses(full)
    BY <1>2 DEF Proxy_cb
  <2>2. framed
    BY <1>2 DEF Proxy_cb
  <2>3. full \in Nat /\ full <= Bytes(requests, Len(requests)) /\ Len(requests) > 0
    <3>1. Stream(requests) /\ request_in \in Int /\ Cuts \in SUBSET Nat
      BY <2>2, Streams, MySQLSessionAssumption DEF Typed
    <3> QED BY <2>1, <3>1, ReadWithin
  <2>4. CASE Proxy_cb_Waits(full)
    BY <1>1, <2>4 DEF Proxy_cb_Waits
  <2>5. CASE Proxy_cb_Parses(full)
    <3> DEFINE p == requests[1]
    <3>1. "coalesced" \notin disturbed
      BY <2>2, <2>3, <2>5, OneTaken
    <3>2. /\ Len(toServer') = Len(toServer) + 1
          /\ \A i \in 1..Len(toServer) : toServer'[i] = toServer[i]
          /\ \E allowed : toServer'[Len(toServer) + 1]
               = [kind |-> p.kind, name |-> p.name, settings |-> conn.db,
                  allowed |-> allowed, judged |-> IF p.kind \in Judged THEN 1 ELSE 0]
      BY <2>2, <2>3, <2>5, OneTaken
    <3> HIDE DEF p
    <3>3. toServer \in Seq(Forward) /\ toServer' \in Seq(Forward)
      BY <1>2, TypedProxy DEF Typed
    <3>4. /\ DOMAIN toServer = 1..Len(toServer) /\ Len(toServer) \in Nat
          /\ DOMAIN toServer' = 1..Len(toServer) + 1
      BY <3>2, <3>3, LenProperties
    <3> SUFFICES ASSUME NEW i \in 1..Len(toServer) + 1,
                        toServer'[i].kind \in {"query", "use", "prepare"}
                 PROVE  toServer'[i].judged = 1
      BY <3>4
    <3>5. CASE i \in 1..Len(toServer)
      BY <3>1, <3>2, <3>4, <3>5 DEF EveryQueryJudged
    <3>6. CASE i = Len(toServer) + 1
      BY <3>2, <3>6 DEF Judged
    <3> QED BY <3>4, <3>5, <3>6
  <2> QED BY <2>1, <2>4, <2>5
<1>3. CASE Backend_cb
  BY <1>1, <1>3 DEF Backend_cb
<1>4. CASE ClientLogsIn \/ ClientSends
  BY <1>1, <1>4 DEF ClientLogsIn, ClientSends, Sends
<1>5. CASE ServerAnswers
  <2>1. toServer # <<>> /\ toServer' = Tail(toServer) /\ disturbed' = disturbed
    BY <1>5, ServerStep DEF ServerReplies
  <2>2. /\ DOMAIN toServer' = 1..Len(toServer) - 1 /\ DOMAIN toServer = 1..Len(toServer)
        /\ \A i \in 1..Len(toServer) - 1 : toServer'[i] = toServer[i + 1]
        /\ Len(toServer) \in Nat
    BY <2>1, Behind
  <2>3. \A i \in 1..Len(toServer) - 1 : i + 1 \in 1..Len(toServer)
    BY <2>2
  <2> QED BY <2>1, <2>2, <2>3 DEF EveryQueryJudged
<1>6. CASE UNCHANGED vars
  BY <1>1, <1>6 DEF vars
<1> QED BY <1>2, <1>3, <1>4, <1>5, <1>6 DEF Next

\* However the bytes of the client arrive, what is to be judged reaches the
\* server judged, and once, as long as no read brings more than one packet: for
\* every way of cutting the stream.
THEOREM QueriesAreJudged == Spec => []EveryQueryJudged
<1>1. Init => Typed /\ EveryQueryJudged
  BY TypedInit DEF Init, EveryQueryJudged
<1>2. Typed /\ EveryQueryJudged /\ [Next]_vars => (Typed /\ EveryQueryJudged)'
  BY TypedProxy, TypedBackend, TypedClient, TypedServer, TypedStutter, JudgedStep DEF Next
<1> QED BY <1>1, <1>2, PTL DEF Spec

----------------------------------------------------------------------------
(* Queries are judged by the settings of the session's database.           *)

\* No two commands are under way: a client that keeps to the protocol has sent
\* at most one that is to be answered, and it is either with the proxy, or on
\* the way to the server, or answered.
InTurn ==
  /\ framed /\ owed \in {0, 1}
  /\ \A i \in 1..Len(requests) : i < Len(requests) \/ owed = 0 => requests[i].kind = "close"
  /\ \A i \in 1..Len(toServer) :
       i < Len(toServer) \/ requests # <<>> \/ owed = 0 => toServer[i].kind = "close"
  /\ responses # <<>> => requests = <<>> /\ toServer = <<>> /\ owed = 1
  /\ \A i \in 1..Len(responses) :
       responses[i].kind \in {"greeting", "ok", "err", "eof"} <=> i = Len(responses)
  /\ conn.first_request => /\ conn.lastCommandId = "sleep" /\ toServer = <<>>
                           /\ commands = 0 \/ (requests # <<>> /\ requests[1].kind = "login")

\* The proxy knows what is under way: the command the server will answer, the
\* database it asks for, and the settings that go with the session's database,
\* which differ from those in use only between an answer of the server and the
\* moment the proxy parses it.
InStep ==
  /\ \A i \in 1..Len(toServer) :
       /\ toServer[i].kind = "login"
            => conn.db = dbmap_find(toServer[i].name) /\ conn.lastCommandId = "sleep"
       /\ toServer[i].kind \notin {"login", "close"} => conn.lastCommandId = toServer[i].kind
       /\ toServer[i].kind = "initdb" => conn.db_new_name = toServer[i].name
       /\ toServer[i].kind \in Judged => toServer[i].settings = dbmap_find(serverDb)
       /\ toServer[i].kind \notin {"use", "changeuser"}
  /\ conn.lastCommandId = "initdb"
       => \A i \in 1..Len(responses) : \/ responses[i].kind = "err"
                                       \/ responses[i].kind = "ok" /\ conn.db_new_name = serverDb
  /\ \/ \E i \in 1..Len(toServer) : toServer[i].kind = "login"
     \/ conn.db = dbmap_find(serverDb)
     \/ conn.lastCommandId = "initdb" /\ \E i \in 1..Len(responses) : responses[i].kind = "ok"

Orderly == disturbed = {} => InTurn /\ InStep

\* What parsing responses does to the connection where no packet is cut.
LEMMA Followed ==
  ASSUME NEW c \in Connection, NEW ps \in Seq(Reply), NEW full \in Nat,
         NEW r, r = parseResponse(c, ps, full),
         NEW n, n = Whole(ps, r.bytes), Bytes(ps, n) = r.bytes
  PROVE  /\ n \in 0..Len(ps)
         /\ r.conn.lastCommandId = c.lastCommandId /\ r.conn.db_new_name = c.db_new_name
         /\ c.lastCommandId # "initdb" => r.conn.db = c.db
         /\ c.lastCommandId = "initdb" /\ Len(ps) = 1 /\ ps[1].kind \in {"ok", "err"}
              => r.conn.db = IF n = 1 /\ ps[1].kind = "ok" THEN dbmap_find(c.db_new_name)
                             ELSE c.db
<1> DEFINE m == Complete(ps, full)
           parsed == [c EXCEPT !.StartResponse = FALSE]
           seen == SubSeq(ps, 1, m)
<1>1. Stream(ps) /\ Len(ps) \in Nat
  BY Streams DEF Stream
<1>2. r.bytes \in Nat
  BY ParsedResponse
<1>3. n \in 0..Len(ps)
  BY <1>1, <1>2, WholeDef
<1>4. m \in 0..Len(ps)
  BY <1>1, CompleteDef
<1>5. r.conn.lastCommandId = c.lastCommandId /\ r.conn.db_new_name = c.db_new_name
  BY DEF parseResponse, ParseResponsePackets, Connection
<1>6. c.lastCommandId # "initdb" => r.conn.db = c.db
  BY DEF parseResponse, ParseResponsePackets, Connection
<1>7. ASSUME c.lastCommandId = "initdb", Len(ps) = 1, ps[1].kind \in {"ok", "err"}
      PROVE  r.conn.db = IF n = 1 /\ ps[1].kind = "ok" THEN dbmap_find(c.db_new_name) ELSE c.db
  <2>1. Bytes(ps, 0) = 0 /\ Bytes(ps, 1) = ps[1].size /\ ps[1].size \in Nat /\ ps[1].size >= 7
    <3>1. 1 \in 1..Len(ps)
      BY <1>7
    <3>2. ps[1] \in Reply
      BY <3>1, ElementOfSeq
    <3>3. Bytes(ps, 1) = ps[1].size
      BY <1>1, <1>7, WholeFirst
    <3>4. Bytes(ps, 0) = 0
      BY <1>1, BytesDef
    <3> QED BY <1>7, <3>2, <3>3, <3>4 DEF Reply
  <2>2. n \in {0, 1} /\ m \in {0, 1}
    BY <1>3, <1>4, <1>7
  <2>3. CASE full < 7
    <3>1. r.bytes <= full
      BY <1>2, ParsedResponse
    <3>2. n = 0
      BY <1>2, <2>1, <2>2, <2>3, <3>1
    <3>3. r.conn.db = c.db
      <4>1. r.conn = c \/ r.conn = parsed
        BY <1>7, <2>3 DEF parseResponse
      <4> QED BY <4>1 DEF Connection
    <3> QED BY <3>2, <3>3
  <2>4. CASE ~(full < 7)
    <3>1. ~(full < 5)
      BY <2>4
    <3>2. r = [conn |-> ParseResponsePackets(parsed, seen), bytes |-> Bytes(ps, m)]
      BY <1>7, <2>4, <3>1 DEF parseResponse
    <3>3. m = n
      BY <2>1, <2>2, <3>2
    <3>4. Len(seen) = n /\ DOMAIN seen = 1..n /\ \A i \in 1..n : seen[i] = ps[i]
      <4>1. seen \in Seq(Reply) /\ Len(seen) = m /\ \A i \in 1..m : seen[i] = ps[i]
        <5> HIDE DEF m
        <5> QED BY <1>1, <1>4, FirstStream
      <4> HIDE DEF seen, m
      <4> QED BY <3>3, <4>1, LenProperties
    <3>5. (\E i \in DOMAIN seen : seen[i].kind # "err") <=> (n = 1 /\ ps[1].kind = "ok")
      <4> HIDE DEF seen
      <4>1. CASE n = 0
        BY <3>4, <4>1
      <4>2. CASE n = 1
        <5>1. DOMAIN seen = {1} /\ seen[1] = ps[1]
          BY <3>4, <4>2
        <5> QED BY <1>7, <4>2, <5>1
      <4> QED BY <2>2, <4>1, <4>2
    <3>6. r.conn = ParseResponsePackets(parsed, seen)
      BY <3>2
    <3>7. /\ parsed.lastCommandId = "initdb" /\ parsed.db = c.db
          /\ parsed.db_new_name = c.db_new_name /\ parsed \in Connection
      BY <1>7 DEF Connection
    <3> HIDE DEF seen, parsed
    <3>8. r.conn.db = IF \E i \in DOMAIN seen : seen[i].kind # "err"
                      THEN dbmap_find(parsed.db_new_name) ELSE parsed.db
      BY <3>6, <3>7 DEF ParseResponsePackets, Connection
    <3> QED BY <3>5, <3>7, <3>8
  <2> QED BY <2>3, <2>4
<1> QED BY <1>3, <1>5, <1>6, <1>7

\* Where the last response only is an answer, the others are none.
LEMMA AnswersLast ==
  ASSUME NEW ps \in Seq(Reply), NEW n \in 0..Len(ps),
         \A i \in 1..Len(ps) :
           ps[i].kind \in {"greeting", "ok", "err", "eof"} <=> i = Len(ps)
  PROVE  Answers(SubSeq(ps, 1, n)) = IF n = Len(ps) /\ n # 0 THEN 1 ELSE 0
<1> DEFINE qs == SubSeq(ps, 1, n)
           S == {i \in DOMAIN qs : qs[i].kind \in {"greeting", "ok", "err", "eof"}}
<1>1. Len(ps) \in Nat
  BY LenProperties
<1>2. DOMAIN qs = 1..n /\ \A i \in 1..n : qs[i] = ps[i]
  <2>1. qs \in Seq(Reply) /\ Len(qs) = n /\ \A i \in 1..n : qs[i] = ps[i]
    BY Streams, FirstStream
  <2> HIDE DEF qs
  <2> QED BY <2>1, LenProperties
<1>3. Answers(qs) = Cardinality(S)
  BY DEF Answers
<1> HIDE DEF qs
<1>4. CASE n = Len(ps) /\ n # 0
  <2>1. S = {n}
    BY <1>1, <1>2, <1>4
  <2>2. Cardinality({n}) = 1
    BY FS_Singleton
  <2> QED BY <1>3, <1>4, <2>1, <2>2 DEF qs
<1>5. CASE ~(n = Len(ps) /\ n # 0)
  <2>1. S = {}
    BY <1>1, <1>2, <1>5
  <2> QED BY <1>3, <1>5, <2>1, FS_EmptySet DEF qs
<1> QED BY <1>4, <1>5

LEMMA OrderlyInit == Init => Orderly
<1> SUFFICES ASSUME Init PROVE InTurn /\ InStep
  BY DEF Orderly
<1>1. Len(requests) = 0 /\ Len(toServer) = 0
  BY DEF Init
<1>2. responses = <<Response("greeting")>>
  BY DEF Init
<1>3. Len(responses) = 1 /\ responses[1].kind = "greeting"
  BY <1>2 DEF Response
<1>4. InTurn
  BY <1>1, <1>3 DEF Init, InTurn
<1>5. InStep
  BY <1>1, <1>3 DEF Init, InStep
<1> QED BY <1>4, <1>5

LEMMA OrderlyStutter == Orderly /\ UNCHANGED vars => Orderly'
  BY DEF Orderly, InTurn, InStep, vars, up, down, dbmap_find

LEMMA OrderlyBackend == Typed /\ Orderly /\ Backend_cb => Orderly'
<1> SUFFICES ASSUME Typed, Orderly, Backend_cb, disturbed' = {} PROVE InTurn' /\ InStep'
  BY DEF Orderly
<1>1. PICK full \in ReadTo(responses, response_in, Cuts) :
        ProxyValidateServerResponse(conn, responses, full)
  BY DEF Backend_cb
<1>2. /\ framed /\ UNCHANGED <<requests, request_in, toServer, serverDb, commands>>
      /\ framed' /\ disturbed = {}
  BY DEF Backend_cb, up
<1>3. InTurn /\ InStep
  BY <1>2 DEF Orderly
<1>4. /\ conn \in Connection /\ responses \in Seq(Reply) /\ owed \in Int
      /\ response_in \in Int /\ Cuts \in SUBSET Nat /\ Len(responses) \in Nat
  BY <1>2, MySQLSessionAssumption, LenProperties DEF Typed
<1>5. full \in Nat /\ Len(responses) > 0
  BY <1>1, <1>4, Streams, ReadWithin
<1>6. responses # <<>> /\ requests = <<>> /\ toServer = <<>> /\ owed = 1
  <2>1. responses # <<>>
    BY <1>5
  <2> QED BY <1>3, <2>1 DEF InTurn
<1> DEFINE r == parseResponse(conn, responses, full)
           n == Whole(responses, r.bytes)
<1>7. /\ conn' = r.conn /\ responses' = From(responses, n)
      /\ owed' = owed - Answers(SubSeq(responses, 1, n))
      /\ Bytes(responses, n) = r.bytes
  BY <1>1, <1>2 DEF ProxyValidateServerResponse
<1>8. r.conn.first_request = conn.first_request
  BY <1>4, FirstKept
<1>9. /\ n \in 0..Len(responses)
      /\ r.conn.lastCommandId = conn.lastCommandId /\ r.conn.db_new_name = conn.db_new_name
      /\ conn.lastCommandId # "initdb" => r.conn.db = conn.db
      /\ conn.lastCommandId = "initdb" /\ Len(responses) = 1 /\ responses[1].kind \in {"ok", "err"}
           => r.conn.db = IF n = 1 /\ responses[1].kind = "ok" THEN dbmap_find(conn.db_new_name)
                          ELSE conn.db
  BY <1>4, <1>5, <1>7, Followed
<1> HIDE DEF r, n
<1>10. \A i \in 1..Len(responses) :
         responses[i].kind \in {"greeting", "ok", "err", "eof"} <=> i = Len(responses)
  BY <1>3 DEF InTurn
<1>11. owed' = IF n = Len(responses) THEN 0 ELSE 1
  <2>1. Answers(SubSeq(responses, 1, n)) = IF n = Len(responses) /\ n # 0 THEN 1 ELSE 0
    BY <1>4, <1>9, <1>10, AnswersLast
  <2> QED BY <1>5, <1>6, <1>7, <2>1
<1>12. /\ responses' \in Seq(Reply) /\ Len(responses') = Len(responses) - n
       /\ \A i \in 1..Len(responses) - n : responses'[i] = responses[n + i]
  BY <1>4, <1>7, <1>9, Streams, FromStream
<1>13. \A i \in 1..Len(responses') :
         /\ n + i \in 1..Len(responses) /\ responses'[i] = responses[n + i]
         /\ i = Len(responses') <=> n + i = Len(responses)
  BY <1>4, <1>9, <1>12
<1>14. Len(requests') = 0 /\ Len(toServer') = 0
  BY <1>2, <1>6
<1>15. InTurn'
  <2>1. responses' # <<>> => owed' = 1
    <3>1. responses' # <<>> => n # Len(responses)
      BY <1>4, <1>9, <1>12, EmptySeq
    <3> QED BY <1>11, <3>1
  <2>2. \A i \in 1..Len(responses') :
          responses'[i].kind \in {"greeting", "ok", "err", "eof"} <=> i = Len(responses')
    BY <1>10, <1>13
  <2>3. conn'.first_request => /\ conn'.lastCommandId = "sleep" /\ toServer' = <<>>
                               /\ commands' = 0 \/ (requests' # <<>> /\ requests'[1].kind = "login")
    BY <1>2, <1>3, <1>7, <1>8, <1>9 DEF InTurn
  <2>4. owed' \in {0, 1}
    BY <1>11
  <2> QED BY <1>2, <1>6, <1>14, <2>1, <2>2, <2>3, <2>4 DEF InTurn
<1>16. InStep'
  <2>1. conn'.lastCommandId = "initdb"
          => \A i \in 1..Len(responses') : \/ responses'[i].kind = "err"
                                           \/ /\ responses'[i].kind = "ok"
                                              /\ conn'.db_new_name = serverDb'
    BY <1>2, <1>3, <1>7, <1>9, <1>13 DEF InStep
  <2>2. \/ conn'.db = dbmap_find(serverDb)
        \/ conn'.lastCommandId = "initdb" /\ \E i \in 1..Len(responses') : responses'[i].kind = "ok"
    <3>1. \/ conn.db = dbmap_find(serverDb)
          \/ conn.lastCommandId = "initdb" /\ \E i \in 1..Len(responses) : responses[i].kind = "ok"
      BY <1>2, <1>3, <1>14 DEF InStep
    <3>2. CASE conn.lastCommandId # "initdb"
      BY <1>7, <1>9, <3>1, <3>2
    <3>3. CASE conn.lastCommandId = "initdb"
      <4>1. \A i \in 1..Len(responses) : \/ responses[i].kind = "err"
                                         \/ responses[i].kind = "ok" /\ conn.db_new_name = serverDb
        BY <1>3, <3>3 DEF InStep
      <4>2. 1 \in 1..Len(responses)
        BY <1>4, <1>5
      <4>3. Len(responses) = 1 /\ responses[1].kind \in {"ok", "err"}
        BY <1>10, <4>1, <4>2
      <4>4. conn'.db = IF n = 1 /\ responses[1].kind = "ok" THEN dbmap_find(conn.db_new_name)
                       ELSE conn.db
        BY <1>7, <1>9, <3>3, <4>3
      <4>5. CASE responses[1].kind = "err"
        <5>1. conn.db = dbmap_find(serverDb)
          BY <3>1, <4>3, <4>5
        <5> QED BY <4>4, <4>5, <5>1
      <4>6. CASE responses[1].kind = "ok" /\ n = 1
        BY <4>1, <4>2, <4>4, <4>6
      <4>7. CASE responses[1].kind = "ok" /\ n # 1
        <5>1. n = 0 /\ 1 \in 1..Len(responses')
          BY <1>9, <1>12, <4>3, <4>7
        <5>2. responses'[1].kind = "ok"
          BY <1>13, <4>7, <5>1
        <5>3. conn'.lastCommandId = "initdb"
          BY <1>7, <1>9, <3>3
        <5> QED BY <5>1, <5>2, <5>3
      <4> QED BY <4>3, <4>5, <4>6, <4>7
    <3> QED BY <3>2, <3>3
  <2>3. dbmap_find(serverDb') = dbmap_find(serverDb)
    BY <1>2
  <2>4. \/ conn'.db = dbmap_find(serverDb')
        \/ conn'.lastCommandId = "initdb" /\ \E i \in 1..Len(responses') : responses'[i].kind = "ok"
    BY <2>2, <2>3
  <2> QED BY <1>14, <2>1, <2>4 DEF InStep, dbmap_find
<1> QED BY <1>15, <1>16

\* What the first packet is, where the client keeps to the protocol.
LEMMA Underway ==
  ASSUME Typed, InTurn, requests # <<>>
  PROVE  /\ responses = <<>> /\ Len(responses) = 0 /\ 1 \in 1..Len(requests)
         /\ \A i \in 1..Len(toServer) : toServer[i].kind = "close"
         /\ conn.first_request => /\ requests[1].kind = "login" /\ Len(requests) = 1
                                  /\ owed = 1 /\ conn.lastCommandId = "sleep"
         /\ requests[1].kind = "login" => conn.first_request
         /\ Len(requests) > 1 \/ owed = 0 => requests[1].kind = "close"
<1>1. Len(requests) \in Nat \ {0} /\ 1 \in 1..Len(requests)
  BY EmptySeq DEF Typed
<1>2. responses = <<>> /\ Len(responses) = 0
  BY DEF InTurn
<1>3. \A i \in 1..Len(toServer) : toServer[i].kind = "close"
  BY DEF InTurn
<1>4. Len(requests) > 1 \/ owed = 0 => requests[1].kind = "close"
  BY <1>1 DEF InTurn
<1>5. ASSUME conn.first_request
      PROVE  /\ requests[1].kind = "login" /\ Len(requests) = 1
             /\ owed = 1 /\ conn.lastCommandId = "sleep"
  <2>1. requests[1].kind = "login" /\ conn.lastCommandId = "sleep"
    BY <1>5 DEF InTurn, Typed, LoginFirst
  <2>2. owed = 1
    BY <1>4, <2>1 DEF InTurn
  <2>3. ~(Len(requests) > 1)
    BY <1>4, <2>1
  <2>4. ASSUME NEW k \in Nat \ {0}, ~(k > 1) PROVE k = 1
    BY <2>4
  <2>5. Len(requests) = 1
    BY <1>1, <2>3, <2>4
  <2> QED BY <2>1, <2>2, <2>5
<1>6. requests[1].kind = "login" => conn.first_request
  BY <1>1 DEF Typed, LoginFirst
<1> QED BY <1>1, <1>2, <1>3, <1>4, <1>5, <1>6

\* The proxy takes a packet, and stays in step.
LEMMA OrderlyParse ==
  ASSUME Typed, InTurn, InStep, framed, disturbed' = {},
         NEW full \in Nat, Len(requests) > 0, full <= Bytes(requests, Len(requests)),
         Proxy_cb_Parses(full), UNCHANGED <<serverDb, commands>>
  PROVE  InTurn' /\ InStep'
<1> DEFINE p == requests[1]
           c == ParseRequestPacket(p)
           k == Len(toServer)
<1>1. PICK allowed \in BOOLEAN :
        /\ requests' = From(requests, 1)
        /\ Len(toServer') = k + 1
        /\ \A i \in 1..k : toServer'[i] = toServer[i]
        /\ toServer'[k + 1]
             = [kind |-> p.kind, name |-> p.name, settings |-> conn.db,
                allowed |-> allowed, judged |-> IF p.kind \in Judged THEN 1 ELSE 0]
        /\ Answer(c, IF allowed THEN 0 ELSE 1)
        /\ allowed /\ framed' /\ p.kind \notin {"use", "changeuser"}
  BY OneTaken
<1>2. conn' = c /\ UNCHANGED <<responses, response_in, owed>>
  <2> HIDE DEF c
  <2>1. Answer(c, 0)
    BY <1>1
  <2>2. owed \in Int
    BY DEF Typed
  <2> QED BY <2>1, <2>2 DEF Answer, down
<1>3. /\ requests # <<>> /\ Len(requests) \in Nat /\ conn \in Connection /\ k \in Nat
      /\ requests \in Seq(Packet)
  <2>1. requests # <<>>
    OBVIOUS
  <2> QED BY <2>1, LenProperties DEF Typed
<1>4. /\ responses = <<>> /\ Len(responses) = 0 /\ 1 \in 1..Len(requests)
      /\ \A i \in 1..k : toServer[i].kind = "close"
      /\ conn.first_request => /\ p.kind = "login" /\ Len(requests) = 1
                               /\ owed = 1 /\ conn.lastCommandId = "sleep"
      /\ p.kind = "login" => conn.first_request
      /\ Len(requests) > 1 \/ owed = 0 => p.kind = "close"
  BY <1>3, Underway
<1> DEFINE last == toServer'[k + 1]
<1>5. /\ last.kind = p.kind /\ last.name = p.name /\ last.settings = conn.db
  BY <1>1
<1>6. /\ Len(requests') = Len(requests) - 1 /\ requests' \in Seq(Packet)
      /\ \A i \in 1..Len(requests) - 1 : requests'[i] = requests[1 + i]
  <2>1. 1 \in 1..Len(requests) /\ requests' = From(requests, 1)
    BY <1>1, <1>4
  <2>2. \A i \in 1..Len(requests) - 1 : From(requests, 1)[i] = requests[1 + i]
    BY <2>1, Remaining
  <2>3. From(requests, 1) \in Seq(Packet) /\ Len(From(requests, 1)) = Len(requests) - 1
    BY <2>1, Remaining
  <2> QED BY <2>1, <2>2, <2>3
<1>7. /\ ~c.first_request
      /\ conn.first_request
           => c.lastCommandId = conn.lastCommandId /\ c.db = dbmap_find(p.name)
      /\ ~conn.first_request
           => /\ c.lastCommandId = p.kind /\ c.db = conn.db
              /\ p.kind = "initdb" => c.db_new_name = p.name
  <2>1. CASE conn.first_request
    <3>1. c = ParseLogin(conn, p)
      BY <2>1 DEF ParseRequestPacket
    <3> HIDE DEF c, p
    <3> QED BY <1>3, <2>1, <3>1 DEF ParseLogin, Connection
  <2>2. CASE ~conn.first_request
    <3>1. c = ParseCommand(conn, p)
      BY <2>2 DEF ParseRequestPacket
    <3> HIDE DEF c, p
    <3> QED BY <1>3, <2>2, <3>1 DEF ParseCommand, Connection
  <2> QED BY <2>1, <2>2
<1> HIDE DEF p, c, k, last
<1>8. \A i \in 1..k + 1 : i \in 1..k \/ i = k + 1
  BY <1>3
<1>9. requests' # <<>> => Len(requests) > 1
  BY <1>3, <1>6, EmptySeq
<1>10. InTurn'
  <2>1. \A i \in 1..Len(requests') : i < Len(requests') \/ owed' = 0 => requests'[i].kind = "close"
    <3> TAKE i \in 1..Len(requests')
    <3>1. /\ 1 + i \in 1..Len(requests) /\ requests'[i] = requests[1 + i]
          /\ i < Len(requests') => 1 + i < Len(requests)
      BY <1>3, <1>6
    <3> QED BY <1>2, <3>1 DEF InTurn
  <2>2. \A i \in 1..Len(toServer') :
          i < Len(toServer') \/ requests' # <<>> \/ owed' = 0 => toServer'[i].kind = "close"
    <3> SUFFICES ASSUME NEW i \in 1..k + 1, i < k + 1 \/ requests' # <<>> \/ owed' = 0
                 PROVE  toServer'[i].kind = "close"
      BY <1>1
    <3>1. CASE i \in 1..k
      BY <1>1, <1>4, <3>1
    <3>2. CASE i = k + 1
      <4>1. Len(requests) > 1 \/ owed = 0
        BY <1>2, <1>3, <1>9, <3>2
      <4> QED BY <1>4, <1>5, <3>2, <4>1 DEF last
    <3> QED BY <1>8, <3>1, <3>2
  <2>3. responses' = <<>> /\ Len(responses') = 0 /\ owed' \in {0, 1} /\ ~conn'.first_request
    BY <1>2, <1>4, <1>7 DEF InTurn
  <2> QED BY <1>1, <2>1, <2>2, <2>3 DEF InTurn
<1>11. InStep'
  <2>1. ASSUME NEW i \in 1..k + 1
        PROVE  /\ toServer'[i].kind = "login"
                    => conn'.db = dbmap_find(toServer'[i].name) /\ conn'.lastCommandId = "sleep"
               /\ toServer'[i].kind \notin {"login", "close"}
                    => conn'.lastCommandId = toServer'[i].kind
               /\ toServer'[i].kind = "initdb" => conn'.db_new_name = toServer'[i].name
               /\ toServer'[i].kind \in Judged => toServer'[i].settings = dbmap_find(serverDb)
               /\ toServer'[i].kind \notin {"use", "changeuser"}
    <3>1. CASE i \in 1..k
      <4>1. toServer'[i].kind = "close"
        BY <1>1, <1>4, <3>1
      <4> QED BY <4>1 DEF Judged
    <3>2. CASE i = k + 1
      <4>1. toServer'[i] = last
        BY <3>2 DEF last
      <4>2. CASE conn.first_request
        BY <1>2, <1>4, <1>5, <1>7, <4>1, <4>2 DEF Judged
      <4>3. CASE ~conn.first_request
        <5>1. p.kind # "login"
          BY <1>4, <4>3
        <5>2. conn.db = dbmap_find(serverDb)
          BY <1>4 DEF InStep, k
        <5> QED BY <1>1, <1>2, <1>5, <1>7, <4>1, <4>3, <5>1, <5>2
      <4> QED BY <4>2, <4>3
    <3> QED BY <1>8, <3>1, <3>2
  <2>2. \/ \E i \in 1..k + 1 : toServer'[i].kind = "login"
        \/ conn'.db = dbmap_find(serverDb)
    <3>1. CASE conn.first_request
      <4>1. toServer'[k + 1].kind = "login" /\ k + 1 \in 1..k + 1
        BY <1>3, <1>4, <1>5, <3>1 DEF last
      <4> QED BY <4>1
    <3>2. CASE ~conn.first_request
      <4>1. conn.db = dbmap_find(serverDb)
        BY <1>4 DEF InStep, k
      <4> QED BY <1>2, <1>7, <3>2, <4>1
    <3> QED BY <3>1, <3>2
  <2>3. \A name : dbmap_find(name)' = dbmap_find(name)
    BY DEF dbmap_find
  <2>4. Len(toServer') = k + 1 /\ Len(responses') = 0 /\ serverDb' = serverDb
    BY <1>1, <1>2, <1>4
  <2> QED BY <2>1, <2>2, <2>4 DEF InStep, dbmap_find, Judged
<1> QED BY <1>10, <1>11

LEMMA OrderlyProxy == Typed /\ Orderly /\ Proxy_cb => Orderly'
<1> SUFFICES ASSUME Typed, Orderly, Proxy_cb, disturbed' = {} PROVE InTurn' /\ InStep'
  BY DEF Orderly
<1>1. PICK full \in ReadTo(requests, request_in, Cuts) :
        Proxy_cb_Waits(full) \/ Proxy_cb_Parses(full)
  BY DEF Proxy_cb
<1>2. framed /\ UNCHANGED <<serverDb, commands>>
  BY DEF Proxy_cb
<1>3. full \in Nat /\ full <= Bytes(requests, Len(requests)) /\ Len(requests) > 0
  <2>1. Stream(requests) /\ request_in \in Int /\ Cuts \in SUBSET Nat
    BY <1>2, Streams, MySQLSessionAssumption DEF Typed
  <2> QED BY <1>1, <2>1, ReadWithin
<1>4. CASE Proxy_cb_Waits(full)
  <2>1. UNCHANGED <<conn, requests, responses, toServer, owed, framed, disturbed,
                    serverDb, commands>>
    BY <1>2, <1>4 DEF Proxy_cb_Waits, down
  <2> QED BY <2>1 DEF Orderly, InTurn, InStep, dbmap_find
<1>5. CASE Proxy_cb_Parses(full)
  <2>1. disturbed = {}
    BY <1>2, <1>3, <1>5, OneTaken
  <2>2. InTurn /\ InStep
    BY <2>1 DEF Orderly
  <2> QED BY <1>2, <1>3, <1>5, <2>2, OrderlyParse
<1> QED BY <1>1, <1>4, <1>5

\* The client sends a command.
LEMMA OrderlySends ==
  ASSUME Typed, InTurn, InStep, NEW p \in Packet, NEW answers \in {0, 1},
         Sends(p, answers), owed = 0,
         answers = 0 => p.kind = "close",
         \/ commands = 0 /\ p.kind = "login"
         \/ ~conn.first_request
  PROVE  InTurn' /\ InStep'
<1>1. /\ requests' = Append(requests, p) /\ owed' = answers
      /\ UNCHANGED <<conn, responses, toServer, serverDb, framed>>
  BY DEF Sends, down
<1>2. requests \in Seq(Packet) /\ Len(requests) \in Nat
  BY LenProperties DEF Typed
<1>3. /\ Len(requests') = Len(requests) + 1
      /\ \A i \in 1..Len(requests) : requests'[i] = requests[i]
      /\ requests'[Len(requests) + 1] = p /\ requests' # <<>>
  BY <1>1, <1>2, AppendProperties
<1>4. responses = <<>> /\ Len(responses) = 0
  BY DEF InTurn
<1>5. \A i \in 1..Len(requests') :
        i < Len(requests') \/ owed' = 0 => requests'[i].kind = "close"
  <2> SUFFICES ASSUME NEW i \in 1..Len(requests) + 1, i < Len(requests) + 1 \/ answers = 0
               PROVE  requests'[i].kind = "close"
    BY <1>1, <1>3
  <2>1. CASE i \in 1..Len(requests)
    BY <1>3, <2>1 DEF InTurn
  <2>2. CASE i = Len(requests) + 1
    BY <1>2, <1>3, <2>2
  <2> QED BY <1>2, <2>1, <2>2
<1>6. \A i \in 1..Len(toServer') : toServer'[i].kind = "close"
  BY <1>1 DEF InTurn
<1>7. conn'.first_request => /\ conn'.lastCommandId = "sleep" /\ toServer' = <<>>
                             /\ requests'[1].kind = "login"
  <2> SUFFICES ASSUME conn.first_request
               PROVE  /\ conn.lastCommandId = "sleep" /\ toServer = <<>>
                      /\ requests'[1].kind = "login"
    BY <1>1
  <2>1. commands = 0 /\ p.kind = "login"
    OBVIOUS
  <2>2. Len(requests) = 0
    BY <2>1, EmptySeq DEF Typed, LoginFirst
  <2> QED BY <1>3, <2>1, <2>2 DEF InTurn
<1>8. InTurn'
  BY <1>1, <1>3, <1>4, <1>5, <1>6, <1>7 DEF InTurn
<1>9. InStep'
  BY <1>1 DEF InStep, dbmap_find
<1> QED BY <1>8, <1>9

LEMMA OrderlyClient == Typed /\ Orderly /\ (ClientLogsIn \/ ClientSends) => Orderly'
<1> SUFFICES ASSUME Typed, Orderly, ClientLogsIn \/ ClientSends, disturbed' = {}
             PROVE  InTurn' /\ InStep'
  BY DEF Orderly
<1>1. disturbed = {} /\ owed <= 0
  BY DEF ClientLogsIn, ClientSends, Sends
<1>2. InTurn /\ InStep
  BY <1>1 DEF Orderly
<1>3. owed = 0
  BY <1>1, <1>2 DEF InTurn
<1>4. CASE ClientLogsIn
  <2>1. PICK name \in Name : Sends(Request("login", name), 1)
    BY <1>4 DEF ClientLogsIn
  <2>2. Request("login", name) \in Packet
    BY Requested
  <2>3. Request("login", name).kind = "login" /\ commands = 0
    BY <1>4 DEF Request, ClientLogsIn
  <2> QED BY <1>2, <1>3, <2>1, <2>2, <2>3, OrderlySends
<1>5. CASE ClientSends
  <2>1. PICK kind \in Command, name \in Name :
          Sends(Request(kind, name), IF kind = "close" THEN 0 ELSE 1)
    BY <1>5 DEF ClientSends
  <2>2. Request(kind, name) \in Packet /\ Request(kind, name).kind = kind
    <3>1. kind \in AllCommands
      BY MySQLSessionAssumption
    <3> QED BY <3>1, Requested DEF Request
  <2>3. ~conn.first_request
    <3> SUFFICES ASSUME conn.first_request PROVE FALSE
      OBVIOUS
    <3>1. commands # 0
      BY <1>5, MySQLSessionAssumption DEF ClientSends
    <3>2. requests # <<>> /\ requests[1].kind = "login"
      BY <1>2, <3>1 DEF InTurn
    <3>3. owed = 1
      BY <1>2, <3>2, Underway
    <3> QED BY <1>3, <3>3
  <2> DEFINE answers == IF kind = "close" THEN 0 ELSE 1
  <2>4. answers \in {0, 1} /\ (answers = 0 => kind = "close")
    OBVIOUS
  <2>5. Sends(Request(kind, name), answers)
    BY <2>1
  <2> HIDE DEF answers
  <2> QED BY <1>2, <1>3, <2>2, <2>3, <2>4, <2>5, OrderlySends
<1> QED BY <1>4, <1>5

\* Where there is no response yet, the replies are the responses.
LEMMA RepliesFirst ==
  ASSUME Typed, Len(responses) = 0,
         NEW kinds \in Seq({"greeting", "ok", "err", "row", "eof"}), NEW database \in Name,
         ServerReplies(kinds, database)
  PROVE  /\ Len(responses') = Len(kinds) /\ Len(kinds) \in Nat
         /\ \A i \in 1..Len(kinds) : responses'[i].kind = kinds[i]
         /\ responses' # <<>> => Len(kinds) # 0
         /\ serverDb' = database /\ toServer' = Tail(toServer)
         /\ UNCHANGED <<conn, requests, owed, commands, framed, disturbed>>
<1> DEFINE rs == [i \in DOMAIN kinds |-> Response(kinds[i])]
<1>1. /\ responses' = responses \o rs /\ serverDb' = database /\ toServer' = Tail(toServer)
      /\ UNCHANGED <<conn, requests, owed, commands, framed, disturbed>>
  BY DEF ServerReplies, up
<1>2. Len(kinds) \in Nat /\ DOMAIN kinds = 1..Len(kinds)
  BY LenProperties
<1>3. \A i \in 1..Len(kinds) : rs[i].kind = kinds[i]
  BY <1>2 DEF Response
<1>4. rs \in Seq(Reply) /\ Len(rs) = Len(kinds)
  BY Replies
<1> HIDE DEF rs
<1>5. responses \in Seq(Reply)
  BY DEF Typed
<1>6. /\ Len(responses') = Len(kinds) /\ responses' \in Seq(Reply)
      /\ \A i \in 1..Len(kinds) : responses'[i] = rs[i]
  <2>1. /\ responses \o rs \in Seq(Reply) /\ Len(responses \o rs) = 0 + Len(kinds)
        /\ \A i \in 1..0 + Len(kinds) :
             (responses \o rs)[i] = IF i <= 0 THEN responses[i] ELSE rs[i - 0]
    BY <1>4, <1>5, ConcatProperties
  <2> QED BY <1>1, <1>2, <2>1
<1>7. responses' # <<>> => Len(kinds) # 0
  BY <1>6, EmptySeq
<1> QED BY <1>1, <1>2, <1>3, <1>6, <1>7

LEMMA OrderlyServer == Typed /\ Orderly /\ ServerAnswers => Orderly'
<1> SUFFICES ASSUME Typed, Orderly, ServerAnswers, disturbed' = {} PROVE InTurn' /\ InStep'
  BY DEF Orderly
<1> DEFINE p == Head(toServer)
           k == Len(toServer)
<1>1. framed /\ toServer # <<>> /\ p \in Forward
  BY ServerStep
<1>2. InTurn /\ InStep
  <2>1. disturbed = {}
    BY ServerStep DEF ServerReplies
  <2> QED BY <2>1 DEF Orderly
<1>3. /\ Len(Tail(toServer)) = k - 1 /\ k \in Nat \ {0}
      /\ \A i \in 1..k - 1 : Tail(toServer)[i] = toServer[i + 1]
      /\ p = toServer[1]
  BY <1>1, Behind
<1>4. responses = <<>> /\ Len(responses) = 0 /\ ~conn.first_request
  BY <1>1, <1>2 DEF InTurn
<1>5. \A i \in 1..k - 1 : i + 1 \in 1..k /\ (i < k - 1 => i + 1 < k)
  BY <1>3
<1>6. p.kind \in AllCommands \cup {"login"} /\ p.name \in Name /\ serverDb \in Name
  BY <1>1 DEF Forward, Typed
<1>7. CASE p.kind = "close"
  <2>1. ServerReplies(<<>>, serverDb)
    BY <1>7 DEF ServerAnswers
  <2>2. /\ Len(responses') = 0 /\ responses' = <<>> /\ serverDb' = serverDb
        /\ toServer' = Tail(toServer)
        /\ UNCHANGED <<conn, requests, owed, commands, framed, disturbed>>
    <3>1. Len(<<>>) = 0 /\ <<>> \in Seq({"greeting", "ok", "err", "row", "eof"})
      BY EmptySeq
    <3> QED BY <1>4, <1>6, <2>1, <3>1, RepliesFirst
  <2>3. Len(toServer') = k - 1 /\ \A i \in 1..k - 1 : toServer'[i] = toServer[i + 1]
    BY <1>3, <2>2
  <2> HIDE DEF p, k
  <2>4. \A i \in 1..Len(toServer') :
          i < Len(toServer') \/ requests' # <<>> \/ owed' = 0 => toServer'[i].kind = "close"
    BY <1>2, <1>5, <2>2, <2>3 DEF InTurn, k
  <2>5. InTurn'
    BY <1>2, <1>4, <2>2, <2>4 DEF InTurn
  <2>6. \A i \in 1..k - 1 :
          /\ toServer'[i].kind = "login"
               => conn'.db = dbmap_find(toServer'[i].name) /\ conn'.lastCommandId = "sleep"
          /\ toServer'[i].kind \notin {"login", "close"} => conn'.lastCommandId = toServer'[i].kind
          /\ toServer'[i].kind = "initdb" => conn'.db_new_name = toServer'[i].name
          /\ toServer'[i].kind \in Judged => toServer'[i].settings = dbmap_find(serverDb)
          /\ toServer'[i].kind \notin {"use", "changeuser"}
    BY <1>2, <1>5, <2>2, <2>3 DEF InStep, k
  <2>7. \/ \E i \in 1..k - 1 : toServer'[i].kind = "login"
        \/ conn'.db = dbmap_find(serverDb)
    <3>1. (\E i \in 1..k : toServer[i].kind = "login") \/ conn.db = dbmap_find(serverDb)
      BY <1>2, <1>4 DEF InStep, k
    <3>2. ASSUME NEW i \in 1..k, toServer[i].kind = "login"
          PROVE  \E j \in 1..k - 1 : toServer'[j].kind = "login"
      <4>1. i # 1
        BY <1>3, <1>7, <3>2
      <4>2. i - 1 \in 1..k - 1 /\ (i - 1) + 1 = i
        BY <1>3, <4>1
      <4>3. toServer'[i - 1].kind = "login"
        BY <2>3, <3>2, <4>2
      <4> QED BY <4>2, <4>3
    <3> QED BY <2>2, <3>1, <3>2
  <2>8. InStep'
    <3>1. dbmap_find(serverDb') = dbmap_find(serverDb)
          /\ \A name : dbmap_find(name)' = dbmap_find(name)
      BY <2>2 DEF dbmap_find
    <3>2. \A i \in 1..Len(toServer') :
            /\ toServer'[i].kind = "login"
                 => conn'.db = dbmap_find(toServer'[i].name) /\ conn'.lastCommandId = "sleep"
            /\ toServer'[i].kind \notin {"login", "close"}
                 => conn'.lastCommandId = toServer'[i].kind
            /\ toServer'[i].kind = "initdb" => conn'.db_new_name = toServer'[i].name
            /\ toServer'[i].kind \in Judged => toServer'[i].settings = dbmap_find(serverDb')
            /\ toServer'[i].kind \notin {"use", "changeuser"}
      BY <2>3, <2>6, <3>1
    <3>3. \/ \E i \in 1..Len(toServer') : toServer'[i].kind = "login"
          \/ conn'.db = dbmap_find(serverDb')
      BY <2>3, <2>7, <3>1
    <3> QED BY <2>2, <3>2, <3>3 DEF InStep, Judged
  <2> QED BY <2>5, <2>8
<1>8. CASE p.kind # "close"
  <2>1. k = 1 /\ requests = <<>> /\ owed = 1
    <3>1. 1 \in 1..k
      BY <1>3
    <3>2. ~(1 < k) /\ requests = <<>> /\ owed # 0
      BY <1>2, <1>3, <1>8, <3>1 DEF InTurn
    <3> QED BY <1>2, <1>3, <3>2 DEF InTurn
  <2> DEFINE K == {"greeting", "ok", "err", "row", "eof"}
  <2>2. p.kind \notin {"use", "changeuser"}
    BY <1>2, <1>3, <2>1 DEF InStep
  <2>3. PICK kinds \in {<<"ok">>, <<"err">>, <<"row", "eof">>}, database \in Name :
          /\ ServerReplies(kinds, database)
          /\ \/ p.kind \in {"login", "initdb"} /\ kinds = <<"ok">> /\ database = p.name
             \/ /\ p.kind # "login" /\ database = serverDb
                /\ p.kind = "initdb" => kinds = <<"err">>
    <3>1. \/ p.kind \in {"login", "initdb"} /\ ServerReplies(<<"ok">>, p.name)
          \/ p.kind \in {"query", "prepare", "ping"} /\ ServerReplies(<<"ok">>, serverDb)
          \/ p.kind \in {"query", "prepare", "initdb", "ping"} /\ ServerReplies(<<"err">>, serverDb)
          \/ p.kind = "query" /\ ServerReplies(<<"row", "eof">>, serverDb)
      BY <1>8, <2>2 DEF ServerAnswers
    <3> QED BY <1>6, <3>1
  <2>4. /\ kinds \in Seq(K) /\ Len(kinds) \in Nat \ {0}
        /\ \A i \in 1..Len(kinds) :
             kinds[i] \in {"greeting", "ok", "err", "eof"} <=> i = Len(kinds)
    <3>1. CASE kinds = <<"ok">>
      BY <3>1
    <3>2. CASE kinds = <<"err">>
      BY <3>2
    <3>3. CASE kinds = <<"row", "eof">>
      <4>1. /\ Len(kinds) = 2 /\ kinds \in Seq(K) /\ kinds[1] = "row" /\ kinds[2] = "eof"
            /\ \A i \in 1..2 : i = 1 \/ i = 2
        BY <3>3
      <4> QED BY <4>1
    <3> QED BY <3>1, <3>2, <3>3
  <2>5. /\ Len(responses') = Len(kinds)
        /\ \A i \in 1..Len(kinds) : responses'[i].kind = kinds[i]
        /\ serverDb' = database /\ toServer' = Tail(toServer)
        /\ UNCHANGED <<conn, requests, owed, commands, framed, disturbed>>
    BY <1>4, <2>3, <2>4, RepliesFirst
  <2>6. toServer' = <<>> /\ Len(toServer') = 0
    <3>1. Tail(toServer) \in Seq(Forward)
      BY <1>1, HeadTailProperties DEF Typed
    <3> QED BY <1>3, <2>1, <2>5, <3>1, EmptySeq
  <2> HIDE DEF p, k, K
  <2>7. InTurn'
    BY <1>2, <1>4, <2>1, <2>4, <2>5, <2>6 DEF InTurn
  <2>8. p.kind # "login" => conn.lastCommandId = p.kind
    BY <1>2, <1>3, <1>8, <2>1 DEF InStep, k
  <2>9. p.kind = "login" => conn.db = dbmap_find(p.name) /\ conn.lastCommandId = "sleep"
    BY <1>2, <1>3, <2>1 DEF InStep, k
  <2>10. p.kind = "initdb" => conn.db_new_name = p.name
    BY <1>2, <1>3, <2>1 DEF InStep, k
  <2>11. p.kind # "login" => conn.db = dbmap_find(serverDb)
    <3>1. (\E i \in 1..k : toServer[i].kind = "login") \/ conn.db = dbmap_find(serverDb)
      BY <1>2, <1>4 DEF InStep, k
    <3> QED BY <1>3, <2>1, <3>1
  <2>12. conn.lastCommandId = "initdb"
          => \A i \in 1..Len(kinds) : \/ kinds[i] = "err"
                                      \/ kinds[i] = "ok" /\ conn.db_new_name = database
    <3> SUFFICES ASSUME conn.lastCommandId = "initdb", NEW i \in 1..Len(kinds)
                 PROVE  kinds[i] = "err" \/ (kinds[i] = "ok" /\ conn.db_new_name = database)
      OBVIOUS
    <3>1. p.kind = "initdb"
      BY <2>8, <2>9
    <3>2. (kinds = <<"ok">> /\ database = p.name) \/ kinds = <<"err">>
      BY <2>3, <3>1
    <3> QED BY <2>10, <3>1, <3>2
  <2>13. \/ conn.db = dbmap_find(database)
         \/ conn.lastCommandId = "initdb" /\ \E i \in 1..Len(kinds) : kinds[i] = "ok"
    <3>1. CASE p.kind = "login"
      BY <2>3, <2>9, <3>1
    <3>2. CASE p.kind = "initdb" /\ kinds = <<"ok">>
      <4>1. conn.lastCommandId = "initdb"
        BY <2>8, <3>2
      <4>2. 1 \in 1..Len(kinds) /\ kinds[1] = "ok"
        BY <3>2
      <4> QED BY <4>1, <4>2
    <3>3. CASE p.kind # "login" /\ ~(p.kind = "initdb" /\ kinds = <<"ok">>)
      BY <2>3, <2>11, <3>3
    <3> QED BY <3>1, <3>2, <3>3
  <2>14. InStep'
    BY <2>5, <2>6, <2>12, <2>13 DEF InStep, dbmap_find
  <2> QED BY <2>7, <2>14
<1> QED BY <1>7, <1>8

\* A query is judged by the settings of the database the server runs it in:
\* however the streams are cut, whichever database the client logs in to or
\* changes to, and whatever the server answers, as long as nothing that is
\* listed under disturbed has happened.
THEOREM JudgedByTheRightSettings == Spec => []JudgedBySettings
<1>1. Init => Typed /\ Orderly
  BY TypedInit, OrderlyInit
<1>2. Typed /\ Orderly /\ [Next]_vars => (Typed /\ Orderly)'
  BY TypedProxy, TypedBackend, TypedClient, TypedServer, TypedStutter,
     OrderlyProxy, OrderlyBackend, OrderlyClient, OrderlyServer, OrderlyStutter DEF Next
<1>3. Typed /\ Orderly => JudgedBySettings
  <2> SUFFICES ASSUME Typed, Orderly, disturbed = {}, toServer # <<>>, Head(toServer).kind \in Judged
               PROVE  Head(toServer).settings = dbmap_find(serverDb)
    BY DEF JudgedBySettings
  <2>1. Head(toServer) = toServer[1] /\ 1 \in 1..Len(toServer)
    BY Behind
  <2> QED BY <2>1 DEF Orderly, InStep
<1> QED BY <1>1, <1>2, <1>3, PTL DEF Spec

----------------------------------------------------------------------------
(* What first brings the proxy out of step.                                *)

\* The client has sent no command without an answer, and nothing has happened
\* but what one of the other entries of disturbed stands for.
OthersFirst ==
  /\ \A i \in 1..Len(requests) : requests[i].kind # "close"
  /\ disturbed \cap {"blocked", "cut", "use", "changeuser"} = {} => disturbed = {}

\* A client that waits for each answer has at most one packet with the proxy.
LEMMA OneAtATime ==
  ASSUME Typed, InTurn, Len(requests) > 0,
         \A i \in 1..Len(requests) : requests[i].kind # "close"
  PROVE  Len(requests) = 1 /\ Bytes(requests, Len(requests)) = requests[1].size
<1>1. requests \in Seq(Packet) /\ Len(requests) \in Nat /\ 1 \in 1..Len(requests)
  BY LenProperties DEF Typed
<1>2. ~(1 < Len(requests))
  BY <1>1 DEF InTurn
<1>3. ASSUME NEW k \in Nat, k > 0, ~(1 < k) PROVE k = 1
  BY <1>3
<1>4. Len(requests) = 1
  BY <1>1, <1>2, <1>3
<1>5. Bytes(requests, 1) = requests[1].size
  BY <1>1, Streams, WholeFirst
<1> QED BY <1>4, <1>5

LEMMA OthersFirstProxy == Typed /\ Orderly /\ OthersFirst /\ Proxy_cb => OthersFirst'
<1> SUFFICES ASSUME Typed, Orderly, OthersFirst, Proxy_cb PROVE OthersFirst'
  OBVIOUS
<1>1. PICK full \in ReadTo(requests, request_in, Cuts) :
        Proxy_cb_Waits(full) \/ Proxy_cb_Parses(full)
  BY DEF Proxy_cb
<1>2. framed
  BY DEF Proxy_cb
<1>3. full \in Nat /\ full <= Bytes(requests, Len(requests)) /\ Len(requests) > 0
  <2>1. Stream(requests) /\ request_in \in Int /\ Cuts \in SUBSET Nat
    BY <1>2, Streams, MySQLSessionAssumption DEF Typed
  <2> QED BY <1>1, <2>1, ReadWithin
<1>4. CASE Proxy_cb_Waits(full)
  BY <1>4 DEF OthersFirst, Proxy_cb_Waits
<1>5. CASE Proxy_cb_Parses(full)
  <2> DEFINE p == requests[1]
             whole == Whole(requests, Repeats(p.size, full) * p.size)
  <2>1. /\ whole \in 1..Len(requests) /\ requests' = From(requests, whole) /\ p \in Packet
        /\ \E allowed \in BOOLEAN :
             disturbed' = disturbed
               \cup (IF full > p.size THEN {"coalesced"} ELSE {})
               \cup (IF allowed THEN {} ELSE {"blocked"})
               \cup (IF framed' THEN {} ELSE {"cut"})
               \cup ({p.kind} \cap {"use", "changeuser"})
    BY <1>2, <1>3, <1>5, ParseStep
  <2> HIDE DEF whole
  <2>2. Len(requests) \in Nat
    BY LenProperties DEF Typed
  <2>3. \A i \in 1..Len(requests') : requests'[i].kind # "close"
    <3>1. /\ Len(requests') = Len(requests) - whole
          /\ \A i \in 1..Len(requests) - whole : requests'[i] = requests[whole + i]
      BY <2>1, Remaining
    <3>2. \A i \in 1..Len(requests) - whole : whole + i \in 1..Len(requests)
      BY <2>1, <2>2
    <3> QED BY <3>1, <3>2 DEF OthersFirst
  <2>4. ASSUME disturbed' \cap {"blocked", "cut", "use", "changeuser"} = {}
        PROVE  disturbed' = {}
    <3>1. disturbed = {}
      BY <2>1, <2>4 DEF OthersFirst
    <3>2. ~(full > p.size)
      <4>1. Bytes(requests, Len(requests)) = p.size
        BY <1>3, <3>1, OneAtATime DEF OthersFirst, Orderly
      <4>2. p.size \in Nat
        BY <2>1 DEF Packet
      <4> QED BY <1>3, <4>1, <4>2
    <3> HIDE DEF p
    <3> QED BY <2>1, <2>4, <3>1, <3>2
  <2> QED BY <2>3, <2>4 DEF OthersFirst
<1> QED BY <1>1, <1>4, <1>5

LEMMA OthersFirstClient ==
  ASSUME "close" \notin Command
  PROVE  Typed /\ OthersFirst /\ (ClientLogsIn \/ ClientSends) => OthersFirst'
<1> SUFFICES ASSUME Typed, OthersFirst, ClientLogsIn \/ ClientSends PROVE OthersFirst'
  OBVIOUS
<1>1. PICK kind \in AllCommands \cup {"login"}, name \in Name :
        kind # "close" /\ \E answers : Sends(Request(kind, name), answers)
  <2>1. CASE ClientLogsIn
    BY <2>1 DEF ClientLogsIn
  <2>2. CASE ClientSends
    BY <2>2, MySQLSessionAssumption DEF ClientSends
  <2> QED BY <2>1, <2>2
<1>2. requests' = Append(requests, Request(kind, name)) /\ disturbed' = disturbed
  BY <1>1 DEF Sends
<1>3. Request(kind, name) \in Packet /\ Request(kind, name).kind # "close"
  BY <1>1, Requested DEF Request
<1>4. requests \in Seq(Packet) /\ Len(requests) \in Nat
  BY LenProperties DEF Typed
<1> HIDE DEF Request
<1>5. /\ Len(requests') = Len(requests) + 1
      /\ \A i \in 1..Len(requests) : requests'[i] = requests[i]
      /\ requests'[Len(requests) + 1] = Request(kind, name)
  BY <1>2, <1>3, <1>4, AppendProperties
<1>6. \A i \in 1..Len(requests) + 1 : i \in 1..Len(requests) \/ i = Len(requests) + 1
  BY <1>4
<1> QED BY <1>2, <1>3, <1>5, <1>6 DEF OthersFirst

\* A client all of whose commands are answered never has two packets in one
\* read of the proxy, unless something else has come before: a packet cut in
\* its header, a query that was blocked (it is answered twice, by the proxy and
\* by the server it is sent to all the same), or a command whose change of the
\* database the proxy does not see.
THEOREM CoalescesOnlyAfterOthers ==
  ASSUME "close" \notin Command
  PROVE  Spec => [](disturbed \cap {"blocked", "cut", "use", "changeuser"} = {}
                      => disturbed = {})
<1>1. Init => Typed /\ Orderly /\ OthersFirst
  <2>1. Init => OthersFirst
    BY EmptySeq DEF Init, OthersFirst
  <2> QED BY <2>1, TypedInit, OrderlyInit
<1>2. Typed /\ Orderly /\ OthersFirst /\ [Next]_vars => (Typed /\ Orderly /\ OthersFirst)'
  <2>1. Typed /\ OthersFirst /\ Backend_cb => OthersFirst'
    BY DEF OthersFirst, Backend_cb, up
  <2>2. Typed /\ OthersFirst /\ ServerAnswers => OthersFirst'
    <3> SUFFICES ASSUME Typed, OthersFirst, ServerAnswers PROVE OthersFirst'
      OBVIOUS
    <3>1. UNCHANGED <<requests, disturbed>>
      BY DEF ServerAnswers, ServerReplies, up
    <3> QED BY <3>1 DEF OthersFirst
  <2>3. OthersFirst /\ UNCHANGED vars => OthersFirst'
    BY DEF OthersFirst, vars, up
  <2> QED BY <2>1, <2>2, <2>3, TypedProxy, TypedBackend, TypedClient, TypedServer, TypedStutter,
             OrderlyProxy, OrderlyBackend, OrderlyClient, OrderlyServer, OrderlyStutter,
             OthersFirstProxy, OthersFirstClient DEF Next
<1>3. OthersFirst => (disturbed \cap {"blocked", "cut", "use", "changeuser"} = {}
                        => disturbed = {})
  BY DEF OthersFirst
<1> QED BY <1>1, <1>2, <1>3, PTL DEF Spec
=============================================================================
