------------------------- MODULE PgSQLSessionProofs -------------------------
(***************************************************************************)
(* Proofs about PgSQLSession, for all startup messages, all batches and    *)
(* every way of cutting the two streams into reads.                        *)
(***************************************************************************)
EXTENDS PgSQLSession, PacketsProofs

----------------------------------------------------------------------------
(* The startup message.                                                    *)

\* The parts of the definition of DatabaseFrom.
HasName(ps, i) == ps[i].letter \in DOMAIN Length
Inside(ps, i) == ValueAt(ps, i) < Bytes(ps, Len(ps))
NextAt(ps, i) ==
  IF ~HasName(ps, i) THEN i + 1
  ELSE IF Inside(ps, i) THEN Whole(ps, ValueAt(ps, i)) + 2 ELSE Len(ps) + 1
FoundAt(ps, i) ==
  IF ps[i].letter = "d" /\ Inside(ps, i) THEN StringAt(ps, ValueAt(ps, i)) ELSE NoDatabase

\* What the parser finds from the string k on, or one further on.
IsFrom(f, ps, k) ==
  f = [i \in k..Len(ps) + 1 |->
         IF i = Len(ps) + 1 THEN NoDatabase
         ELSE IF f[NextAt(ps, i)] # NoDatabase THEN f[NextAt(ps, i)] ELSE FoundAt(ps, i)]

LEMMA FromDef ==
  ASSUME NEW ps
  PROVE  DatabaseFrom(ps) = (CHOOSE f : IsFrom(f, ps, 1))[1]
  BY DEF DatabaseFrom, IsFrom, NextAt, FoundAt, HasName, Inside

\* Startup parameters have sizes.
LEMMA ParameterStream ==
  ASSUME NEW ps \in Seq(Parameter)
  PROVE  /\ Stream(ps) /\ Len(ps) \in Nat /\ DOMAIN ps = 1..Len(ps)
         /\ \A i \in 1..Len(ps) : ps[i] \in Parameter
<1>1. Len(ps) \in Nat /\ DOMAIN ps = 1..Len(ps) /\ \A i \in 1..Len(ps) : ps[i] \in Parameter
  BY LenProperties, ElementOfSeq
<1>2. \A i \in 1..Len(ps) : ps[i].size \in Nat \ {0}
  BY <1>1 DEF Parameter
<1> QED BY <1>1, <1>2 DEF Stream

\* The parser goes forward, and not past the end.
LEMMA Forwards ==
  ASSUME NEW ps \in Seq(Parameter), NEW i \in 1..Len(ps)
  PROVE  NextAt(ps, i) \in i + 1..Len(ps) + 1
<1>1. Stream(ps) /\ Len(ps) \in Nat
  BY ParameterStream
<1>2. CASE ~HasName(ps, i)
  BY <1>1, <1>2 DEF NextAt
<1>3. CASE HasName(ps, i) /\ ~Inside(ps, i)
  BY <1>1, <1>3 DEF NextAt
<1>4. CASE HasName(ps, i) /\ Inside(ps, i)
  <2> DEFINE v == ValueAt(ps, i)
             w == Whole(ps, v)
  <2>1. i - 1 \in 0..Len(ps) /\ Len(ps) \in 0..Len(ps)
    BY <1>1
  <2>2. Bytes(ps, i - 1) \in Nat /\ Bytes(ps, Len(ps)) \in Nat
    BY <1>1, <2>1, BytesDef
  <2>3. Length[ps[i].letter] \in Nat
    BY <1>4 DEF HasName, Length
  <2>4. v \in Nat /\ Bytes(ps, i - 1) <= v /\ v < Bytes(ps, Len(ps))
    BY <1>4, <2>2, <2>3 DEF ValueAt, Inside
  <2>5. NextAt(ps, i) = w + 2
    BY <1>4 DEF NextAt
  <2> HIDE DEF v
  <2>6. w \in 0..Len(ps) /\ Bytes(ps, w) <= v /\ i - 1 <= w
    BY <1>1, <2>1, <2>4, WholeDef
  <2>7. w # Len(ps)
    BY <2>2, <2>4, <2>6
  <2> QED BY <1>1, <2>5, <2>6, <2>7
<1> QED BY <1>2, <1>3, <1>4

\* The function by which DatabaseFrom is defined exists.
LEMMA FromExists ==
  ASSUME NEW ps \in Seq(Parameter)
  PROVE  \E f : IsFrom(f, ps, 1)
<1> DEFINE end == Len(ps) + 1
           S == {n \in Nat : n > Len(ps) \/ \E f : IsFrom(f, ps, end - n)}
<1>1. Len(ps) \in Nat
  BY ParameterStream
<1>2. 0 \in S
  <2> DEFINE f == [i \in end..end |-> NoDatabase]
  <2>1. end - 0 = end /\ \A i \in end..end : i = end
    BY <1>1
  <2>2. IsFrom(f, ps, end)
    BY <2>1 DEF IsFrom
  <2> QED BY <2>1, <2>2
<1>3. ASSUME NEW n \in Nat, n \in S PROVE n + 1 \in S
  <2> SUFFICES ASSUME ~(n + 1 > Len(ps)) PROVE \E f : IsFrom(f, ps, end - (n + 1))
    OBVIOUS
  <2>1. PICK f : IsFrom(f, ps, end - n)
    BY <1>1, <1>3
  <2> DEFINE k == end - (n + 1)
             step == IF f[NextAt(ps, k)] # NoDatabase THEN f[NextAt(ps, k)] ELSE FoundAt(ps, k)
             g == [i \in k..end |-> IF i = k THEN step ELSE f[i]]
  <2>2. /\ k \in 1..Len(ps) /\ end - n = k + 1 /\ end \in Nat /\ k # end
        /\ \A i \in k..end : i = k \/ i \in k + 1..end
    BY <1>1
  <2>3. \A i \in k..end : i # end => NextAt(ps, i) \in k + 1..end /\ NextAt(ps, i) \in k..end
    <3> TAKE i \in k..end
    <3> HAVE i # end
    <3>1. i \in 1..Len(ps)
      BY <1>1, <2>2
    <3>2. NextAt(ps, i) \in i + 1..end
      BY <3>1, Forwards
    <3> QED BY <2>2, <3>2
  <2> HIDE DEF k
  <2>4. \A j \in k + 1..end : g[j] = f[j]
    BY <2>2
  <2>5. \A i \in k + 1..end :
          f[i] = IF i = end THEN NoDatabase
                 ELSE IF f[NextAt(ps, i)] # NoDatabase THEN f[NextAt(ps, i)] ELSE FoundAt(ps, i)
    BY <2>1, <2>2 DEF IsFrom
  <2>6. ASSUME NEW i \in k..end
        PROVE  g[i] = IF i = end THEN NoDatabase
                      ELSE IF g[NextAt(ps, i)] # NoDatabase THEN g[NextAt(ps, i)]
                           ELSE FoundAt(ps, i)
    <3>1. CASE i = k
      <4>1. g[i] = step /\ g[NextAt(ps, k)] = f[NextAt(ps, k)]
        BY <2>2, <2>3, <2>4, <3>1
      <4> QED BY <2>2, <3>1, <4>1
    <3>2. CASE i \in k + 1..end
      <4>1. g[i] = f[i] /\ (i # end => g[NextAt(ps, i)] = f[NextAt(ps, i)])
        BY <2>3, <2>4, <3>2
      <4> HIDE DEF g
      <4> QED BY <2>5, <3>2, <4>1
    <3> QED BY <2>2, <3>1, <3>2
  <2>7. IsFrom(g, ps, k)
    <3>1. g = [i \in k..end |-> g[i]]
      OBVIOUS
    <3> HIDE DEF g
    <3> QED BY <2>6, <3>1 DEF IsFrom
  <2> QED BY <2>7 DEF k
<1>4. Nat \subseteq S
  <2> HIDE DEF S
  <2> QED BY <1>2, <1>3, Steps
<1>5. Len(ps) \in S /\ end - Len(ps) = 1 /\ ~(Len(ps) > Len(ps))
  BY <1>1, <1>4
<1> QED BY <1>5

\* Odd numbers are two apart.
LEMMA Odd ==
  /\ \A a \in Nat : a % 2 = 1 => a # 0
  /\ \A a, b \in Nat : a % 2 = 1 /\ b % 2 = 1 /\ a < b => a + 2 <= b
  /\ \A a, n \in Nat : a % 2 = 1 => (a - 2 * n) % 2 = 1
  /\ \A a, b \in Nat : a % 2 = 1 /\ b % 2 = 1 /\ b <= a => \E n \in Nat : b = a - 2 * n
<1>1. ASSUME NEW a \in Nat, NEW b \in Nat, a % 2 = 1, b % 2 = 1, b <= a
      PROVE  \E n \in Nat : b = a - 2 * n
  <2>1. (a - b) \div 2 \in Nat /\ b = a - 2 * ((a - b) \div 2)
    BY <1>1
  <2> QED BY <2>1
<1>2. ASSUME NEW a \in Nat, NEW n \in Nat, a % 2 = 1 PROVE (a - 2 * n) % 2 = 1
  BY <1>2
<1>3. ASSUME NEW a \in Nat, NEW b \in Nat, a % 2 = 1, b % 2 = 1, a < b PROVE a + 2 <= b
  BY <1>3
<1>4. ASSUME NEW a \in Nat, a % 2 = 1 PROVE a # 0
  BY <1>4
<1> QED BY <1>1, <1>2, <1>3, <1>4

\* Startup messages of a client: names and values in turn, and an empty string.
Startup(ps) == ps \in Seq(Parameter) /\ Len(ps) % 2 = 1 /\ ps[Len(ps)].text = ""

\* Where the value of a parameter is taken to be, if the name is the one that
\* begins with its letter.
LEMMA ValueBehindName ==
  ASSUME NEW ps, Startup(ps), NEW i \in 1..Len(ps) - 1, NEW c \in DOMAIN Option,
         ps[i].text = Option[c]
  PROVE  /\ ps[i].letter = c /\ HasName(ps, i) /\ Inside(ps, i)
         /\ ValueAt(ps, i) = Bytes(ps, i) /\ Whole(ps, ValueAt(ps, i)) = i
<1>1. Stream(ps) /\ Len(ps) \in Nat /\ ps[i] \in Parameter /\ i \in 1..Len(ps)
  <2>1. Stream(ps) /\ Len(ps) \in Nat /\ \A j \in 1..Len(ps) : ps[j] \in Parameter
    BY ParameterStream DEF Startup
  <2>2. i \in 1..Len(ps)
    BY <2>1
  <2> QED BY <2>1, <2>2
<1>2. ps[i].letter = c /\ ps[i].size = Length[c] + 1 /\ Length[c] \in Nat /\ c \in DOMAIN Length
  <2>1. ps[i].letter = c /\ ps[i].size = Length[c] + 1
    BY <1>1 DEF Parameter
  <2>2. Length[c] \in Nat /\ c \in DOMAIN Length
    BY DEF Option, Length
  <2> QED BY <2>1, <2>2
<1>3. i \in 0..Len(ps) /\ i - 1 \in 0..Len(ps) /\ Len(ps) \in 0..Len(ps) /\ i < Len(ps)
  BY <1>1
<1>4. /\ Bytes(ps, i) = Bytes(ps, i - 1) + ps[i].size
      /\ Bytes(ps, i - 1) \in Nat /\ Bytes(ps, i) < Bytes(ps, Len(ps))
  BY <1>1, <1>3, BytesDef, BytesGrow
<1>5. ValueAt(ps, i) = Bytes(ps, i)
  BY <1>2, <1>4 DEF ValueAt
<1>6. Whole(ps, Bytes(ps, i)) = i
  BY <1>1, <1>3, WholeAt
<1> QED BY <1>2, <1>4, <1>5, <1>6 DEF HasName, Inside

\* Of a parameter that does not name the database nothing is taken, and its
\* value is skipped.
LEMMA Skips ==
  ASSUME NEW ps, Startup(ps), Plain(ps), NEW f, IsFrom(f, ps, 1),
         NEW i \in 1..Len(ps) - 2, i % 2 = 1, ps[i].text # "database"
  PROVE  f[i] = f[i + 2]
<1>1. Len(ps) \in Nat /\ DOMAIN ps = 1..Len(ps)
  BY ParameterStream DEF Startup
<1>2. /\ i \in 1..Len(ps) + 1 /\ i # Len(ps) + 1 /\ i \in 1..Len(ps) - 1 /\ i < Len(ps)
      /\ i + 1 \in 1..Len(ps) + 1 /\ i + 1 # Len(ps) + 1 /\ (i + 1) + 1 = i + 2
      /\ i \in DOMAIN ps
  BY <1>1
<1>3. \A j \in 1..Len(ps) + 1 :
        f[j] = IF j = Len(ps) + 1 THEN NoDatabase
               ELSE IF f[NextAt(ps, j)] # NoDatabase THEN f[NextAt(ps, j)] ELSE FoundAt(ps, j)
  BY DEF IsFrom
<1>4. /\ f[i] = IF f[NextAt(ps, i)] # NoDatabase THEN f[NextAt(ps, i)] ELSE FoundAt(ps, i)
      /\ f[i + 1] = IF f[NextAt(ps, i + 1)] # NoDatabase THEN f[NextAt(ps, i + 1)]
                     ELSE FoundAt(ps, i + 1)
  BY <1>2, <1>3
<1>5. ASSUME NEW c \in DOMAIN Option, c # "d", ps[i].text = Option[c]
      PROVE  f[i] = f[i + 2]
  <2>1. NextAt(ps, i) = i + 2
    BY <1>2, <1>5, ValueBehindName DEF NextAt
  <2>2. FoundAt(ps, i) = NoDatabase
    BY <1>2, <1>5, ValueBehindName DEF FoundAt
  <2> QED BY <1>4, <2>1, <2>2
<1>6. CASE ps[i].text \notin {"user", "database", "options"}
  <2>1. {ps[i].letter, ps[i + 1].letter} \cap DOMAIN Length = {}
    BY <1>2, <1>6 DEF Plain
  <2>2. ~HasName(ps, i) /\ ~HasName(ps, i + 1) /\ ps[i].letter # "d" /\ ps[i + 1].letter # "d"
    BY <2>1 DEF HasName, Length
  <2>3. NextAt(ps, i) = i + 1 /\ NextAt(ps, i + 1) = i + 2
    BY <1>2, <2>2 DEF NextAt
  <2>4. FoundAt(ps, i) = NoDatabase /\ FoundAt(ps, i + 1) = NoDatabase
    BY <2>2 DEF FoundAt
  <2> QED BY <1>4, <2>3, <2>4
<1>7. CASE ps[i].text \in {"user", "options"}
  <2>1. \E c \in DOMAIN Option : c # "d" /\ ps[i].text = Option[c]
    <3>1. Option["u"] = "user" /\ Option["o"] = "options"
          /\ "u" \in DOMAIN Option /\ "o" \in DOMAIN Option /\ "u" # "d" /\ "o" # "d"
      BY DEF Option
    <3> QED BY <1>7, <3>1
  <2> QED BY <1>5, <2>1
<1> QED BY <1>6, <1>7

\* At the end nothing is found.
LEMMA EndsWithNone ==
  ASSUME NEW ps, Startup(ps), NEW f, IsFrom(f, ps, 1)
  PROVE  f[Len(ps)] = NoDatabase
<1>1. Len(ps) \in Nat \ {0}
  BY ParameterStream, Odd DEF Startup
<1>2. Len(ps) \in 1..Len(ps) + 1 /\ Len(ps) + 1 \in 1..Len(ps) + 1 /\ Len(ps) # Len(ps) + 1
      /\ Len(ps) \in 1..Len(ps)
  BY <1>1
<1>3. ps[Len(ps)].letter = ""
  <2>1. ps[Len(ps)] \in Parameter
    BY <1>2, ParameterStream DEF Startup
  <2> QED BY <2>1 DEF Startup, Parameter
<1>4. NextAt(ps, Len(ps)) = Len(ps) + 1 /\ FoundAt(ps, Len(ps)) = NoDatabase
  BY <1>3 DEF NextAt, FoundAt, HasName, Length
<1> QED BY <1>2, <1>4 DEF IsFrom

\* The parser finds the database the server takes in every plain startup
\* message, whatever the order, the number and the sizes of its parameters.
THEOREM DatabaseFound ==
  ASSUME NEW ps, Startup(ps), Plain(ps)
  PROVE  DatabaseFrom(ps) = DatabaseOf(ps)
<1>1. Stream(ps) /\ Len(ps) \in Nat /\ DOMAIN ps = 1..Len(ps)
  BY ParameterStream DEF Startup
<1>2. PICK d \in 1..Len(ps) : Named(ps, "database") = {d} /\ ps[d + 1].size > 1
  BY <1>1 DEF Plain
<1>3. d % 2 = 1 /\ ps[d].text = "database" /\ Len(ps) % 2 = 1
      /\ \A i \in 1..Len(ps) : i % 2 = 1 /\ ps[i].text = "database" => i = d
  BY <1>1, <1>2 DEF Named, Startup
<1>4. d # Len(ps)
  BY <1>3 DEF Startup
<1>5. d + 2 \in 1..Len(ps) /\ d + 2 <= Len(ps) /\ d + 1 \in 1..Len(ps) /\ d \in 1..Len(ps) - 1
  <2>1. d \in Nat /\ d < Len(ps)
    <3>1. Len(ps) \in Nat
      BY <1>1
    <3> QED BY <1>4, <3>1
  <2>2. d + 2 <= Len(ps)
    <3>1. \A a, b \in Nat : a % 2 = 1 /\ b % 2 = 1 /\ a < b => a + 2 <= b
      BY Odd
    <3>2. PICK len \in Nat : len = Len(ps) /\ len % 2 = 1
      BY <1>1, <1>3, Zenon
    <3>3. d % 2 = 1 /\ d < len
      BY <1>3, <2>1, <3>2, Zenon
    <3>4. d + 2 <= len
      BY <2>1, <3>1, <3>2, <3>3
    <3> QED BY <3>2, <3>4, Zenon
  <2> QED BY <1>1, <2>1, <2>2
<1> DEFINE f == CHOOSE g : IsFrom(g, ps, 1)
           name == ps[d + 1].text
<1>6. IsFrom(f, ps, 1)
  BY FromExists DEF Startup
<1>7. DatabaseFrom(ps) = f[1]
  BY FromDef
<1> HIDE DEF f
<1>8. ASSUME NEW i \in 1..Len(ps) - 2, i % 2 = 1, i # d PROVE f[i] = f[i + 2]
  <2>1. ps[i].text # "database"
    BY <1>1, <1>3, <1>8
  <2> QED BY <1>6, <1>8, <2>1, Skips
<1>9. f[d + 2] = NoDatabase
  <2> DEFINE S == {n \in Nat : d + 2 <= Len(ps) - 2 * n => f[Len(ps) - 2 * n] = NoDatabase}
  <2>1. 0 \in S
    <3>1. Len(ps) - 2 * 0 = Len(ps) /\ f[Len(ps)] = NoDatabase
      BY <1>1, <1>6, EndsWithNone
    <3> QED BY <3>1
  <2>2. ASSUME NEW n \in Nat, n \in S PROVE n + 1 \in S
    <3> DEFINE i == Len(ps) - 2 * (n + 1)
    <3> SUFFICES ASSUME d + 2 <= i PROVE f[i] = NoDatabase
      OBVIOUS
    <3>1. i \in 1..Len(ps) - 2 /\ i + 2 = Len(ps) - 2 * n /\ i # d /\ d + 2 <= i + 2
      <4>1. Len(ps) \in Nat /\ d \in Nat \ {0}
        BY <1>1
      <4> QED BY <4>1
    <3>2. i % 2 = 1
      <4>1. \A a, m \in Nat : a % 2 = 1 => (a - 2 * m) % 2 = 1
        BY Odd
      <4>2. n + 1 \in Nat
        OBVIOUS
      <4>3. Len(ps) % 2 = 1
        BY <1>3
      <4> QED BY <1>1, <4>1, <4>2, <4>3, Zenon
    <3>3. f[Len(ps) - 2 * n] = NoDatabase
      BY <2>2, <3>1
    <3> QED BY <1>8, <3>1, <3>2, <3>3
  <2>3. Nat \subseteq S
    <3> HIDE DEF S
    <3> QED BY <2>1, <2>2, Steps
  <2>4. PICK n \in Nat : d + 2 = Len(ps) - 2 * n
    <3>1. d + 2 \in Nat /\ (d + 2) % 2 = 1
      BY <1>3
    <3> QED BY <1>1, <1>3, <1>5, <3>1, Odd
  <2>5. n \in S
    BY <2>3
  <2> QED BY <1>5, <2>4, <2>5
<1>10. f[d] = name
  <2>1. /\ ps[d].letter = "d" /\ HasName(ps, d) /\ Inside(ps, d)
        /\ ValueAt(ps, d) = Bytes(ps, d) /\ Whole(ps, ValueAt(ps, d)) = d
    <3>1. "d" \in DOMAIN Option /\ ps[d].text = Option["d"]
      BY <1>3 DEF Option
    <3> QED BY <1>5, <3>1, ValueBehindName
  <2>2. NextAt(ps, d) = d + 2
    BY <2>1 DEF NextAt
  <2>3. FoundAt(ps, d) = name
    <3>1. Bytes(ps, d + 1) = Bytes(ps, d) + ps[d + 1].size /\ Bytes(ps, d) \in Nat
      <4>1. (d + 1) - 1 = d /\ d \in 0..Len(ps)
        BY <1>1
      <4> QED BY <1>1, <1>5, <4>1, BytesDef
    <3>2. ps[d + 1].size \in Nat
      BY <1>1, <1>5 DEF Stream
    <3>3. Bytes(ps, d) # Bytes(ps, d + 1) - 1
      BY <1>2, <3>1, <3>2
    <3>4. StringAt(ps, Bytes(ps, d)) = name
      <4>1. Whole(ps, Bytes(ps, d)) + 1 = d + 1 /\ (d + 1) - 1 = d
        BY <2>1
      <4> QED BY <3>3, <4>1 DEF StringAt
    <3> QED BY <2>1, <3>4 DEF FoundAt
  <2>4. d \in 1..Len(ps) + 1 /\ d # Len(ps) + 1
    BY <1>1
  <2> QED BY <1>6, <1>9, <2>2, <2>3, <2>4 DEF IsFrom
<1>11. f[1] = name
  <2> DEFINE S == {n \in Nat : 1 <= d - 2 * n => f[d - 2 * n] = name}
  <2>1. 0 \in S
    <3>1. d - 2 * 0 = d
      OBVIOUS
    <3> QED BY <1>10, <3>1
  <2>2. ASSUME NEW n \in Nat, n \in S PROVE n + 1 \in S
    <3> DEFINE i == d - 2 * (n + 1)
    <3> SUFFICES ASSUME 1 <= i PROVE f[i] = name
      OBVIOUS
    <3>1. i \in 1..Len(ps) - 2 /\ i + 2 = d - 2 * n /\ i # d /\ 1 <= i + 2
      BY <1>1
    <3>2. i % 2 = 1
      BY <1>3, Odd
    <3>3. f[d - 2 * n] = name
      BY <2>2, <3>1
    <3> QED BY <1>8, <3>1, <3>2, <3>3
  <2>3. Nat \subseteq S
    <3> HIDE DEF S
    <3> QED BY <2>1, <2>2, Steps
  <2>4. PICK n \in Nat : 1 = d - 2 * n
    BY <1>3, Odd
  <2>5. n \in S
    BY <2>3
  <2> QED BY <2>4, <2>5
<1>12. DatabaseOf(ps) = name
  <2>1. Max({d}) \in {d}
    <3>1. {d} \in SUBSET (0..Len(ps)) /\ {d} # {}
      BY <1>1
    <3> QED BY <1>1, <3>1, Greatest
  <2> QED BY <1>2, <2>1 DEF DatabaseOf
<1> QED BY <1>7, <1>11, <1>12
----------------------------------------------------------------------------
(* The inductive invariant.                                                *)

\* Messages with the sizes and the parameters they can have.
Message ==
  {p \in [kind : Kind, size : Nat \ {0}, parameters : Seq(Parameter)] :
     /\ p.kind = "ssl" => p.size = 8
     /\ p.kind = "startup" => p.parameters \in Startups}
Reply == [kind : {"auth", "authok", "status", "complete", "ready", "error"}, size : Nat \ {0}]
Forward ==
  {p \in [kind : Kind, size : Nat \ {0}, parameters : Seq(Parameter),
          settings : Settings, allowed : BOOLEAN, judged : Nat] :
     p.kind = "startup" => p.parameters \in Startups}

Connection == [first_request : BOOLEAN, SecondPacket : BOOLEAN, db : Settings]

\* The types, of the buffers with the messages in them.
Typed ==
  /\ conn \in Connection
  /\ requests \in Seq(Message) /\ request_in \in 0..Bytes(requests, Len(requests))
  /\ responses \in Seq(Reply) /\ response_in \in 0..Bytes(responses, Len(responses))
  /\ toServer \in Seq(Forward) /\ serverDb \in STRING \cup {NoDatabase}
  /\ turn \in {"start", "login", "password", "command", "wait"}
  /\ batches \in 0..MaxBatches /\ framed \in BOOLEAN
  /\ disturbed \subseteq {"parameters", "eight", "inside"}

\* The first message is the startup message, after one that asks for SSL, and
\* while the server has not seen it nothing else is under way.
LoginFirst ==
  /\ turn \in {"start", "login"} => requests = <<>> /\ conn.first_request
  /\ conn.first_request =>
       /\ responses = <<>> /\ toServer = <<>> /\ turn \in {"start", "login", "wait"}
       /\ Len(requests) <= 1
       /\ \A i \in DOMAIN requests : requests[i].kind \in {"ssl", "startup"}
  /\ ~conn.first_request => \A i \in DOMAIN requests : requests[i].kind \notin {"ssl", "startup"}
  /\ (\E i \in DOMAIN toServer : toServer[i].kind = "startup") =>
       Len(toServer) = 1 /\ requests = <<>> /\ responses = <<>> /\ turn = "wait"

\* The database the server is in, or will be in when it takes what is first.
Database ==
  IF toServer # <<>> /\ toServer[1].kind = "startup" THEN DatabaseOf(toServer[1].parameters)
  ELSE serverDb

\* The settings of the connection are those of that database.
SettingsFound ==
  ~conn.first_request /\ "parameters" \notin disturbed => conn.db = dbmap_find(Database)

Inv == Typed /\ LoginFirst /\ SettingsFound /\ EveryQueryJudged /\ JudgedBySettings

----------------------------------------------------------------------------
(* Types of what the actions compute.                                      *)

\* Messages of both sides have sizes.
LEMMA Streams ==
  /\ \A ps \in Seq(Message) : Stream(ps)
  /\ \A ps \in Seq(Reply) : Stream(ps)
<1>1. ASSUME NEW ps \in Seq(Message) PROVE Stream(ps)
  <2>1. \A i \in 1..Len(ps) : ps[i] \in Message
    BY ElementOfSeq
  <2>2. \A i \in 1..Len(ps) : ps[i].size \in Nat \ {0}
    BY <2>1 DEF Message
  <2> QED BY <2>2, LenProperties DEF Stream
<1>2. ASSUME NEW ps \in Seq(Reply) PROVE Stream(ps)
  <2>1. \A i \in 1..Len(ps) : ps[i] \in Reply
    BY ElementOfSeq
  <2>2. \A i \in 1..Len(ps) : ps[i].size \in Nat \ {0}
    BY <2>1 DEF Reply
  <2> QED BY <2>2, LenProperties DEF Stream
<1> QED BY <1>1, <1>2

\* Every kind has a size.
LEMMA Sizes == (\A kind : Size(kind) \in Nat \ {0}) /\ Size("ssl") = 8
<1>1. ASSUME NEW kind PROVE Size(kind) \in Nat \ {0}
  BY DEF Size
<1> QED BY <1>1 DEF Size

\* The settings found for a name are settings there are.
LEMMA Found == \A name : dbmap_find(name) \in Settings
  BY DEF dbmap_find, Settings

\* A startup message of the client is one as the protocol has it, and what it
\* names as the database is a string.
LEMMA StartupType ==
  ASSUME NEW ps \in Startups
  PROVE  Startup(ps) /\ DatabaseOf(ps) \in STRING \cup {NoDatabase} /\ ps \in Seq(Parameter)
<1>1. Startup(ps) /\ ps \in Seq(Parameter)
  BY PgSQLSessionAssumption DEF Startup
<1>2. Len(ps) \in Nat /\ DOMAIN ps = 1..Len(ps) /\ \A i \in 1..Len(ps) : ps[i] \in Parameter
  BY <1>1, ParameterStream
<1>3. CASE Named(ps, "database") = {}
  BY <1>1, <1>3 DEF DatabaseOf
<1>4. CASE Named(ps, "database") # {}
  <2> DEFINE i == Max(Named(ps, "database"))
  <2>1. i \in Named(ps, "database")
    <3>1. Named(ps, "database") \in SUBSET (0..Len(ps))
      BY <1>2 DEF Named
    <3> QED BY <1>2, <1>4, <3>1, Greatest
  <2> HIDE DEF i
  <2>2. i \in 1..Len(ps) /\ ps[i].text = "database"
    BY <1>2, <2>1 DEF Named
  <2>3. i # Len(ps)
    BY <1>1, <2>2 DEF Startup
  <2>4. i + 1 \in 1..Len(ps)
    <3>1. Len(ps) \in Nat
      BY <1>2
    <3> QED BY <2>2, <2>3, <3>1
  <2>5. ps[i + 1].text \in STRING
    BY <1>2, <2>4 DEF Parameter
  <2>6. DatabaseOf(ps) = ps[i + 1].text
    BY <1>4 DEF DatabaseOf, i
  <2> QED BY <1>1, <2>5, <2>6
<1> QED BY <1>1, <1>3, <1>4

\* What is left of a read when the packets it holds are taken.
LEMMA Rest ==
  ASSUME NEW T, NEW ps \in Seq(T), Stream(ps), NEW n \in 0..Len(ps), NEW full \in Nat,
         Bytes(ps, n) <= full, full <= Bytes(ps, Len(ps))
  PROVE  full - Bytes(ps, n) \in 0..Bytes(From(ps, n), Len(From(ps, n)))
<1>1. Len(ps) \in Nat /\ Len(ps) \in 0..Len(ps)
  BY DEF Stream
<1>2. Bytes(ps, n) \in Nat /\ Bytes(ps, Len(ps)) \in Nat
  BY <1>1, BytesDef
<1>3. Bytes(From(ps, n), Len(From(ps, n))) = Bytes(ps, Len(ps)) - Bytes(ps, n)
  <2>1. Len(ps) - n \in 0..Len(ps) - n /\ n + (Len(ps) - n) = Len(ps)
    BY <1>1
  <2> QED BY <2>1, FromStream
<1> QED BY <1>2, <1>3

\* What a read of the proxy holds.
LEMMA ReadOf ==
  ASSUME NEW T, NEW ps \in Seq(T), Stream(ps), NEW n \in Int, NEW full \in ReadTo(ps, n, Cuts)
  PROVE  /\ full \in Nat /\ full > n /\ full <= Bytes(ps, Len(ps)) /\ Len(ps) > 0
         /\ Whole(ps, full) \in 0..Len(ps) /\ Bytes(ps, Whole(ps, full)) \in 0..full
<1>1. Cuts \in SUBSET Nat
  BY PgSQLSessionAssumption
<1>2. full \in Nat /\ full > n /\ full <= Bytes(ps, Len(ps)) /\ Len(ps) > 0
  BY <1>1, ReadWithin
<1>3. Whole(ps, full) \in 0..Len(ps) /\ Bytes(ps, Whole(ps, full)) <= full
  BY <1>2, WholeDef
<1>4. Bytes(ps, Whole(ps, full)) \in Nat
  BY <1>3, BytesDef
<1> QED BY <1>2, <1>3, <1>4

\* parseResponse releases the messages that are complete, or nothing, and
\* changes what it knows of the password only.
LEMMA ParsedResponse ==
  ASSUME NEW c \in Connection, NEW ps \in Seq(Reply), NEW n \in Int,
         NEW full \in ReadTo(ps, n, Cuts), NEW r, r = parseResponse(c, ps, full)
  PROVE  /\ r.conn \in Connection
         /\ r.conn.first_request = c.first_request /\ r.conn.db = c.db
         /\ Whole(ps, r.bytes) \in 0..Len(ps)
         /\ full - r.bytes \in 0..Bytes(From(ps, Whole(ps, r.bytes)), Len(From(ps, Whole(ps, r.bytes))))
<1> DEFINE m == Whole(ps, full)
<1>1. Stream(ps) /\ Len(ps) \in Nat /\ Bytes(ps, 0) = 0
  BY Streams, BytesDef DEF Stream
<1>2. m \in 0..Len(ps) /\ Bytes(ps, m) \in 0..full /\ full \in Nat /\ full <= Bytes(ps, Len(ps))
  BY <1>1, ReadOf
<1> HIDE DEF m
<1>3. \/ r = [conn |-> c, bytes |-> Bytes(ps, m)]
      \/ r = [conn |-> c, bytes |-> 0]
      \/ r = [conn |-> [c EXCEPT !.SecondPacket = FALSE], bytes |-> Bytes(ps, m)]
  BY DEF parseResponse, m
<1>4. r.conn \in Connection /\ r.conn.first_request = c.first_request /\ r.conn.db = c.db
  <2> DEFINE forgets == [c EXCEPT !.SecondPacket = FALSE]
  <2>1. forgets \in Connection /\ forgets.first_request = c.first_request /\ forgets.db = c.db
    BY DEF Connection
  <2> HIDE DEF forgets
  <2>2. \/ r = [conn |-> c, bytes |-> Bytes(ps, m)]
        \/ r = [conn |-> c, bytes |-> 0]
        \/ r = [conn |-> forgets, bytes |-> Bytes(ps, m)]
    BY <1>3, Zenon DEF forgets
  <2>3. r.conn = c \/ r.conn = forgets
    BY <2>2
  <2> QED BY <2>1, <2>3
<1>5. PICK k \in {0, m} : r.bytes = Bytes(ps, k)
  BY <1>1, <1>3
<1>6. k \in 0..Len(ps) /\ Bytes(ps, k) <= full
  BY <1>1, <1>2, <1>5
<1>7. Whole(ps, r.bytes) = k
  BY <1>1, <1>5, <1>6, WholeAt
<1>8. full - Bytes(ps, k) \in 0..Bytes(From(ps, k), Len(From(ps, k)))
  BY <1>1, <1>2, <1>6, Rest
<1> QED BY <1>4, <1>5, <1>6, <1>7, <1>8

\* What the server gets of the first n messages.
LEMMA ForwardedType ==
  ASSUME conn \in Connection, requests \in Seq(Message), NEW n \in 0..Len(requests),
         NEW allowed, \A i \in 1..n : allowed[i] \in BOOLEAN
  PROVE  /\ Forwarded(n, allowed) \in Seq(Forward) /\ Len(Forwarded(n, allowed)) = n
         /\ \A i \in 1..n :
              /\ requests[i] \in Message
              /\ Forwarded(n, allowed)[i].kind = requests[i].kind
              /\ Forwarded(n, allowed)[i].size = requests[i].size
              /\ Forwarded(n, allowed)[i].parameters = requests[i].parameters
              /\ Forwarded(n, allowed)[i].settings = conn.db
              /\ Forwarded(n, allowed)[i].judged = IF Judged(requests[i]) THEN 1 ELSE 0
<1> DEFINE f == Forwarded(n, allowed)
<1>1. n \in Nat /\ \A i \in 1..n : requests[i] \in Message
  BY LenProperties, ElementOfSeq
<1>2. conn.db \in Settings
  BY DEF Connection
<1>3. \A i \in 1..n : Parsed(n)[i] = 1
  BY DEF Parsed
<1>4. f = [i \in 1..n |->
             [kind |-> requests[i].kind, size |-> requests[i].size,
              parameters |-> requests[i].parameters, settings |-> conn.db, allowed |-> allowed[i],
              judged |-> IF Judged(requests[i]) THEN Parsed(n)[i] ELSE 0]]
  BY DEF Forwarded
<1> HIDE DEF f
<1>5. \A i \in 1..n :
        /\ f[i] = [kind |-> requests[i].kind, size |-> requests[i].size,
                   parameters |-> requests[i].parameters, settings |-> conn.db,
                   allowed |-> allowed[i], judged |-> IF Judged(requests[i]) THEN 1 ELSE 0]
  BY <1>3, <1>4
<1>6. ASSUME NEW i \in 1..n PROVE f[i] \in Forward
  <2>1. /\ requests[i].kind \in Kind /\ requests[i].size \in Nat \ {0}
        /\ requests[i].parameters \in Seq(Parameter)
        /\ requests[i].kind = "startup" => requests[i].parameters \in Startups
    BY <1>1 DEF Message
  <2> DEFINE judged == IF Judged(requests[i]) THEN 1 ELSE 0
  <2>2. allowed[i] \in BOOLEAN /\ judged \in Nat
    OBVIOUS
  <2>3. f[i] = [kind |-> requests[i].kind, size |-> requests[i].size,
                parameters |-> requests[i].parameters, settings |-> conn.db,
                allowed |-> allowed[i], judged |-> judged]
    BY <1>5
  <2> HIDE DEF judged
  <2> QED BY <1>2, <2>1, <2>2, <2>3 DEF Forward
<1>7. f \in [1..n -> Forward]
  BY <1>4, <1>6
<1>8. f \in Seq(Forward) /\ Len(f) = n
  BY <1>1, <1>7
<1> QED BY <1>1, <1>5, <1>8 DEF f
----------------------------------------------------------------------------
(* Types.                                                                  *)

\* Messages put behind those there are, by the client or by the server.
LEMMA Appended ==
  ASSUME NEW T, NEW ps \in Seq(T), NEW qs \in Seq(T), Stream(ps), Stream(qs),
         NEW n \in 0..Bytes(ps, Len(ps))
  PROVE  ps \o qs \in Seq(T) /\ n \in 0..Bytes(ps \o qs, Len(ps \o qs))
<1>1. /\ ps \o qs \in Seq(T) /\ Stream(ps \o qs)
      /\ Bytes(ps, Len(ps)) <= Bytes(ps \o qs, Len(ps \o qs))
  BY ConcatStream
<1>2. Bytes(ps, Len(ps)) \in Nat /\ Bytes(ps \o qs, Len(ps \o qs)) \in Nat
  <2>1. Len(ps) \in 0..Len(ps) /\ Len(ps \o qs) \in 0..Len(ps \o qs)
    BY <1>1 DEF Stream
  <2> QED BY <1>1, <2>1, BytesDef
<1> QED BY <1>1, <1>2

\* What the client sends are messages.
LEMMA Requests ==
  /\ <<Request("ssl", Size("ssl"), <<>>)>> \in Seq(Message)
  /\ <<Request("password", Size("password"), <<>>)>> \in Seq(Message)
  /\ \A ps \in Startups : <<Request("startup", 8 + Bytes(ps, Len(ps)), ps)>> \in Seq(Message)
  /\ \A batch \in Batches, z \in QuerySizes :
       [i \in DOMAIN batch |->
          Request(batch[i], IF batch[i] \in {"query", "parse"} THEN z ELSE Size(batch[i]), <<>>)]
         \in Seq({m \in Message : m.kind \notin {"ssl", "startup"}})
<1> DEFINE K == {"query", "parse", "bind", "sync"}
<1>1. <<>> \in Seq(Parameter)
  OBVIOUS
<1>2. Request("ssl", Size("ssl"), <<>>) \in Message
  BY <1>1, Sizes DEF Request, Message, Kind
<1>3. Request("password", Size("password"), <<>>) \in Message
  BY <1>1, Sizes DEF Request, Message, Kind
<1>4. ASSUME NEW ps \in Startups PROVE Request("startup", 8 + Bytes(ps, Len(ps)), ps) \in Message
  <2>1. ps \in Seq(Parameter)
    BY StartupType
  <2>2. Stream(ps) /\ Len(ps) \in 0..Len(ps)
    <3>1. Stream(ps) /\ Len(ps) \in Nat
      BY <2>1, ParameterStream
    <3> QED BY <3>1
  <2>3. Bytes(ps, Len(ps)) \in Nat
    BY <2>2, BytesDef
  <2>4. 8 + Bytes(ps, Len(ps)) \in Nat \ {0}
    BY <2>3
  <2> QED BY <2>1, <2>4 DEF Request, Message, Kind
<1>5. ASSUME NEW batch \in Batches, NEW z \in QuerySizes
      PROVE  [i \in DOMAIN batch |->
                Request(batch[i], IF batch[i] \in {"query", "parse"} THEN z ELSE Size(batch[i]), <<>>)]
               \in Seq({m \in Message : m.kind \notin {"ssl", "startup"}})
  <2> DEFINE M == {m \in Message : m.kind \notin {"ssl", "startup"}}
             size(kind) == IF kind \in {"query", "parse"} THEN z ELSE Size(kind)
             f == [i \in DOMAIN batch |-> Request(batch[i], size(batch[i]), <<>>)]
  <2>1. /\ Len(batch) \in Nat /\ DOMAIN batch = 1..Len(batch)
        /\ \A i \in 1..Len(batch) : batch[i] \in K
    <3>1. batch \in Seq(K)
      BY PgSQLSessionAssumption
    <3> HIDE DEF K
    <3> QED BY <3>1, LenProperties, ElementOfSeq
  <2>2. z \in Nat \ {0}
    <3>1. QuerySizes \subseteq 6..1024 * MB
      BY PgSQLSessionAssumption, Zenon
    <3>2. z \in 6..1024 * MB
      BY <3>1
    <3>3. 1024 * MB \in Int
      BY DEF MB
    <3> HIDE DEF K, M, size, f
    <3> QED BY <3>2, <3>3
  <2>3. ASSUME NEW kind \in K PROVE Request(kind, size(kind), <<>>) \in M
    <3>1. size(kind) \in Nat \ {0}
      BY <2>2, Sizes
    <3> HIDE DEF size
    <3> QED BY <1>1, <3>1 DEF Request, Message, Kind
  <2> HIDE DEF K, M
  <2>4. f \in [1..Len(batch) -> M]
    BY <2>1, <2>3
  <2>5. f \in Seq(M)
    <3> HIDE DEF f
    <3> QED BY <2>1, <2>4
  <2> QED BY <2>5 DEF f, M
<1> QED BY <1>2, <1>3, <1>4, <1>5

\* What the server says are replies.
LEMMA Replies ==
  ASSUME NEW kinds \in Seq({"auth", "authok", "status", "complete", "ready", "error"})
  PROVE  [i \in DOMAIN kinds |-> Response(kinds[i])] \in Seq(Reply)
<1> DEFINE K == {"auth", "authok", "status", "complete", "ready", "error"}
           f == [i \in DOMAIN kinds |-> Response(kinds[i])]
<1>1. Len(kinds) \in Nat /\ DOMAIN kinds = 1..Len(kinds) /\ \A i \in 1..Len(kinds) : kinds[i] \in K
  <2> HIDE DEF K
  <2>1. kinds \in Seq(K)
    BY DEF K
  <2> QED BY <2>1, LenProperties, ElementOfSeq
<1>2. ASSUME NEW kind \in K PROVE Response(kind) \in Reply
  BY Sizes DEF Response, Reply
<1> HIDE DEF K
<1>3. f \in [1..Len(kinds) -> Reply]
  BY <1>1, <1>2
<1> HIDE DEF f
<1>4. f \in Seq(Reply)
  BY <1>1, <1>3
<1> QED BY <1>4 DEF f
\* Every step keeps the types.
LEMMA TypedStep ==
  ASSUME Typed, [Next]_vars
  PROVE  Typed'
<1>1. Stream(requests) /\ Stream(responses)
  BY Streams DEF Typed
<1>2. ASSUME NEW full \in ReadTo(requests, request_in, Cuts), UNCHANGED <<serverDb, batches>>,
             Proxy_cb_Waits(full)
      PROVE  Typed'
  <2>1. full \in 0..Bytes(requests, Len(requests))
    <3>1. full \in Nat /\ full <= Bytes(requests, Len(requests))
      BY <1>1, <1>2, ReadOf DEF Typed
    <3>2. Bytes(requests, Len(requests)) \in Nat
      <4>1. Len(requests) \in 0..Len(requests)
        BY <1>1 DEF Stream
      <4> QED BY <1>1, <4>1, BytesDef
    <3> QED BY <3>1, <3>2
  <2> QED BY <1>2, <2>1 DEF Proxy_cb_Waits, Typed, down
<1>3. ASSUME UNCHANGED <<serverDb, batches>>, Proxy_cb_DeclinesSSL
      PROVE  Typed'
  <2>1. Whole(requests, 8) \in 0..Len(requests)
    BY <1>1, WholeDef
  <2>2. requests' \in Seq(Message) /\ Stream(requests')
    BY <1>1, <1>3, <2>1, FromStream DEF Proxy_cb_DeclinesSSL, Typed
  <2>3. request_in' \in 0..Bytes(requests', Len(requests'))
    <3>1. Bytes(requests', Len(requests')) \in Nat
      <4>1. Len(requests') \in 0..Len(requests')
        BY <2>2 DEF Stream
      <4> QED BY <2>2, <4>1, BytesDef
    <3> QED BY <1>3, <3>1 DEF Proxy_cb_DeclinesSSL
  <2>4. /\ turn' \in {"start", "login", "password", "command", "wait"}
        /\ framed' \in BOOLEAN /\ disturbed' \subseteq {"parameters", "eight", "inside"}
    BY <1>3 DEF Proxy_cb_DeclinesSSL, Typed
  <2> QED BY <1>3, <2>2, <2>3, <2>4 DEF Proxy_cb_DeclinesSSL, Typed, down
<1>4. ASSUME NEW full \in ReadTo(requests, request_in, Cuts), UNCHANGED <<serverDb, batches>>,
             Proxy_cb_LogsIn(full)
      PROVE  Typed'
  <2>1. conn' \in Connection
    <3> DEFINE db == dbmap_find(DatabaseFrom(requests[1].parameters))
    <3>1. db \in Settings
      BY Found
    <3>2. conn' = [conn EXCEPT !.first_request = FALSE, !.db = db]
      BY <1>4 DEF Proxy_cb_LogsIn
    <3> HIDE DEF db
    <3> QED BY <3>1, <3>2 DEF Typed, Connection
  <2>2. requests' \in Seq(Message) /\ request_in' \in 0..Bytes(requests', Len(requests'))
    <3>1. requests' = <<>> /\ request_in' = 0
      BY <1>4 DEF Proxy_cb_LogsIn
    <3>2. Len(<<>>) = 0 /\ <<>> \in Seq(Message)
      OBVIOUS
    <3>3. Bytes(<<>>, 0) = 0
      BY <3>2, Streams, BytesDef
    <3> QED BY <3>1, <3>2, <3>3
  <2>3. toServer' \in Seq(Forward)
    <3>1. 1 \in 0..Len(requests)
      <4>1. Len(requests) > 0
        BY <1>1, ReadOf DEF Typed
      <4> QED BY <1>1, <4>1 DEF Stream
    <3>2. \A i \in 1..1 : <<TRUE>>[i] \in BOOLEAN
      <4>1. \A i \in 1..1 : i = 1
        OBVIOUS
      <4>2. <<TRUE>>[1] = TRUE
        OBVIOUS
      <4>3. \A i \in 1..1 : <<TRUE>>[i] = TRUE
        BY <4>1, <4>2, Zenon
      <4> QED BY <4>3, Zenon
    <3> QED BY <1>4, <3>1, <3>2, ForwardedType DEF Proxy_cb_LogsIn, Typed
  <2>4. disturbed' \subseteq {"parameters", "eight", "inside"}
    BY <1>4 DEF Proxy_cb_LogsIn
  <2> QED BY <1>4, <2>1, <2>2, <2>3, <2>4 DEF Proxy_cb_LogsIn, Typed, down
<1>5. ASSUME NEW full \in ReadTo(requests, request_in, Cuts), UNCHANGED <<serverDb, batches>>,
             Proxy_cb_Parses(full)
      PROVE  Typed'
  <2> DEFINE n == Complete(full)
  <2>1. /\ full \in Nat /\ full <= Bytes(requests, Len(requests))
        /\ n \in 0..Len(requests) /\ Bytes(requests, n) \in 0..full
    BY <1>1, ReadOf DEF Typed, Complete
  <2> HIDE DEF n
  <2>2. requests' \in Seq(Message)
    <3>1. requests' = From(requests, n)
      BY <1>5 DEF Proxy_cb_Parses, n
    <3> QED BY <1>1, <2>1, <3>1, FromStream DEF Typed
  <2>3. request_in' \in 0..Bytes(requests', Len(requests'))
    <3>1. requests' = From(requests, n) /\ request_in' = full - Bytes(requests, n)
      BY <1>5 DEF Proxy_cb_Parses, n
    <3>2. requests \in Seq(Message) /\ Bytes(requests, n) <= full
      BY <2>1 DEF Typed
    <3> QED BY <1>1, <2>1, <3>1, <3>2, Rest
  <2>4. conn' \in Connection
    <3> DEFINE password == conn.SecondPacket \/ \E i \in 1..n : requests[i].kind = "password"
    <3>1. conn' = [conn EXCEPT !.SecondPacket = password]
      BY <1>5 DEF Proxy_cb_Parses, n
    <3>2. password \in BOOLEAN
      BY DEF Typed, Connection
    <3> HIDE DEF password
    <3> QED BY <3>1, <3>2 DEF Typed, Connection
  <2>5. PICK allowed \in [1..n -> Verdicts \cup {TRUE}] :
          /\ toServer' = toServer \o Forwarded(n, allowed)
          /\ \/ UNCHANGED <<turn, framed, disturbed>>
             \/ /\ turn' = IF response_in = 0 THEN TurnAfter({"empty"}) ELSE turn
                /\ framed' = (response_in = 0)
                /\ disturbed' = disturbed \cup IF framed' THEN {} ELSE {"inside"}
    BY <1>5 DEF Proxy_cb_Parses, n
  <2>6. toServer' \in Seq(Forward)
    <3>1. \A i \in 1..n : allowed[i] \in BOOLEAN
      <4>1. Verdicts \cup {TRUE} \subseteq BOOLEAN
        BY PgSQLSessionAssumption
      <4> QED BY <4>1
    <3>2. Forwarded(n, allowed) \in Seq(Forward)
      BY <2>1, <3>1, ForwardedType DEF Typed
    <3> QED BY <2>5, <3>2, ConcatProperties DEF Typed
  <2>7. /\ turn' \in {"start", "login", "password", "command", "wait"}
        /\ framed' \in BOOLEAN /\ disturbed' \subseteq {"parameters", "eight", "inside"}
    BY <2>5 DEF Typed, TurnAfter
  <2>8. UNCHANGED down
    BY <1>5 DEF Proxy_cb_Parses
  <2> QED BY <1>5, <2>2, <2>3, <2>4, <2>6, <2>7, <2>8 DEF Typed, down
<1>6. CASE Proxy_cb
  <2>1. PICK full \in ReadTo(requests, request_in, Cuts) :
          \/ Proxy_cb_Waits(full)
          \/ full = 8 /\ Proxy_cb_DeclinesSSL
          \/ Proxy_cb_LogsIn(full)
          \/ Proxy_cb_Parses(full)
    BY <1>6 DEF Proxy_cb
  <2>2. UNCHANGED <<serverDb, batches>>
    BY <1>6 DEF Proxy_cb
  <2> QED BY <1>2, <1>3, <1>4, <1>5, <2>1, <2>2
<1>7. CASE Backend_cb
  <2>1. PICK full \in ReadTo(responses, response_in, Cuts) :
          \E r \in {parseResponse(conn, responses, full)} :
            LET n == Whole(responses, r.bytes) IN
            /\ conn' = r.conn
            /\ responses' = From(responses, n)
            /\ response_in' = full - r.bytes
            /\ turn' = TurnAfter({responses[i].kind : i \in 1..n})
    BY <1>7 DEF Backend_cb
  <2>2. PICK r : r = parseResponse(conn, responses, full)
    OBVIOUS
  <2> DEFINE n == Whole(responses, r.bytes)
  <2>3. /\ conn' = r.conn /\ responses' = From(responses, n) /\ response_in' = full - r.bytes
        /\ turn' = TurnAfter({responses[i].kind : i \in 1..n})
    BY <2>1, <2>2
  <2>4. /\ r.conn \in Connection /\ n \in 0..Len(responses)
        /\ full - r.bytes \in 0..Bytes(From(responses, n), Len(From(responses, n)))
    BY <2>2, ParsedResponse DEF Typed
  <2> HIDE DEF n
  <2>5. From(responses, n) \in Seq(Reply)
    BY <1>1, <2>4, FromStream DEF Typed
  <2>6. turn' \in {"start", "login", "password", "command", "wait"}
    BY <2>3 DEF Typed, TurnAfter
  <2> QED BY <1>7, <2>3, <2>4, <2>5, <2>6 DEF Backend_cb, Typed, up
<1>8. ASSUME NEW ps \in Seq(Message), Sends(ps), batches' \in 0..MaxBatches
      PROVE  Typed'
  <2>1. requests \o ps \in Seq(Message) /\ request_in \in 0..Bytes(requests \o ps, Len(requests \o ps))
    BY <1>1, Streams, Appended DEF Typed
  <2> QED BY <1>8, <2>1 DEF Sends, Typed, down
<1>9. CASE ClientLogsIn
  <2>1. \E ps \in Seq(Message) : Sends(ps)
    BY <1>9, Requests DEF ClientLogsIn
  <2> QED BY <1>8, <1>9, <2>1 DEF ClientLogsIn, Typed
<1>10. CASE ClientSends
  <2>1. PICK batch \in Batches, z \in QuerySizes :
          Sends([i \in DOMAIN batch |->
                  Request(batch[i], IF batch[i] \in {"query", "parse"} THEN z ELSE Size(batch[i]), <<>>)])
    BY <1>10 DEF ClientSends
  <2>2. \E ps \in Seq(Message) : Sends(ps)
    <3>1. PICK ps \in Seq({m \in Message : m.kind \notin {"ssl", "startup"}}) : Sends(ps)
      BY <2>1, Requests
    <3>2. ps \in Seq(Message)
      BY LenProperties, ElementOfSeq, SeqDef
    <3> QED BY <3>1, <3>2
  <2>3. batches' \in 0..MaxBatches
    <3>1. MaxBatches \in Nat
      BY PgSQLSessionAssumption
    <3> QED BY <1>10, <3>1 DEF ClientSends, Typed
  <2> QED BY <1>8, <2>2, <2>3
<1>11. CASE ServerAnswers
  <2>1. PICK kinds \in Seq({"auth", "authok", "status", "complete", "ready", "error"}) :
          ServerReplies(kinds)
    <3> DEFINE K == {"auth", "authok", "status", "complete", "ready", "error"}
    <3>1. /\ <<"auth">> \in Seq(K) /\ <<"authok", "status", "ready">> \in Seq(K)
          /\ <<"complete", "ready">> \in Seq(K) /\ <<"error", "ready">> \in Seq(K)
          /\ <<"complete">> \in Seq(K) /\ <<"error">> \in Seq(K) /\ <<"ready">> \in Seq(K)
      OBVIOUS
    <3> HIDE DEF K
    <3>2. \E kinds \in Seq(K) : ServerReplies(kinds)
      BY <1>11, <3>1 DEF ServerAnswers
    <3> QED BY <3>2 DEF K
  <2> DEFINE ps == [i \in DOMAIN kinds |-> Response(kinds[i])]
  <2>2. ps \in Seq(Reply)
    BY Replies
  <2> HIDE DEF ps
  <2>3. /\ responses \o ps \in Seq(Reply)
        /\ response_in \in 0..Bytes(responses \o ps, Len(responses \o ps))
    BY <1>1, <2>2, Streams, Appended DEF Typed
  <2>4. toServer # <<>> /\ toServer \in Seq(Forward)
    BY <1>11 DEF ServerAnswers, Typed
  <2>5. Head(toServer) \in Forward /\ Tail(toServer) \in Seq(Forward)
    BY <2>4, HeadTailProperties
  <2>6. serverDb' \in STRING \cup {NoDatabase}
    <3>1. serverDb' = IF Head(toServer).kind = "startup" THEN DatabaseOf(Head(toServer).parameters)
                      ELSE serverDb
      BY <2>1 DEF ServerReplies
    <3>2. Head(toServer).kind = "startup" => Head(toServer).parameters \in Startups
      BY <2>5 DEF Forward
    <3> QED BY <3>1, <3>2, StartupType DEF Typed
  <2>7. responses' = responses \o ps /\ toServer' = Tail(toServer)
    BY <2>1 DEF ServerReplies, ps
  <2> QED BY <2>1, <2>3, <2>5, <2>6, <2>7 DEF ServerReplies, Typed, up
<1>12. CASE UNCHANGED vars
  BY <1>12 DEF vars, up, down, Typed
<1> QED BY <1>6, <1>7, <1>9, <1>10, <1>11, <1>12 DEF Next
----------------------------------------------------------------------------
(* What the actions have in common.                                        *)

\* The elements of two sequences in one, and of one without its first.
LEMMA Elements ==
  ASSUME NEW T, NEW s \in Seq(T), NEW t \in Seq(T)
  PROVE  /\ s \o t \in Seq(T)
         /\ \A i \in DOMAIN (s \o t) : \/ \E j \in DOMAIN s : (s \o t)[i] = s[j]
                                       \/ \E j \in DOMAIN t : (s \o t)[i] = t[j]
         /\ s # <<>> => s \o t # <<>> /\ (s \o t)[1] = s[1]
         /\ s = <<>> => s \o t = t
         /\ s # <<>> => /\ Head(s) = s[1] /\ 1 \in DOMAIN s
                        /\ Tail(s) \in Seq(T) /\ Len(Tail(s)) = Len(s) - 1
                        /\ \A i \in DOMAIN Tail(s) : \E j \in DOMAIN s : Tail(s)[i] = s[j]
<1>1. /\ Len(s) \in Nat /\ Len(t) \in Nat /\ DOMAIN s = 1..Len(s) /\ DOMAIN t = 1..Len(t)
      /\ s # <<>> => Len(s) > 0
  BY LenProperties, EmptySeq
<1>2. /\ s \o t \in Seq(T) /\ Len(s \o t) = Len(s) + Len(t)
      /\ \A i \in 1..Len(s) + Len(t) :
           (s \o t)[i] = IF i <= Len(s) THEN s[i] ELSE t[i - Len(s)]
  BY ConcatProperties
<1>3. DOMAIN (s \o t) = 1..Len(s) + Len(t)
  BY <1>2, LenProperties
<1>4. ASSUME NEW i \in DOMAIN (s \o t)
      PROVE  \/ \E j \in DOMAIN s : (s \o t)[i] = s[j]
             \/ \E j \in DOMAIN t : (s \o t)[i] = t[j]
  <2>1. i \in 1..Len(s) + Len(t)
    BY <1>3
  <2>2. CASE i <= Len(s)
    <3>1. i \in 1..Len(s) /\ (s \o t)[i] = s[i]
      BY <1>1, <1>2, <2>1, <2>2
    <3> QED BY <1>1, <3>1, Zenon
  <2>3. CASE ~(i <= Len(s))
    <3>1. i - Len(s) \in 1..Len(t) /\ (s \o t)[i] = t[i - Len(s)]
      BY <1>1, <1>2, <2>1, <2>3
    <3> QED BY <1>1, <3>1, Zenon
  <2> QED BY <2>2, <2>3
<1>5. s # <<>> => s \o t # <<>> /\ (s \o t)[1] = s[1]
  <2> SUFFICES ASSUME s # <<>> PROVE s \o t # <<>> /\ (s \o t)[1] = s[1]
    OBVIOUS
  <2>1. 1 \in 1..Len(s) + Len(t) /\ 1 <= Len(s) /\ Len(s \o t) # 0
    BY <1>1, <1>2
  <2>2. (s \o t)[1] = s[1]
    BY <1>2, <2>1
  <2> QED BY <2>1, <2>2, EmptySeq
<1>6. s = <<>> => s \o t = t
  BY ConcatEmptySeq
<1>7. s # <<>> => /\ Head(s) = s[1] /\ 1 \in DOMAIN s
                  /\ Tail(s) \in Seq(T) /\ Len(Tail(s)) = Len(s) - 1
                  /\ \A i \in DOMAIN Tail(s) : \E j \in DOMAIN s : Tail(s)[i] = s[j]
  <2> SUFFICES ASSUME s # <<>>
               PROVE  /\ Head(s) = s[1] /\ 1 \in DOMAIN s
                      /\ Tail(s) \in Seq(T) /\ Len(Tail(s)) = Len(s) - 1
                      /\ \A i \in DOMAIN Tail(s) : \E j \in DOMAIN s : Tail(s)[i] = s[j]
    OBVIOUS
  <2>1. /\ Tail(s) \in Seq(T) /\ Len(Tail(s)) = Len(s) - 1
        /\ \A i \in 1..Len(Tail(s)) : Tail(s)[i] = s[i + 1]
    BY HeadTailProperties
  <2>2. Head(s) = s[1] /\ 1 \in DOMAIN s
    BY <1>1
  <2>3. ASSUME NEW i \in DOMAIN Tail(s) PROVE \E j \in DOMAIN s : Tail(s)[i] = s[j]
    <3>1. i \in 1..Len(Tail(s))
      BY <2>1, LenProperties
    <3>2. i + 1 \in 1..Len(s) /\ Tail(s)[i] = s[i + 1]
      BY <1>1, <2>1, <3>1
    <3> QED BY <1>1, <3>2, Zenon
  <2> QED BY <2>1, <2>2, <2>3
<1> QED BY <1>2, <1>4, <1>5, <1>6, <1>7, Zenon

\* The proxy takes the startup message for what it is, and nothing else is
\* under way.
LEMMA LoggingIn ==
  ASSUME Typed, LoginFirst, NEW full \in ReadTo(requests, request_in, Cuts),
         Proxy_cb_LogsIn(full)
  PROVE  LET ps == requests[1].parameters IN
         /\ ps \in Startups /\ turn = "wait" /\ responses = <<>>
         /\ toServer' \in Seq(Forward) /\ Len(toServer') = 1
         /\ toServer'[1].kind = "startup" /\ toServer'[1].judged = 0
         /\ toServer'[1].parameters = ps
         /\ conn'.first_request = FALSE /\ conn'.db = dbmap_find(DatabaseFrom(ps))
<1>1. Stream(requests) /\ requests \in Seq(Message)
  BY Streams DEF Typed
<1>2. full <= Bytes(requests, Len(requests)) /\ Len(requests) > 0 /\ full \in Nat
  BY <1>1, ReadOf DEF Typed
<1>3. conn.first_request /\ full # 8 /\ requests[1].size <= full
  BY DEF Proxy_cb_LogsIn
<1>4. Len(requests) = 1 /\ DOMAIN requests = 1..Len(requests)
  BY <1>1, <1>2, <1>3 DEF LoginFirst, Stream
<1>5. requests[1] \in Message /\ requests[1].kind \in {"ssl", "startup"}
  <2>1. 1 \in 1..Len(requests)
    BY <1>4
  <2> QED BY <1>1, <1>3, <1>4, <2>1, ElementOfSeq DEF LoginFirst
<1>6. requests[1].kind = "startup"
  <2>1. Bytes(requests, 1) = requests[1].size
    BY <1>1, <1>2, WholeFirst
  <2>2. full <= requests[1].size /\ requests[1].size \in Nat
    BY <1>2, <1>4, <1>5, <2>1 DEF Message
  <2>3. requests[1].size # 8
    BY <1>2, <1>3, <2>2
  <2> QED BY <1>5, <2>3 DEF Message
<1>7. requests[1].parameters \in Startups
  BY <1>5, <1>6 DEF Message
<1>8. turn = "wait" /\ responses = <<>>
  <2>1. requests # <<>>
    BY <1>4
  <2> QED BY <1>3, <2>1 DEF LoginFirst
<1>9. /\ toServer' \in Seq(Forward) /\ Len(toServer') = 1
      /\ toServer'[1].kind = "startup" /\ toServer'[1].judged = 0
      /\ toServer'[1].parameters = requests[1].parameters
  <2>1. 1 \in 0..Len(requests) /\ 1 \in 1..1
    BY <1>4
  <2>2. \A i \in 1..1 : <<TRUE>>[i] \in BOOLEAN
    <3>1. \A i \in 1..1 : i = 1
      OBVIOUS
    <3>2. <<TRUE>>[1] = TRUE
      OBVIOUS
    <3>3. \A i \in 1..1 : <<TRUE>>[i] = TRUE
      BY <3>1, <3>2, Zenon
    <3> QED BY <3>3, Zenon
  <2>3. toServer' = Forwarded(1, <<TRUE>>)
    BY DEF Proxy_cb_LogsIn
  <2>4. conn \in Connection
    BY DEF Typed
  <2>5. ~Judged(requests[1])
    BY <1>6 DEF Judged
  <2> QED BY <1>1, <1>6, <2>1, <2>2, <2>3, <2>4, <2>5, ForwardedType
<1>10. conn'.first_request = FALSE /\ conn'.db = dbmap_find(DatabaseFrom(requests[1].parameters))
  <2> DEFINE db == dbmap_find(DatabaseFrom(requests[1].parameters))
  <2>1. conn' = [conn EXCEPT !.first_request = FALSE, !.db = db]
    BY DEF Proxy_cb_LogsIn
  <2> HIDE DEF db
  <2>2. conn'.first_request = FALSE /\ conn'.db = db
    BY <2>1 DEF Typed, Connection
  <2> QED BY <2>2 DEF db
<1> QED BY <1>7, <1>8, <1>9, <1>10

\* The messages of a batch: what goes on to the server, by which settings it is
\* judged, and how often.
LEMMA Parsing ==
  ASSUME Typed, LoginFirst, NEW full \in ReadTo(requests, request_in, Cuts),
         Proxy_cb_Parses(full)
  PROVE  /\ ~conn.first_request /\ ~conn'.first_request /\ conn'.db = conn.db
         /\ \A i \in DOMAIN toServer : toServer[i].kind # "startup"
         /\ \E qs \in Seq(Forward) :
              /\ toServer' = toServer \o qs
              /\ \A i \in DOMAIN qs :
                   /\ qs[i].kind \notin {"ssl", "startup"} /\ qs[i].settings = conn.db
                   /\ ToBeJudged(qs[i]) => qs[i].judged = 1
         /\ \A i \in DOMAIN requests' : requests'[i].kind \notin {"ssl", "startup"}
         /\ turn' \in {turn, "command"} /\ turn \notin {"start", "login"}
         /\ "parameters" \in disturbed' <=> "parameters" \in disturbed
<1> DEFINE n == Complete(full)
<1>1. Stream(requests) /\ requests \in Seq(Message) /\ DOMAIN requests = 1..Len(requests)
  BY Streams DEF Typed, Stream
<1>2. n \in 0..Len(requests) /\ Len(requests) > 0 /\ Len(requests) \in Nat
  BY <1>1, ReadOf DEF Typed, Complete, Stream
<1> HIDE DEF n
<1>3. ~conn.first_request
  BY DEF Proxy_cb_Parses
<1>4. \A i \in 1..Len(requests) : requests[i].kind \notin {"ssl", "startup"}
  BY <1>1, <1>3 DEF LoginFirst
<1>5. ~conn'.first_request /\ conn'.db = conn.db
  <2> DEFINE password == conn.SecondPacket \/ \E i \in 1..n : requests[i].kind = "password"
  <2>1. conn' = [conn EXCEPT !.SecondPacket = password]
    BY DEF Proxy_cb_Parses, n
  <2> HIDE DEF password
  <2> QED BY <1>3, <2>1 DEF Typed, Connection
<1>6. requests # <<>>
  BY <1>2
<1>7. PICK allowed \in [1..n -> Verdicts \cup {TRUE}] :
        /\ toServer' = toServer \o Forwarded(n, allowed)
        /\ \/ UNCHANGED <<turn, framed, disturbed>>
           \/ /\ turn' = IF response_in = 0 THEN TurnAfter({"empty"}) ELSE turn
              /\ disturbed' = disturbed \cup IF framed' THEN {} ELSE {"inside"}
  BY DEF Proxy_cb_Parses, n
<1>8. \E qs \in Seq(Forward) :
        /\ toServer' = toServer \o qs
        /\ \A i \in DOMAIN qs :
             /\ qs[i].kind \notin {"ssl", "startup"} /\ qs[i].settings = conn.db
             /\ ToBeJudged(qs[i]) => qs[i].judged = 1
  <2> DEFINE qs == Forwarded(n, allowed)
  <2>1. \A i \in 1..n : allowed[i] \in BOOLEAN
    <3>1. Verdicts \cup {TRUE} \subseteq BOOLEAN
      BY PgSQLSessionAssumption
    <3> QED BY <3>1
  <2>2. conn \in Connection
    BY DEF Typed
  <2>3. /\ qs \in Seq(Forward) /\ Len(qs) = n
        /\ \A i \in 1..n :
             /\ qs[i].kind = requests[i].kind /\ qs[i].size = requests[i].size
             /\ qs[i].settings = conn.db
             /\ qs[i].judged = IF Judged(requests[i]) THEN 1 ELSE 0
    BY <1>1, <1>2, <2>1, <2>2, ForwardedType
  <2>4. toServer' = toServer \o qs
    BY <1>7
  <2> HIDE DEF qs
  <2>5. ASSUME NEW i \in DOMAIN qs
        PROVE  /\ qs[i].kind \notin {"ssl", "startup"} /\ qs[i].settings = conn.db
               /\ ToBeJudged(qs[i]) => qs[i].judged = 1
    <3>1. i \in 1..n /\ i \in 1..Len(requests)
      <4>1. i \in 1..n
        BY <2>3, LenProperties
      <4> QED BY <1>2, <4>1
    <3>2. /\ qs[i].kind = requests[i].kind /\ qs[i].size = requests[i].size
          /\ qs[i].settings = conn.db
          /\ qs[i].judged = IF Judged(requests[i]) THEN 1 ELSE 0
      BY <2>3, <3>1
    <3>3. requests[i].size \in Nat \ {0}
      BY <1>1, <3>1, ElementOfSeq DEF Typed, Message
    <3>4. requests[i].size <= 16 * MB => HighByte(requests[i]) = 0
      BY <3>3 DEF HighByte, MB
    <3> QED BY <1>4, <3>1, <3>2, <3>4 DEF Judged, ToBeJudged
  <2> QED BY <2>3, <2>4, <2>5
<1>9. \A i \in DOMAIN requests' : requests'[i].kind \notin {"ssl", "startup"}
  <2>1. requests' = From(requests, n)
    BY DEF Proxy_cb_Parses, n
  <2>2. /\ From(requests, n) \in Seq(Message) /\ Len(From(requests, n)) = Len(requests) - n
        /\ \A i \in 1..Len(requests) - n : From(requests, n)[i] = requests[n + i]
    BY <1>1, <1>2, FromStream
  <2>3. ASSUME NEW i \in DOMAIN requests' PROVE requests'[i].kind \notin {"ssl", "startup"}
    <3>1. i \in 1..Len(requests) - n
      BY <2>1, <2>2, LenProperties
    <3>2. requests'[i] = requests[n + i] /\ n + i \in 1..Len(requests)
      BY <1>2, <2>1, <2>2, <3>1
    <3> QED BY <1>4, <3>2
  <2> QED BY <2>3
<1>10. \A i \in DOMAIN toServer : toServer[i].kind # "startup"
  BY <1>6 DEF LoginFirst
<1>11. turn' \in {turn, "command"} /\ turn \notin {"start", "login"}
  BY <1>3, <1>7 DEF TurnAfter, LoginFirst
<1>12. "parameters" \in disturbed' <=> "parameters" \in disturbed
  BY <1>7
<1> QED BY <1>3, <1>5, <1>8, <1>9, <1>10, <1>11, <1>12
\* What the client sends after it has logged in.
LEMMA Sending ==
  ASSUME Typed, ClientSends \/ (ClientLogsIn /\ turn = "password")
  PROVE  \E ps \in Seq(Message) : /\ requests' = requests \o ps
                                  /\ \A i \in DOMAIN ps : ps[i].kind \notin {"ssl", "startup"}
<1> DEFINE M == {m \in Message : m.kind \notin {"ssl", "startup"}}
<1>1. ASSUME NEW ps \in Seq(M)
      PROVE  ps \in Seq(Message) /\ \A i \in DOMAIN ps : ps[i].kind \notin {"ssl", "startup"}
  <2>1. DOMAIN ps = 1..Len(ps) /\ Len(ps) \in Nat /\ \A i \in 1..Len(ps) : ps[i] \in M
    <3> HIDE DEF M
    <3> QED BY LenProperties, ElementOfSeq
  <2>2. ps \in [1..Len(ps) -> Message]
    <3>1. ps = [i \in 1..Len(ps) |-> ps[i]]
      <4> HIDE DEF M
      <4> QED BY LenProperties
    <3> QED BY <2>1, <3>1
  <2>3. ps \in Seq(Message)
    BY <2>1, <2>2
  <2> QED BY <2>1, <2>3
<1>2. CASE ClientSends
  <2>1. \E ps \in Seq(M) : Sends(ps)
    BY <1>2, Requests DEF ClientSends
  <2> HIDE DEF M
  <2>2. PICK ps \in Seq(M) : requests' = requests \o ps
    BY <2>1 DEF Sends
  <2> QED BY <1>1, <2>2
<1>3. CASE ClientLogsIn /\ turn = "password"
  <2> DEFINE m == Request("password", Size("password"), <<>>)
  <2>1. Sends(<<m>>)
    BY <1>3 DEF ClientLogsIn
  <2>2. <<m>> \in Seq(Message)
    BY Requests
  <2>3. m.kind \notin {"ssl", "startup"}
    BY DEF Request
  <2> HIDE DEF m
  <2>4. \A i \in DOMAIN <<m>> : <<m>>[i] = m
    <3>1. DOMAIN <<m>> = 1..1 /\ \A i \in 1..1 : i = 1
      OBVIOUS
    <3>2. <<m>>[1] = m
      OBVIOUS
    <3> QED BY <3>1, <3>2, Zenon
  <2>5. \A i \in DOMAIN <<m>> : <<m>>[i].kind \notin {"ssl", "startup"}
    BY <2>3, <2>4, Zenon
  <2>6. requests' = requests \o <<m>>
    BY <2>1 DEF Sends
  <2> QED BY <2>2, <2>5, <2>6
<1> QED BY <1>2, <1>3

\* The server takes the first message; a startup message is the only one.
LEMMA Answering ==
  ASSUME Typed, LoginFirst, ServerAnswers
  PROVE  /\ toServer' \in Seq(Forward) /\ serverDb' = Database
         /\ \A i \in DOMAIN toServer' : /\ toServer'[i].kind # "startup"
                                        /\ \E j \in DOMAIN toServer : toServer'[i] = toServer[j]
         /\ toServer # <<>> /\ (toServer[1].kind = "startup" => DOMAIN toServer' = {})
         /\ ~conn.first_request /\ UNCHANGED <<conn, requests, turn, disturbed>>
<1>1. /\ toServer # <<>> /\ toServer' = Tail(toServer)
      /\ UNCHANGED <<conn, requests, turn, disturbed>>
      /\ serverDb' = IF Head(toServer).kind = "startup" THEN DatabaseOf(Head(toServer).parameters)
                     ELSE serverDb
  BY DEF ServerAnswers, ServerReplies, up
<1>2. /\ Head(toServer) = toServer[1] /\ 1 \in DOMAIN toServer
      /\ Tail(toServer) \in Seq(Forward) /\ Len(Tail(toServer)) = Len(toServer) - 1
      /\ \A i \in DOMAIN Tail(toServer) : \E j \in DOMAIN toServer : Tail(toServer)[i] = toServer[j]
  BY <1>1, Elements DEF Typed
<1>3. ~conn.first_request
  BY <1>1 DEF LoginFirst
<1>4. ASSUME \E j \in DOMAIN toServer : toServer[j].kind = "startup"
      PROVE  DOMAIN toServer' = {}
  <2>1. Len(toServer) = 1
    BY <1>4 DEF LoginFirst
  <2>2. Len(toServer') = 0 /\ DOMAIN toServer' = 1..Len(toServer')
    BY <1>1, <1>2, <2>1, LenProperties
  <2> QED BY <2>2
<1>5. ASSUME NEW i \in DOMAIN toServer'
      PROVE  /\ toServer'[i].kind # "startup"
             /\ \E j \in DOMAIN toServer : toServer'[i] = toServer[j]
  <2>1. PICK j \in DOMAIN toServer : toServer'[i] = toServer[j]
    BY <1>1, <1>2
  <2> QED BY <1>4, <2>1
<1>6. toServer[1].kind = "startup" => DOMAIN toServer' = {}
  BY <1>2, <1>4
<1>7. serverDb' = Database
  BY <1>1, <1>2 DEF Database
<1> QED BY <1>1, <1>2, <1>3, <1>5, <1>6, <1>7

----------------------------------------------------------------------------
(* The invariants.                                                         *)

\* Nothing gets before the startup message, or between it and its answer.
LEMMA FirstStep ==
  ASSUME Typed, LoginFirst, [Next]_vars
  PROVE  LoginFirst'
<1>1. Stream(requests) /\ Stream(responses) /\ DOMAIN requests = 1..Len(requests)
  BY Streams DEF Typed, Stream
<1>2. ASSUME NEW full \in ReadTo(requests, request_in, Cuts)
      PROVE  /\ Len(requests) > 0 /\ Len(requests) \in Nat
             /\ \A i \in DOMAIN toServer : toServer[i].kind # "startup"
             /\ turn \notin {"start", "login"}
  <2>1. Len(requests) > 0 /\ Len(requests) \in Nat
    BY <1>1, ReadOf DEF Typed, Stream
  <2>2. requests # <<>>
    BY <2>1
  <2> QED BY <2>1, <2>2 DEF LoginFirst
<1>3. ASSUME NEW full \in ReadTo(requests, request_in, Cuts), Proxy_cb_Waits(full)
      PROVE  LoginFirst'
  BY <1>3 DEF Proxy_cb_Waits, LoginFirst, down
<1>4. ASSUME NEW full \in ReadTo(requests, request_in, Cuts), Proxy_cb_DeclinesSSL
      PROVE  LoginFirst'
  <2> DEFINE n == Whole(requests, 8)
  <2>1. n \in 0..Len(requests)
    BY <1>1, WholeDef
  <2>2. requests' = From(requests, n) /\ UNCHANGED <<conn, down, toServer>>
    BY <1>4 DEF Proxy_cb_DeclinesSSL
  <2>3. /\ From(requests, n) \in Seq(Message) /\ Len(From(requests, n)) = Len(requests) - n
        /\ \A i \in 1..Len(requests) - n : From(requests, n)[i] = requests[n + i]
    BY <1>1, <2>1, FromStream DEF Typed
  <2>4. requests[1].kind = "ssl" => n = Len(requests) /\ conn.first_request
    <3> SUFFICES ASSUME requests[1].kind = "ssl" PROVE n = Len(requests) /\ conn.first_request
      OBVIOUS
    <3>1. 1 \in 1..Len(requests)
      BY <1>2
    <3>2. conn.first_request
      BY <1>1, <3>1 DEF LoginFirst
    <3>3. Len(requests) = 1
      <4>1. Len(requests) <= 1
        BY <3>2 DEF LoginFirst
      <4> QED BY <1>2, <4>1
    <3>4. requests[1] \in Message
      BY <3>1, ElementOfSeq DEF Typed
    <3>5. requests[1].size = 8
      BY <3>4 DEF Message
    <3>6. n = 1
      BY <1>1, <1>2, <3>5, WholeFirst
    <3> QED BY <3>2, <3>3, <3>6
  <2> HIDE DEF n
  <2>5. ASSUME NEW i \in DOMAIN requests' PROVE \E j \in DOMAIN requests : requests'[i] = requests[j]
    <3>1. i \in 1..Len(requests) - n
      BY <2>2, <2>3, LenProperties
    <3>2. n + i \in 1..Len(requests) /\ requests'[i] = requests[n + i]
      BY <1>2, <2>1, <2>2, <2>3, <3>1
    <3> QED BY <1>1, <3>2
  <2>6. Len(requests') <= Len(requests)
    BY <1>2, <2>1, <2>2, <2>3
  <2>7. turn' \in {"start", "login"} => requests' = <<>> /\ conn'.first_request
    <3> SUFFICES ASSUME turn' \in {"start", "login"} PROVE requests' = <<>> /\ conn'.first_request
      OBVIOUS
    <3>1. requests[1].kind = "ssl"
      BY <1>2, <1>4 DEF Proxy_cb_DeclinesSSL
    <3>2. Len(requests') = 0
      BY <1>2, <2>2, <2>3, <2>4, <3>1
    <3> QED BY <2>2, <2>3, <2>4, <3>1, <3>2, EmptySeq
  <2>8. turn' \in {"login", turn}
    BY <1>4 DEF Proxy_cb_DeclinesSSL
  <2>9. Len(requests') \in Nat /\ (conn'.first_request => Len(requests') <= 1)
    <3>1. Len(requests') \in Nat
      BY <2>2, <2>3, LenProperties
    <3>2. conn.first_request => Len(requests) <= 1
      BY DEF LoginFirst
    <3> QED BY <1>2, <2>2, <2>6, <3>1, <3>2
  <2> QED BY <1>2, <2>2, <2>5, <2>7, <2>8, <2>9 DEF LoginFirst, down
<1>5. ASSUME NEW full \in ReadTo(requests, request_in, Cuts), Proxy_cb_LogsIn(full)
      PROVE  LoginFirst'
  <2>1. /\ turn = "wait" /\ responses = <<>> /\ Len(toServer') = 1
        /\ conn'.first_request = FALSE
    BY <1>5, LoggingIn
  <2>2. requests' = <<>> /\ UNCHANGED <<down, turn>>
    BY <1>5 DEF Proxy_cb_LogsIn
  <2>3. DOMAIN <<>> = {}
    OBVIOUS
  <2> QED BY <2>1, <2>2, <2>3 DEF LoginFirst, down
<1>6. ASSUME NEW full \in ReadTo(requests, request_in, Cuts), Proxy_cb_Parses(full)
      PROVE  LoginFirst'
  <2>1. /\ ~conn'.first_request
        /\ \A i \in DOMAIN toServer : toServer[i].kind # "startup"
        /\ \A i \in DOMAIN requests' : requests'[i].kind \notin {"ssl", "startup"}
        /\ turn' \in {turn, "command"} /\ turn \notin {"start", "login"}
    BY <1>6, Parsing
  <2>2. PICK qs \in Seq(Forward) :
          /\ toServer' = toServer \o qs
          /\ \A i \in DOMAIN qs : qs[i].kind \notin {"ssl", "startup"}
    BY <1>6, Parsing
  <2>3. \A i \in DOMAIN toServer' : \/ \E j \in DOMAIN toServer : toServer'[i] = toServer[j]
                                    \/ \E j \in DOMAIN qs : toServer'[i] = qs[j]
    <3>1. toServer \in Seq(Forward)
      BY DEF Typed
    <3>2. \A i \in DOMAIN (toServer \o qs) :
            \/ \E j \in DOMAIN toServer : (toServer \o qs)[i] = toServer[j]
            \/ \E j \in DOMAIN qs : (toServer \o qs)[i] = qs[j]
      BY <3>1, Elements
    <3> QED BY <2>2, <3>2, Zenon
  <2>4. \A i \in DOMAIN toServer' : toServer'[i].kind # "startup"
    BY <2>1, <2>2, <2>3
  <2> QED BY <2>1, <2>4 DEF LoginFirst
<1>7. CASE Proxy_cb
  <2>1. PICK full \in ReadTo(requests, request_in, Cuts) :
          \/ Proxy_cb_Waits(full)
          \/ full = 8 /\ Proxy_cb_DeclinesSSL
          \/ Proxy_cb_LogsIn(full)
          \/ Proxy_cb_Parses(full)
    BY <1>7 DEF Proxy_cb
  <2> QED BY <1>3, <1>4, <1>5, <1>6, <2>1
<1>8. CASE Backend_cb
  <2>1. PICK full \in ReadTo(responses, response_in, Cuts) :
          /\ conn' = parseResponse(conn, responses, full).conn
          /\ \E kinds : turn' = TurnAfter(kinds)
    BY <1>8 DEF Backend_cb
  <2>2. Len(responses) > 0
    BY <1>1, ReadOf DEF Typed
  <2>3. responses # <<>>
    BY <2>2
  <2>4. ~conn.first_request /\ \A i \in DOMAIN toServer : toServer[i].kind # "startup"
    BY <2>3 DEF LoginFirst
  <2>5. conn'.first_request = conn.first_request
    BY <2>1, ParsedResponse DEF Typed
  <2>6. turn' \in {turn, "command", "password"} /\ turn \notin {"start", "login"}
    BY <2>1, <2>4 DEF TurnAfter, LoginFirst
  <2>7. UNCHANGED <<requests, toServer>>
    BY <1>8 DEF Backend_cb, up
  <2> QED BY <2>4, <2>5, <2>6, <2>7 DEF LoginFirst
<1>9. ASSUME ClientSends \/ (ClientLogsIn /\ turn = "password")
      PROVE  LoginFirst'
  <2>1. PICK ps \in Seq(Message) : /\ requests' = requests \o ps
                                   /\ \A i \in DOMAIN ps : ps[i].kind \notin {"ssl", "startup"}
    BY <1>9, Sending
  <2>2. turn \in {"command", "password"} /\ turn' = "wait" /\ UNCHANGED <<conn, toServer>>
    BY <1>9 DEF ClientSends, ClientLogsIn, Sends
  <2>3. ~conn.first_request /\ \A i \in DOMAIN toServer : toServer[i].kind # "startup"
    BY <2>2 DEF LoginFirst
  <2>4. \A i \in DOMAIN requests' : \/ \E j \in DOMAIN requests : requests'[i] = requests[j]
                                    \/ \E j \in DOMAIN ps : requests'[i] = ps[j]
    <3>1. requests \in Seq(Message)
      BY DEF Typed
    <3>2. \A i \in DOMAIN (requests \o ps) :
            \/ \E j \in DOMAIN requests : (requests \o ps)[i] = requests[j]
            \/ \E j \in DOMAIN ps : (requests \o ps)[i] = ps[j]
      BY <3>1, Elements
    <3> QED BY <2>1, <3>2, Zenon
  <2>5. \A i \in DOMAIN requests' : requests'[i].kind \notin {"ssl", "startup"}
    BY <2>1, <2>3, <2>4 DEF LoginFirst
  <2> QED BY <2>2, <2>3, <2>5 DEF LoginFirst
<1>10. ASSUME ClientLogsIn, turn # "password"
       PROVE  LoginFirst'
  <2>1. ASSUME NEW kind \in {"ssl", "startup"}, NEW z, NEW ps, Sends(<<Request(kind, z, ps)>>),
               turn \in {"start", "login"}
        PROVE  LoginFirst'
    <3> DEFINE m == Request(kind, z, ps)
    <3>1. m.kind \in {"ssl", "startup"}
      BY DEF Request
    <3> HIDE DEF m
    <3>2. requests' = requests \o <<m>> /\ turn' = "wait" /\ UNCHANGED <<conn, down, toServer>>
      BY <2>1 DEF Sends, m
    <3>3. requests = <<>> /\ conn.first_request /\ responses = <<>> /\ toServer = <<>>
      BY <2>1 DEF LoginFirst
    <3>4. requests' = <<m>>
      BY <3>2, <3>3
    <3>5. Len(<<m>>) = 1 /\ \A i \in DOMAIN <<m>> : <<m>>[i] = m
      <4>1. Len(<<m>>) = 1 /\ DOMAIN <<m>> = 1..1 /\ \A i \in 1..1 : i = 1
        OBVIOUS
      <4>2. <<m>>[1] = m
        OBVIOUS
      <4> QED BY <4>1, <4>2, Zenon
    <3>6. Len(requests') <= 1 /\ \A i \in DOMAIN requests' : requests'[i].kind \in {"ssl", "startup"}
      <4>1. Len(requests') = 1 /\ \A i \in DOMAIN requests' : requests'[i] = m
        BY <3>4, <3>5, Zenon
      <4> QED BY <3>1, <4>1
    <3>7. \A i \in DOMAIN toServer : FALSE
      BY <3>3
    <3> QED BY <3>2, <3>3, <3>6, <3>7 DEF LoginFirst, down
  <2> QED BY <1>10, <2>1 DEF ClientLogsIn
<1>11. CASE ServerAnswers
  <2>1. /\ UNCHANGED <<conn, requests, turn>> /\ ~conn.first_request
        /\ \A k \in DOMAIN toServer' : toServer'[k].kind # "startup"
    BY <1>11, Answering
  <2> QED BY <2>1 DEF LoginFirst
<1>12. CASE UNCHANGED vars
  BY <1>12 DEF vars, up, down, LoginFirst
<1> QED BY <1>7, <1>8, <1>9, <1>10, <1>11, <1>12 DEF Next
\* The settings of the connection are those of the database.
LEMMA SettingsStep ==
  ASSUME Typed, LoginFirst, SettingsFound, [Next]_vars
  PROVE  SettingsFound'
<1>1. Stream(requests) /\ Stream(responses)
  BY Streams DEF Typed
<1>2. ASSUME UNCHANGED <<toServer, serverDb>>,
             conn'.first_request = conn.first_request, conn'.db = conn.db,
             disturbed \subseteq disturbed'
      PROVE  SettingsFound'
  BY <1>2 DEF SettingsFound, Database
<1>3. CASE Proxy_cb
  <2>1. PICK full \in ReadTo(requests, request_in, Cuts) :
          \/ Proxy_cb_Waits(full)
          \/ full = 8 /\ Proxy_cb_DeclinesSSL
          \/ Proxy_cb_LogsIn(full)
          \/ Proxy_cb_Parses(full)
    BY <1>3 DEF Proxy_cb
  <2>2. serverDb' = serverDb
    BY <1>3 DEF Proxy_cb
  <2>3. CASE Proxy_cb_Waits(full) \/ Proxy_cb_DeclinesSSL
    <3>1. UNCHANGED <<conn, toServer>> /\ disturbed \subseteq disturbed'
      BY <2>3 DEF Proxy_cb_Waits, Proxy_cb_DeclinesSSL
    <3> QED BY <1>2, <2>2, <3>1
  <2>4. CASE Proxy_cb_LogsIn(full)
    <3> DEFINE ps == requests[1].parameters
    <3>1. /\ ps \in Startups
          /\ toServer' \in Seq(Forward) /\ Len(toServer') = 1
          /\ toServer'[1].kind = "startup" /\ toServer'[1].parameters = ps
          /\ conn'.db = dbmap_find(DatabaseFrom(ps))
      BY <2>4, LoggingIn
    <3>2. disturbed' = IF Plain(ps) THEN {} ELSE {"parameters"}
      BY <2>4 DEF Proxy_cb_LogsIn
    <3> HIDE DEF ps
    <3>3. "parameters" \notin disturbed' => DatabaseFrom(ps) = DatabaseOf(ps)
      BY <3>1, <3>2, StartupType, DatabaseFound
    <3>4. toServer' # <<>>
      <4>1. Len(toServer') # 0
        BY <3>1
      <4> QED BY <4>1, EmptySeq
    <3>5. Database' = DatabaseOf(ps)
      BY <3>1, <3>4 DEF Database
    <3> QED BY <3>1, <3>3, <3>5 DEF SettingsFound
  <2>5. CASE Proxy_cb_Parses(full)
    <3>1. /\ ~conn.first_request /\ conn'.db = conn.db
          /\ \A i \in DOMAIN toServer : toServer[i].kind # "startup"
          /\ "parameters" \in disturbed' <=> "parameters" \in disturbed
      BY <2>5, Parsing
    <3>2. PICK qs \in Seq(Forward) :
            /\ toServer' = toServer \o qs
            /\ \A i \in DOMAIN qs : qs[i].kind \notin {"ssl", "startup"}
      BY <2>5, Parsing
    <3>3. toServer \in Seq(Forward)
      BY DEF Typed
    <3>4. toServer # <<>> => toServer[1].kind # "startup" /\ toServer'[1] = toServer[1]
      BY <3>1, <3>2, <3>3, Elements
    <3>5. toServer = <<>> => toServer' = qs
      BY <3>2, <3>3, Elements
    <3>6. qs # <<>> => qs[1].kind # "startup"
      BY <3>2, Elements
    <3>7. Database = serverDb
      BY <3>4 DEF Database
    <3>8. Database' = serverDb'
      <4>1. toServer' # <<>> => toServer'[1].kind # "startup"
        BY <3>4, <3>5, <3>6
      <4> QED BY <4>1 DEF Database
    <3> QED BY <2>2, <3>1, <3>7, <3>8 DEF SettingsFound
  <2> QED BY <2>1, <2>3, <2>4, <2>5
<1>4. CASE Backend_cb
  <2>1. PICK full \in ReadTo(responses, response_in, Cuts) :
          conn' = parseResponse(conn, responses, full).conn
    BY <1>4 DEF Backend_cb
  <2>2. conn'.first_request = conn.first_request /\ conn'.db = conn.db
    BY <2>1, ParsedResponse DEF Typed
  <2>3. UNCHANGED <<toServer, serverDb, disturbed>>
    BY <1>4 DEF Backend_cb
  <2> QED BY <1>2, <2>2, <2>3
<1>5. CASE ClientLogsIn \/ ClientSends
  <2>1. UNCHANGED <<conn, toServer, serverDb, disturbed>>
    BY <1>5 DEF ClientLogsIn, ClientSends, Sends
  <2> QED BY <1>2, <2>1
<1>6. CASE ServerAnswers
  <2>1. /\ toServer' \in Seq(Forward) /\ serverDb' = Database
        /\ \A i \in DOMAIN toServer' : toServer'[i].kind # "startup"
        /\ UNCHANGED <<conn, disturbed>>
    BY <1>6, Answering
  <2>2. toServer' # <<>> => toServer'[1].kind # "startup"
    BY <2>1, Elements
  <2>3. Database' = serverDb'
    BY <2>2 DEF Database
  <2> QED BY <2>1, <2>3 DEF SettingsFound
<1>7. CASE UNCHANGED vars
  BY <1>2, <1>7 DEF vars
<1> QED BY <1>3, <1>4, <1>5, <1>6, <1>7 DEF Next

\* A query on the way is judged once, by the settings of the database.
LEMMA JudgedStep ==
  ASSUME Inv, [Next]_vars
  PROVE  EveryQueryJudged' /\ JudgedBySettings'
<1> USE DEF Inv
<1>1. Stream(requests)
  BY Streams DEF Typed
<1>2. ASSUME UNCHANGED <<toServer, serverDb>>, disturbed \subseteq disturbed'
      PROVE  EveryQueryJudged' /\ JudgedBySettings'
  BY <1>2 DEF EveryQueryJudged, JudgedBySettings
<1>3. CASE Proxy_cb
  <2>1. PICK full \in ReadTo(requests, request_in, Cuts) :
          \/ Proxy_cb_Waits(full)
          \/ full = 8 /\ Proxy_cb_DeclinesSSL
          \/ Proxy_cb_LogsIn(full)
          \/ Proxy_cb_Parses(full)
    BY <1>3 DEF Proxy_cb
  <2>2. serverDb' = serverDb
    BY <1>3 DEF Proxy_cb
  <2>3. CASE Proxy_cb_Waits(full) \/ Proxy_cb_DeclinesSSL
    <3>1. UNCHANGED toServer /\ disturbed \subseteq disturbed'
      BY <2>3 DEF Proxy_cb_Waits, Proxy_cb_DeclinesSSL
    <3> QED BY <1>2, <2>2, <3>1
  <2>4. CASE Proxy_cb_LogsIn(full)
    <3>1. /\ toServer' \in Seq(Forward) /\ Len(toServer') = 1
          /\ toServer'[1].kind = "startup" /\ toServer'[1].judged = 0
      BY <2>4, LoggingIn
    <3>2. \A i \in DOMAIN toServer' : i = 1
      <4>1. DOMAIN toServer' = 1..1
        BY <3>1, LenProperties
      <4> QED BY <4>1
    <3>3. \A i \in DOMAIN toServer' : toServer'[i].kind = "startup" /\ ~(toServer'[i].judged > 0)
      BY <3>1, <3>2
    <3> QED BY <3>3 DEF EveryQueryJudged, ToBeJudged, JudgedBySettings
  <2>5. CASE Proxy_cb_Parses(full)
    <3>1. /\ ~conn.first_request
          /\ \A i \in DOMAIN toServer : toServer[i].kind # "startup"
          /\ "parameters" \in disturbed' <=> "parameters" \in disturbed
      BY <2>5, Parsing
    <3>2. PICK qs \in Seq(Forward) :
            /\ toServer' = toServer \o qs
            /\ \A i \in DOMAIN qs :
                 /\ qs[i].settings = conn.db
                 /\ ToBeJudged(qs[i]) => qs[i].judged = 1
      BY <2>5, Parsing
    <3>3. toServer \in Seq(Forward)
      BY DEF Typed
    <3>4. \A i \in DOMAIN toServer' : \/ \E j \in DOMAIN toServer : toServer'[i] = toServer[j]
                                      \/ \E j \in DOMAIN qs : toServer'[i] = qs[j]
      <4>1. \A i \in DOMAIN (toServer \o qs) :
              \/ \E j \in DOMAIN toServer : (toServer \o qs)[i] = toServer[j]
              \/ \E j \in DOMAIN qs : (toServer \o qs)[i] = qs[j]
        BY <3>3, Elements
      <4> QED BY <3>2, <4>1, Zenon
    <3>5. "parameters" \notin disturbed => conn.db = dbmap_find(serverDb)
      <4>1. toServer # <<>> => toServer[1].kind # "startup"
        BY <3>1, <3>3, Elements
      <4>2. Database = serverDb
        BY <4>1 DEF Database
      <4> QED BY <3>1, <4>2 DEF SettingsFound
    <3>6. EveryQueryJudged'
      BY <3>2, <3>4 DEF EveryQueryJudged
    <3>7. JudgedBySettings'
      <4>1. \A j \in DOMAIN qs : "parameters" \notin disturbed => qs[j].settings = dbmap_find(serverDb)
        BY <3>2, <3>5
      <4> QED BY <2>2, <3>1, <3>4, <4>1 DEF JudgedBySettings
    <3> QED BY <3>6, <3>7
  <2> QED BY <2>1, <2>3, <2>4, <2>5
<1>4. CASE Backend_cb \/ ClientLogsIn \/ ClientSends \/ UNCHANGED vars
  <2>1. UNCHANGED <<toServer, serverDb, disturbed>>
    BY <1>4 DEF Backend_cb, ClientLogsIn, ClientSends, Sends, vars
  <2> QED BY <1>2, <2>1
<1>5. CASE ServerAnswers
  <2>1. /\ toServer \in Seq(Forward) /\ toServer # <<>> /\ serverDb' = Database
        /\ \A i \in DOMAIN toServer' : \E j \in DOMAIN toServer : toServer'[i] = toServer[j]
        /\ toServer[1].kind = "startup" => DOMAIN toServer' = {}
        /\ UNCHANGED disturbed
    BY <1>5, Answering DEF Typed
  <2>2. EveryQueryJudged'
    BY <2>1 DEF EveryQueryJudged
  <2>3. CASE toServer[1].kind = "startup"
    BY <2>1, <2>2, <2>3 DEF JudgedBySettings
  <2>4. CASE toServer[1].kind # "startup"
    <3>1. serverDb' = serverDb
      BY <2>1, <2>4 DEF Database
    <3> QED BY <2>1, <2>2, <3>1 DEF JudgedBySettings
  <2> QED BY <2>3, <2>4
<1> QED BY <1>3, <1>4, <1>5 DEF Next

\* What the theorems rest on.
THEOREM Invariant == Spec => []Inv
<1>1. Init => Inv
  <2> SUFFICES ASSUME Init PROVE Inv
    OBVIOUS
  <2>1. conn \in Connection
    BY DEF Init, Connection, Settings
  <2>2. <<>> \in Seq(Message) /\ <<>> \in Seq(Reply) /\ <<>> \in Seq(Forward) /\ Len(<<>>) = 0
    OBVIOUS
  <2>3. Bytes(<<>>, 0) = 0
    BY <2>2, Streams, BytesDef
  <2>4. 0 \in 0..MaxBatches
    <3>1. MaxBatches \in Nat
      BY PgSQLSessionAssumption
    <3> QED BY <3>1
  <2>5. Typed
    BY <2>1, <2>2, <2>3, <2>4 DEF Init, Typed
  <2>6. DOMAIN <<>> = {}
    OBVIOUS
  <2>7. LoginFirst /\ SettingsFound
    BY <2>2, <2>6 DEF Init, LoginFirst, SettingsFound
  <2>8. EveryQueryJudged /\ JudgedBySettings
    BY <2>6 DEF Init, EveryQueryJudged, JudgedBySettings
  <2> QED BY <2>5, <2>7, <2>8 DEF Inv
<1>2. Inv /\ [Next]_vars => Inv'
  BY TypedStep, FirstStep, SettingsStep, JudgedStep DEF Inv
<1> QED BY <1>1, <1>2, PTL DEF Spec

\* Every variable has its type: no buffer holds more than was sent.
THEOREM TypeCorrect == Spec => []TypeOK
<1>1. Typed => TypeOK
  <2> SUFFICES ASSUME Typed PROVE TypeOK
    OBVIOUS
  <2>1. conn \in [first_request : BOOLEAN, SecondPacket : BOOLEAN, db : Settings]
    BY DEF Typed, Connection
  <2>2. requests \in Seq([kind : Kind, size : Nat, parameters : Seq(Parameter)])
    <3> DEFINE M == [kind : Kind, size : Nat, parameters : Seq(Parameter)]
    <3>1. /\ Len(requests) \in Nat /\ DOMAIN requests = 1..Len(requests)
          /\ requests = [i \in 1..Len(requests) |-> requests[i]]
          /\ \A i \in 1..Len(requests) : requests[i] \in Message
      BY LenProperties, ElementOfSeq DEF Typed
    <3>2. \A i \in 1..Len(requests) : requests[i] \in M
      BY <3>1 DEF Message
    <3> HIDE DEF M
    <3>3. requests \in [1..Len(requests) -> M]
      BY <3>1, <3>2
    <3>4. requests \in Seq(M)
      BY <3>1, <3>3
    <3> QED BY <3>4 DEF M
  <2>3. responses \in Seq([kind : {"auth", "authok", "status", "complete", "ready", "error"}, size : Nat])
    <3> DEFINE R == [kind : {"auth", "authok", "status", "complete", "ready", "error"}, size : Nat]
    <3>1. /\ Len(responses) \in Nat /\ DOMAIN responses = 1..Len(responses)
          /\ responses = [i \in 1..Len(responses) |-> responses[i]]
          /\ \A i \in 1..Len(responses) : responses[i] \in Reply
      BY LenProperties, ElementOfSeq DEF Typed
    <3>2. \A i \in 1..Len(responses) : responses[i] \in R
      BY <3>1 DEF Reply
    <3> HIDE DEF R
    <3>3. responses \in [1..Len(responses) -> R]
      BY <3>1, <3>2
    <3>4. responses \in Seq(R)
      BY <3>1, <3>3
    <3> QED BY <3>4 DEF R
  <2>4. toServer \in Seq([kind : Kind, size : Nat, parameters : Seq(Parameter),
                          settings : Settings, allowed : BOOLEAN, judged : Nat])
    <3> DEFINE F == [kind : Kind, size : Nat, parameters : Seq(Parameter),
                     settings : Settings, allowed : BOOLEAN, judged : Nat]
    <3>1. /\ Len(toServer) \in Nat /\ DOMAIN toServer = 1..Len(toServer)
          /\ toServer = [i \in 1..Len(toServer) |-> toServer[i]]
          /\ \A i \in 1..Len(toServer) : toServer[i] \in Forward
      BY LenProperties, ElementOfSeq DEF Typed
    <3>2. \A i \in 1..Len(toServer) : toServer[i] \in F
      BY <3>1 DEF Forward
    <3> HIDE DEF F
    <3>3. toServer \in [1..Len(toServer) -> F]
      BY <3>1, <3>2
    <3>4. toServer \in Seq(F)
      BY <3>1, <3>3
    <3> QED BY <3>4 DEF F
  <2> QED BY <2>1, <2>2, <2>3, <2>4 DEF Typed, TypeOK
<1> QED BY <1>1, Invariant, PTL DEF Inv

\* However its bytes arrive, a message with a query is judged before it goes to
\* the server, and once, unless it has 16 bytes.
THEOREM QueriesAreJudged == Spec => []EveryQueryJudged
<1>1. Inv => EveryQueryJudged
  BY DEF Inv
<1> QED BY <1>1, Invariant, PTL

\* It is judged by the settings of the database the server runs it in, whatever
\* the order of the parameters of a plain startup message.
THEOREM JudgedByTheRightSettings == Spec => []JudgedBySettings
<1>1. Inv => JudgedBySettings
  BY DEF Inv
<1> QED BY <1>1, Invariant, PTL
=============================================================================
