--------------------------- MODULE PacketsProofs ---------------------------
(***************************************************************************)
(* Facts about streams of packets, for the proofs about the two sessions:  *)
(* what Bytes, Whole and ReadTo yield for every stream and every position. *)
(* They rest on induction, which is had here from least elements of sets.  *)
(***************************************************************************)
EXTENDS Packets, SequenceTheorems, WellFoundedInduction, TLAPS

\* A set of natural numbers that has an element has a least one.
LEMMA Least ==
  ASSUME NEW S \in SUBSET Nat, S # {}
  PROVE  \E x \in S : \A y \in S : x <= y
<1> DEFINE R == OpToRel(<, Nat)
<1>1. IsWellFoundedOn(R, Nat)
  BY NatLessThanWellFounded
<1>2. \A x, y \in Nat : x < y => <<x, y>> \in R
  BY DEF OpToRel
<1> HIDE DEF R
<1>3. PICK x \in S : \A y \in S : ~(<<y, x>> \in R)
  BY <1>1, WFMin
<1>4. ASSUME NEW y \in S PROVE x <= y
  <2>1. x \in Nat /\ y \in Nat /\ ~(y < x)
    BY <1>2, <1>3
  <2> QED BY <2>1
<1> QED BY <1>4

\* A set that has 0, and with a number the next, has every number.
LEMMA Steps ==
  ASSUME NEW S, 0 \in S, \A n \in Nat : n \in S => n + 1 \in S
  PROVE  Nat \subseteq S
<1> SUFFICES ASSUME NEW m \in Nat, m \notin S PROVE FALSE
  OBVIOUS
<1>1. PICK x \in Nat \ S : \A y \in Nat \ S : x <= y
  <2>1. Nat \ S \in SUBSET Nat /\ Nat \ S # {}
    OBVIOUS
  <2> QED BY <2>1, Least
<1>2. x # 0 /\ x - 1 \in Nat /\ ~(x <= x - 1)
  BY <1>1
<1>3. x - 1 \in S
  BY <1>1, <1>2
<1>4. x \in S
  BY <1>2, <1>3
<1> QED BY <1>1, <1>4

\* A set of natural numbers below a bound that has an element has a greatest.
LEMMA Greatest ==
  ASSUME NEW b \in Nat, NEW S \in SUBSET 0..b, S # {}
  PROVE  Max(S) \in S /\ \A y \in S : y <= Max(S)
<1> DEFINE D == {d \in Nat : b - d \in S}
<1>1. D # {}
  <2>1. PICK y \in S : TRUE
    OBVIOUS
  <2>2. b - y \in Nat /\ b - (b - y) = y
    OBVIOUS
  <2> QED BY <2>1, <2>2
<1>2. PICK d \in D : \A e \in D : d <= e
  BY <1>1, Least
<1>3. ASSUME NEW y \in S PROVE b - d >= y
  <2>1. y \in 0..b /\ b - y \in Nat /\ b - (b - y) = y
    OBVIOUS
  <2>2. d <= b - y
    BY <1>2, <2>1
  <2> QED BY <2>1, <2>2
<1>4. \E x \in S : \A y \in S : x >= y
  BY <1>2, <1>3
<1>5. Max(S) \in S /\ \A y \in S : Max(S) >= y
  BY <1>4 DEF Max
<1> QED BY <1>5

----------------------------------------------------------------------------
(* Bytes.                                                                  *)

\* A stream of packets, each with a header at least.
Stream(ps) ==
  /\ Len(ps) \in Nat /\ DOMAIN ps = 1..Len(ps)
  /\ \A i \in 1..Len(ps) : ps[i].size \in Nat \ {0}

\* The function by which Bytes(ps, n) is defined.
IsSum(f, ps, n) == f = [i \in 0..n |-> IF i = 0 THEN 0 ELSE f[i - 1] + ps[i].size]

\* There is one, and it counts in natural numbers.
LEMMA SumExists ==
  ASSUME NEW ps, Stream(ps)
  PROVE  \A n \in 0..Len(ps) : \E f : IsSum(f, ps, n) /\ \A i \in 0..n : f[i] \in Nat
<1> DEFINE Good(n) == \E f : IsSum(f, ps, n) /\ \A i \in 0..n : f[i] \in Nat
           S == {n \in Nat : n > Len(ps) \/ Good(n)}
<1>1. 0 \in S
  <2> DEFINE f == [i \in 0..0 |-> 0]
  <2>1. IsSum(f, ps, 0) /\ \A i \in 0..0 : f[i] \in Nat
    BY DEF IsSum
  <2> QED BY <2>1
<1>2. ASSUME NEW n \in Nat, n \in S PROVE n + 1 \in S
  <2>1. CASE n + 1 > Len(ps)
    BY <2>1
  <2>2. CASE n + 1 <= Len(ps)
    <3>1. Len(ps) \in Nat /\ ~(n > Len(ps)) /\ n + 1 \in 1..Len(ps)
      BY <2>2 DEF Stream
    <3>2. PICK f : IsSum(f, ps, n) /\ \A i \in 0..n : f[i] \in Nat
      BY <1>2, <3>1
    <3> DEFINE g == [i \in 0..n + 1 |-> IF i = n + 1 THEN f[n] + ps[n + 1].size ELSE f[i]]
    <3>3. ps[n + 1].size \in Nat
      BY <3>1 DEF Stream
    <3>4. \A i \in 0..n : g[i] = f[i] /\ f[i] = IF i = 0 THEN 0 ELSE f[i - 1] + ps[i].size
      BY <3>2 DEF IsSum
    <3>5. g[n + 1] = f[n] + ps[n + 1].size
      OBVIOUS
    <3>6. \A i \in 0..n + 1 : i # n + 1 => i \in 0..n
      OBVIOUS
    <3>7. \A i \in 0..n + 1 : g[i] \in Nat
      BY <3>2, <3>3, <3>4, <3>5, <3>6
    <3>8. \A i \in 0..n + 1 : g[i] = IF i = 0 THEN 0 ELSE g[i - 1] + ps[i].size
      <4> TAKE i \in 0..n + 1
      <4>1. CASE i = n + 1
        <5>1. i # 0 /\ i - 1 = n /\ n \in 0..n
          BY <4>1
        <5> QED BY <3>4, <3>5, <4>1, <5>1
      <4>2. CASE i # n + 1
        <5>1. i \in 0..n /\ (i # 0 => i - 1 \in 0..n)
          BY <4>2
        <5> QED BY <3>4, <5>1
      <4> QED BY <4>1, <4>2
    <3>9. IsSum(g, ps, n + 1)
      <4>1. g = [i \in 0..n + 1 |-> g[i]]
        OBVIOUS
      <4> HIDE DEF g
      <4> QED BY <3>8, <4>1 DEF IsSum
    <3> QED BY <3>7, <3>9
  <2> QED BY <2>1, <2>2 DEF Stream
<1> HIDE DEF S
<1>3. Nat \subseteq S
  BY <1>1, <1>2, Steps
<1>4. ASSUME NEW n \in 0..Len(ps) PROVE Good(n)
  <2>1. n \in Nat /\ ~(n > Len(ps)) /\ n \in S
    BY <1>3 DEF Stream
  <2> HIDE DEF Good
  <2> QED BY <2>1 DEF S
<1> QED BY <1>4

\* There is no other, whatever the length of the stream.
LEMMA SumUnique ==
  ASSUME NEW ps, NEW n \in Nat, NEW m \in 0..n, NEW f, NEW g,
         IsSum(f, ps, n), IsSum(g, ps, m)
  PROVE  \A i \in 0..m : f[i] = g[i]
<1> DEFINE S == {i \in Nat : i \in 0..m => f[i] = g[i]}
<1>1. 0 \in S
  BY DEF IsSum
<1>2. ASSUME NEW i \in Nat, i \in S PROVE i + 1 \in S
  <2> SUFFICES ASSUME i + 1 \in 0..m PROVE f[i + 1] = g[i + 1]
    OBVIOUS
  <2>1. i \in 0..m /\ i + 1 \in 0..n /\ i + 1 # 0 /\ (i + 1) - 1 = i
    OBVIOUS
  <2>2. f[i + 1] = f[i] + ps[i + 1].size /\ g[i + 1] = g[i] + ps[i + 1].size
    BY <2>1 DEF IsSum
  <2> QED BY <1>2, <2>1, <2>2
<1>3. Nat \subseteq S
  <2> HIDE DEF S
  <2> QED BY <1>1, <1>2, Steps
<1> QED BY <1>3

\* The packets of a stream add up.
LEMMA BytesDef ==
  ASSUME NEW ps, Stream(ps)
  PROVE  /\ Bytes(ps, 0) = 0
         /\ \A n \in 0..Len(ps) : Bytes(ps, n) \in Nat
         /\ \A n \in 1..Len(ps) : Bytes(ps, n) = Bytes(ps, n - 1) + ps[n].size
<1>1. ASSUME NEW n \in 0..Len(ps)
      PROVE  \E f : /\ IsSum(f, ps, n) /\ \A i \in 0..n : f[i] \in Nat
                    /\ Bytes(ps, n) = f[n]
  <2> DEFINE c == CHOOSE f : IsSum(f, ps, n)
  <2>1. PICK f : IsSum(f, ps, n) /\ \A i \in 0..n : f[i] \in Nat
    BY SumExists
  <2>2. IsSum(c, ps, n)
    BY <2>1
  <2>3. Bytes(ps, n) = c[n]
    BY DEF Bytes, IsSum
  <2> HIDE DEF c
  <2>4. n \in Nat /\ n \in 0..n
    BY DEF Stream
  <2>5. \A i \in 0..n : c[i] = f[i]
    BY <2>1, <2>2, <2>4, SumUnique
  <2> QED BY <2>1, <2>2, <2>3, <2>5
<1>2. \A n \in 0..Len(ps) : Bytes(ps, n) \in Nat
  <2> TAKE n \in 0..Len(ps)
  <2>1. PICK f : (\A i \in 0..n : f[i] \in Nat) /\ Bytes(ps, n) = f[n]
    BY <1>1
  <2> QED BY <2>1 DEF Stream
<1>3. Bytes(ps, 0) = 0
  <2>1. 0 \in 0..Len(ps)
    BY DEF Stream
  <2>2. PICK f : IsSum(f, ps, 0) /\ Bytes(ps, 0) = f[0]
    BY <1>1, <2>1
  <2> QED BY <2>2 DEF IsSum
<1>4. ASSUME NEW n \in 1..Len(ps)
      PROVE  Bytes(ps, n) = Bytes(ps, n - 1) + ps[n].size
  <2>1. /\ n \in Nat /\ n # 0 /\ n \in 0..Len(ps) /\ n - 1 \in 0..Len(ps)
        /\ n - 1 \in 0..n /\ n \in 0..n /\ n - 1 \in 0..n - 1
    BY DEF Stream
  <2>2. PICK f : IsSum(f, ps, n) /\ Bytes(ps, n) = f[n]
    BY <1>1, <2>1
  <2>3. PICK g : IsSum(g, ps, n - 1) /\ Bytes(ps, n - 1) = g[n - 1]
    BY <1>1, <2>1
  <2>4. f[n - 1] = g[n - 1]
    BY <2>1, <2>2, <2>3, SumUnique
  <2>5. f[n] = f[n - 1] + ps[n].size
    BY <2>1, <2>2 DEF IsSum
  <2> QED BY <2>2, <2>3, <2>4, <2>5
<1> QED BY <1>2, <1>3, <1>4

\* A longer prefix of a stream has more bytes.
LEMMA BytesGrow ==
  ASSUME NEW ps, Stream(ps), NEW m \in 0..Len(ps), NEW n \in 0..Len(ps)
  PROVE  /\ m <= n => Bytes(ps, m) <= Bytes(ps, n)
         /\ m < n => Bytes(ps, m) < Bytes(ps, n)
<1> DEFINE S == {d \in Nat : m + d \in 0..Len(ps)
                              => /\ Bytes(ps, m) <= Bytes(ps, m + d)
                                 /\ d > 0 => Bytes(ps, m) < Bytes(ps, m + d)}
<1>1. 0 \in S
  <2>1. m + 0 = m /\ Bytes(ps, m) \in Nat
    BY BytesDef DEF Stream
  <2> QED BY <2>1
<1>2. ASSUME NEW d \in Nat, d \in S PROVE d + 1 \in S
  <2> SUFFICES ASSUME m + (d + 1) \in 0..Len(ps)
               PROVE  Bytes(ps, m) < Bytes(ps, m + (d + 1))
    BY BytesDef DEF Stream
  <2>1. /\ m + d \in 0..Len(ps) /\ m + (d + 1) \in 1..Len(ps)
        /\ (m + (d + 1)) - 1 = m + d
    BY DEF Stream
  <2>2. Bytes(ps, m + (d + 1)) = Bytes(ps, m + d) + ps[m + (d + 1)].size
    BY <2>1, BytesDef
  <2>3. /\ Bytes(ps, m) \in Nat /\ Bytes(ps, m + d) \in Nat
        /\ ps[m + (d + 1)].size \in Nat \ {0}
    BY <2>1, BytesDef DEF Stream
  <2>4. Bytes(ps, m) <= Bytes(ps, m + d)
    BY <1>2, <2>1
  <2> QED BY <2>2, <2>3, <2>4
<1>3. Nat \subseteq S
  <2> HIDE DEF S
  <2> QED BY <1>1, <1>2, Steps
<1>4. ASSUME m <= n
      PROVE  Bytes(ps, m) <= Bytes(ps, n) /\ (m < n => Bytes(ps, m) < Bytes(ps, n))
  <2>1. n - m \in Nat /\ m + (n - m) = n /\ (m < n => n - m > 0)
    BY <1>4 DEF Stream
  <2>2. n - m \in S
    BY <1>3, <2>1
  <2> QED BY <2>1, <2>2
<1> QED BY <1>4

\* What is behind the first m packets is a stream, and has the other bytes.
LEMMA FromStream ==
  ASSUME NEW T, NEW ps \in Seq(T), Stream(ps), NEW m \in 0..Len(ps)
  PROVE  /\ From(ps, m) \in Seq(T) /\ Stream(From(ps, m))
         /\ Len(From(ps, m)) = Len(ps) - m
         /\ \A i \in 1..Len(ps) - m : From(ps, m)[i] = ps[m + i]
         /\ \A i \in 0..Len(ps) - m : Bytes(From(ps, m), i) = Bytes(ps, m + i) - Bytes(ps, m)
<1> DEFINE qs == From(ps, m)
<1>0. Len(ps) \in Nat /\ \A i \in 1..Len(ps) : ps[i] \in T
  BY LenProperties, ElementOfSeq
<1>1. /\ qs \in Seq(T) /\ Len(qs) = Len(ps) - m
      /\ \A i \in 1..Len(ps) - m : qs[i] = ps[m + i]
  <2>1. /\ m + 1 \in 1..Len(ps) + 1 /\ Len(ps) \in m..Len(ps)
        /\ Len(ps) - (m + 1) + 1 = Len(ps) - m
        /\ \A i \in (m + 1)..Len(ps) : ps[i] \in T
    BY <1>0
  <2>2. /\ SubSeq(ps, m + 1, Len(ps)) \in Seq(T)
        /\ Len(SubSeq(ps, m + 1, Len(ps))) = Len(ps) - m
    <3>1. /\ SubSeq(ps, m + 1, Len(ps)) \in Seq(T)
          /\ Len(SubSeq(ps, m + 1, Len(ps)))
               = IF m + 1 <= Len(ps) THEN Len(ps) - (m + 1) + 1 ELSE 0
      BY <1>0, <2>1, SubSeqProperties
    <3> QED BY <1>0, <3>1
  <2>3. \A i \in 1..Len(ps) - m : SubSeq(ps, m + 1, Len(ps))[i] = ps[m + i]
    BY <1>0, <2>1, SubSeqProperties
  <2> QED BY <2>2, <2>3 DEF From
<1>2. Stream(qs)
  <2>1. DOMAIN qs = 1..Len(qs) /\ Len(qs) \in Nat
    BY <1>1, LenProperties
  <2>2. \A i \in 1..Len(qs) : m + i \in 1..Len(ps)
    BY <1>0, <1>1
  <2> HIDE DEF qs
  <2> QED BY <1>1, <2>1, <2>2 DEF Stream
<1> DEFINE S == {i \in Nat : i \in 0..Len(ps) - m
                              => Bytes(qs, i) = Bytes(ps, m + i) - Bytes(ps, m)}
<1> HIDE DEF qs
<1>3. 0 \in S
  <2>1. m + 0 = m /\ Bytes(ps, m) \in Nat /\ Bytes(qs, 0) = 0
    BY <1>2, BytesDef
  <2> QED BY <2>1
<1>4. ASSUME NEW i \in Nat, i \in S PROVE i + 1 \in S
  <2> SUFFICES ASSUME i + 1 \in 0..Len(ps) - m
               PROVE  Bytes(qs, i + 1) = Bytes(ps, m + (i + 1)) - Bytes(ps, m)
    OBVIOUS
  <2>1. /\ i \in 0..Len(ps) - m /\ i + 1 \in 1..Len(qs) /\ (i + 1) - 1 = i
        /\ i + 1 \in 1..Len(ps) - m
        /\ m + (i + 1) \in 1..Len(ps) /\ (m + (i + 1)) - 1 = m + i
        /\ m + i \in 0..Len(ps)
    BY <1>0, <1>1
  <2>2. Bytes(qs, i + 1) = Bytes(qs, i) + ps[m + (i + 1)].size
    <3>1. ASSUME NEW j \in 1..Len(qs) PROVE Bytes(qs, j) = Bytes(qs, j - 1) + qs[j].size
      BY <1>2, BytesDef
    <3>2. Bytes(qs, i + 1) = Bytes(qs, (i + 1) - 1) + qs[i + 1].size
      BY <2>1, <3>1
    <3> QED BY <1>1, <2>1, <3>2
  <2>3. Bytes(ps, m + (i + 1)) = Bytes(ps, m + i) + ps[m + (i + 1)].size
    <3>1. ASSUME NEW j \in 1..Len(ps) PROVE Bytes(ps, j) = Bytes(ps, j - 1) + ps[j].size
      BY BytesDef
    <3>2. Bytes(ps, m + (i + 1)) = Bytes(ps, (m + (i + 1)) - 1) + ps[m + (i + 1)].size
      BY <2>1, <3>1
    <3> QED BY <2>1, <3>2
  <2>4. /\ Bytes(ps, m) \in Nat /\ Bytes(ps, m + i) \in Nat
        /\ ps[m + (i + 1)].size \in Nat
    BY <2>1, BytesDef DEF Stream
  <2> QED BY <1>4, <2>1, <2>2, <2>3, <2>4
<1>5. Nat \subseteq S
  <2> HIDE DEF S
  <2> QED BY <1>3, <1>4, Steps
<1>6. \A i \in 0..Len(ps) - m : Bytes(qs, i) = Bytes(ps, m + i) - Bytes(ps, m)
  <2> TAKE i \in 0..Len(ps) - m
  <2>1. i \in S
    BY <1>0, <1>5
  <2> QED BY <2>1
<1> QED BY <1>1, <1>2, <1>6 DEF qs

\* Putting a stream behind another adds its bytes.
LEMMA ConcatStream ==
  ASSUME NEW T, NEW ps \in Seq(T), NEW qs \in Seq(T), Stream(ps), Stream(qs)
  PROVE  /\ ps \o qs \in Seq(T) /\ Stream(ps \o qs)
         /\ Len(ps \o qs) = Len(ps) + Len(qs)
         /\ \A i \in 0..Len(ps) : Bytes(ps \o qs, i) = Bytes(ps, i)
         /\ Bytes(ps, Len(ps)) <= Bytes(ps \o qs, Len(ps \o qs))
<1> DEFINE rs == ps \o qs
<1>1. /\ rs \in Seq(T) /\ Len(rs) = Len(ps) + Len(qs)
      /\ Len(ps) \in Nat /\ Len(qs) \in Nat
      /\ \A i \in 1..Len(ps) + Len(qs) :
           rs[i] = IF i <= Len(ps) THEN ps[i] ELSE qs[i - Len(ps)]
  BY ConcatProperties, LenProperties
<1>2. Stream(rs)
  <2>1. DOMAIN rs = 1..Len(rs) /\ Len(rs) \in Nat
    BY <1>1, LenProperties
  <2> HIDE DEF rs
  <2>2. ASSUME NEW i \in 1..Len(rs) PROVE rs[i].size \in Nat \ {0}
    <3>1. CASE i <= Len(ps)
      <4>1. i \in 1..Len(ps) /\ rs[i] = ps[i]
        BY <1>1, <3>1
      <4> QED BY <4>1 DEF Stream
    <3>2. CASE ~(i <= Len(ps))
      <4>1. i - Len(ps) \in 1..Len(qs) /\ rs[i] = qs[i - Len(ps)]
        BY <1>1, <3>2
      <4> QED BY <4>1 DEF Stream
    <3> QED BY <3>1, <3>2
  <2> QED BY <2>1, <2>2 DEF Stream
<1> HIDE DEF rs
<1> DEFINE S == {i \in Nat : i \in 0..Len(ps) => Bytes(rs, i) = Bytes(ps, i)}
<1>3. 0 \in S
  BY <1>2, BytesDef
<1>4. ASSUME NEW i \in Nat, i \in S PROVE i + 1 \in S
  <2> SUFFICES ASSUME i + 1 \in 0..Len(ps) PROVE Bytes(rs, i + 1) = Bytes(ps, i + 1)
    OBVIOUS
  <2>1. /\ i \in 0..Len(ps) /\ i + 1 \in 1..Len(ps) /\ i + 1 \in 1..Len(rs)
        /\ (i + 1) - 1 = i /\ i + 1 <= Len(ps) /\ rs[i + 1] = ps[i + 1]
    BY <1>1
  <2>2. /\ Bytes(rs, i + 1) = Bytes(rs, i) + rs[i + 1].size
        /\ Bytes(ps, i + 1) = Bytes(ps, i) + ps[i + 1].size
    BY <1>2, <2>1, BytesDef
  <2> QED BY <1>4, <2>1, <2>2
<1>5. Nat \subseteq S
  <2> HIDE DEF S
  <2> QED BY <1>3, <1>4, Steps
<1>6. \A i \in 0..Len(ps) : Bytes(rs, i) = Bytes(ps, i)
  <2> TAKE i \in 0..Len(ps)
  <2>1. i \in S
    BY <1>1, <1>5
  <2> QED BY <2>1
<1>7. Bytes(ps, Len(ps)) <= Bytes(rs, Len(rs))
  <2>1. /\ Len(ps) \in 0..Len(rs) /\ Len(rs) \in 0..Len(rs)
        /\ Len(ps) <= Len(rs) /\ Len(ps) \in 0..Len(ps)
    BY <1>1
  <2>2. Bytes(rs, Len(ps)) <= Bytes(rs, Len(rs))
    BY <1>2, <2>1, BytesGrow
  <2> QED BY <1>6, <2>1, <2>2
<1> QED BY <1>1, <1>2, <1>6, <1>7 DEF rs

\* What is behind the first of two streams is the second.
LEMMA BehindConcat ==
  ASSUME NEW T, NEW ps \in Seq(T), NEW qs \in Seq(T), Stream(ps), Stream(qs)
  PROVE  /\ From(ps \o qs, Len(ps)) = qs
         /\ Bytes(ps \o qs, Len(ps \o qs)) = Bytes(ps, Len(ps)) + Bytes(qs, Len(qs))
<1> DEFINE rs == ps \o qs
           k == Len(ps)
<1>1. /\ rs \in Seq(T) /\ Stream(rs) /\ Len(rs) = k + Len(qs)
      /\ k \in Nat /\ Len(qs) \in Nat
      /\ Bytes(rs, k) = Bytes(ps, k)
      /\ \A i \in 1..k + Len(qs) : rs[i] = IF i <= k THEN ps[i] ELSE qs[i - k]
  <2>1. k \in 0..k /\ k \in Nat /\ Len(qs) \in Nat
    BY LenProperties
  <2>2. /\ rs \in Seq(T) /\ Stream(rs) /\ Len(rs) = k + Len(qs)
        /\ Bytes(rs, k) = Bytes(ps, k)
    BY <2>1, ConcatStream
  <2>3. \A i \in 1..k + Len(qs) : rs[i] = IF i <= k THEN ps[i] ELSE qs[i - k]
    BY ConcatProperties
  <2> QED BY <2>1, <2>2, <2>3
<1> HIDE DEF rs
<1>2. k \in 0..Len(rs) /\ Len(rs) - k = Len(qs) /\ k + Len(qs) = Len(rs)
  BY <1>1
<1> HIDE DEF k
<1>3. /\ From(rs, k) \in Seq(T) /\ Len(From(rs, k)) = Len(qs)
      /\ \A i \in 1..Len(qs) : From(rs, k)[i] = rs[k + i]
      /\ \A i \in 0..Len(qs) : Bytes(From(rs, k), i) = Bytes(rs, k + i) - Bytes(rs, k)
  BY <1>1, <1>2, FromStream
<1>4. \A i \in 1..Len(qs) : rs[k + i] = qs[i]
  <2> TAKE i \in 1..Len(qs)
  <2>1. k + i \in 1..k + Len(qs) /\ ~(k + i <= k) /\ (k + i) - k = i
    BY <1>1
  <2> QED BY <1>1, <2>1
<1>5. From(rs, k) = qs
  BY <1>3, <1>4, SeqEqual
<1>6. Bytes(qs, Len(qs)) = Bytes(rs, Len(rs)) - Bytes(rs, k)
  <2>1. Len(qs) \in 0..Len(qs)
    BY <1>1
  <2> QED BY <1>2, <1>3, <1>5, <2>1
<1>7. Bytes(rs, Len(rs)) \in Nat /\ Bytes(rs, k) \in Nat
  <2>1. Len(rs) \in 0..Len(rs)
    BY <1>1
  <2> QED BY <1>1, <1>2, <2>1, BytesDef
<1> QED BY <1>1, <1>5, <1>6, <1>7 DEF rs, k

\* The first packets of a stream are one, and have their bytes.
LEMMA FirstStream ==
  ASSUME NEW T, NEW ps \in Seq(T), Stream(ps), NEW n \in 0..Len(ps)
  PROVE  /\ SubSeq(ps, 1, n) \in Seq(T) /\ Stream(SubSeq(ps, 1, n))
         /\ Len(SubSeq(ps, 1, n)) = n
         /\ \A i \in 1..n : SubSeq(ps, 1, n)[i] = ps[i]
         /\ \A i \in 0..n : Bytes(SubSeq(ps, 1, n), i) = Bytes(ps, i)
<1> DEFINE qs == SubSeq(ps, 1, n)
<1>1. Len(ps) \in Nat /\ n \in Int /\ \A i \in 1..n : i \in 1..Len(ps) /\ ps[i] \in T
  BY LenProperties, ElementOfSeq
<1>2. qs \in Seq(T) /\ Len(qs) = n /\ \A i \in 1..n : qs[i] = ps[i]
  <2>1. /\ qs \in Seq(T)
        /\ Len(qs) = IF 1 <= n THEN n - 1 + 1 ELSE 0
        /\ \A i \in 1..n - 1 + 1 : qs[i] = ps[1 + i - 1]
    BY <1>1, SubSeqProperties
  <2>2. \A i \in 1..n : i \in 1..n - 1 + 1 /\ 1 + i - 1 = i
    BY <1>1
  <2> HIDE DEF qs
  <2> QED BY <1>1, <2>1, <2>2
<1> HIDE DEF qs
<1>3. Stream(qs)
  <2>1. DOMAIN qs = 1..Len(qs) /\ Len(qs) \in Nat
    BY <1>2, LenProperties
  <2> QED BY <1>1, <1>2, <2>1 DEF Stream
<1>4. From(ps, n) \in Seq(T) /\ Stream(From(ps, n))
  BY FromStream
<1>5. qs \o From(ps, n) = ps
  <2>1. /\ From(ps, n) \in Seq(T) /\ Len(From(ps, n)) = Len(ps) - n
        /\ \A i \in 1..Len(ps) - n : From(ps, n)[i] = ps[n + i]
    BY FromStream
  <2> DEFINE rs == qs \o From(ps, n)
  <2>2. /\ rs \in Seq(T) /\ Len(rs) = n + (Len(ps) - n)
        /\ \A i \in 1..n + (Len(ps) - n) :
             rs[i] = IF i <= n THEN qs[i] ELSE From(ps, n)[i - n]
    BY <1>2, <2>1, ConcatProperties
  <2> HIDE DEF rs
  <2>3. Len(rs) = Len(ps)
    BY <1>1, <2>2
  <2>4. ASSUME NEW i \in 1..Len(ps) PROVE rs[i] = ps[i]
    <3>1. CASE i <= n
      BY <1>1, <1>2, <2>2, <3>1
    <3>2. CASE ~(i <= n)
      <4>1. i - n \in 1..Len(ps) - n /\ n + (i - n) = i /\ i \in 1..n + (Len(ps) - n)
        BY <1>1, <3>2
      <4> QED BY <2>1, <2>2, <3>2, <4>1
    <3> QED BY <3>1, <3>2
  <2>5. rs = ps
    BY <2>2, <2>3, <2>4, SeqEqual
  <2> QED BY <2>5 DEF rs
<1>6. \A i \in 0..n : Bytes(qs, i) = Bytes(ps, i)
  <2>1. \A i \in 0..Len(qs) : Bytes(qs \o From(ps, n), i) = Bytes(qs, i)
    <3>1. qs \in Seq(T)
      BY <1>2
    <3> QED BY <1>3, <1>4, <3>1, ConcatStream
  <2> QED BY <1>2, <1>5, <2>1
<1> QED BY <1>2, <1>3, <1>6 DEF qs

\* Packets of eleven bytes.
LEMMA BytesOfElevens ==
  ASSUME NEW ps, Stream(ps), \A i \in 1..Len(ps) : ps[i].size = 11
  PROVE  Bytes(ps, Len(ps)) = Len(ps) * 11
<1> DEFINE S == {i \in Nat : i \in 0..Len(ps) => Bytes(ps, i) = i * 11}
<1>1. 0 \in S
  BY BytesDef
<1>2. ASSUME NEW i \in Nat, i \in S PROVE i + 1 \in S
  <2> SUFFICES ASSUME i + 1 \in 0..Len(ps) PROVE Bytes(ps, i + 1) = (i + 1) * 11
    OBVIOUS
  <2>1. i \in 0..Len(ps) /\ i + 1 \in 1..Len(ps) /\ (i + 1) - 1 = i
    BY DEF Stream
  <2>2. Bytes(ps, i + 1) = Bytes(ps, i) + ps[i + 1].size
    BY <2>1, BytesDef
  <2> QED BY <1>2, <2>1, <2>2
<1>3. Nat \subseteq S
  <2> HIDE DEF S
  <2> QED BY <1>1, <1>2, Steps
<1> QED BY <1>3 DEF Stream

----------------------------------------------------------------------------
(* Whole and ReadTo.                                                       *)

\* Whole counts the packets that end within the first b bytes.
LEMMA WholeDef ==
  ASSUME NEW ps, Stream(ps), NEW b \in Nat
  PROVE  /\ Whole(ps, b) \in 0..Len(ps)
         /\ Bytes(ps, Whole(ps, b)) <= b
         /\ \A i \in 0..Len(ps) : Bytes(ps, i) <= b => i <= Whole(ps, b)
<1> DEFINE S == {i \in 0..Len(ps) : Bytes(ps, i) <= b}
<1>1. S \in SUBSET (0..Len(ps)) /\ Len(ps) \in Nat
  BY DEF Stream
<1>2. 0 \in S
  BY <1>1, BytesDef
<1>3. Max(S) \in S /\ \A y \in S : y <= Max(S)
  <2> HIDE DEF S
  <2> QED BY <1>1, <1>2, Greatest
<1>4. Whole(ps, b) = Max(S)
  BY DEF Whole
<1> QED BY <1>3, <1>4

\* Where n packets end there are n.
LEMMA WholeAt ==
  ASSUME NEW ps, Stream(ps), NEW n \in 0..Len(ps)
  PROVE  Whole(ps, Bytes(ps, n)) = n
<1> DEFINE w == Whole(ps, Bytes(ps, n))
<1>1. Bytes(ps, n) \in Nat /\ Len(ps) \in Nat
  BY BytesDef DEF Stream
<1>2. w \in 0..Len(ps) /\ Bytes(ps, w) <= Bytes(ps, n) /\ n <= w
  BY <1>1, WholeDef
<1>3. Bytes(ps, w) \in Nat
  BY <1>2, BytesDef
<1>4. ~(n < w)
  <2> HIDE DEF w
  <2> QED BY <1>1, <1>2, <1>3, BytesGrow
<1> QED BY <1>1, <1>2, <1>4

\* The first packet ends at its size.
LEMMA WholeFirst ==
  ASSUME NEW ps, Stream(ps), Len(ps) > 0
  PROVE  Bytes(ps, 1) = ps[1].size /\ Whole(ps, ps[1].size) = 1
<1>1. 1 \in 1..Len(ps) /\ 1 - 1 = 0 /\ 1 \in 0..Len(ps) /\ ps[1].size \in Nat
  BY DEF Stream
<1>2. Bytes(ps, 1) = ps[1].size
  BY <1>1, BytesDef
<1> QED BY <1>1, <1>2, WholeAt

\* A read ends behind what was read before, and within the stream.
LEMMA ReadWithin ==
  ASSUME NEW ps, Stream(ps), NEW n \in Int, NEW cuts \in SUBSET Nat,
         NEW b \in ReadTo(ps, n, cuts)
  PROVE  b \in Nat /\ b > n /\ b <= Bytes(ps, Len(ps)) /\ Len(ps) > 0
<1>1. b > n
  BY DEF ReadTo
<1>2. PICK i \in DOMAIN ps :
        b \in {Bytes(ps, i)} \cup {Bytes(ps, i - 1) + c : c \in {d \in cuts : d < ps[i].size}}
  BY DEF ReadTo
<1>3. /\ i \in 1..Len(ps) /\ Len(ps) \in Nat /\ i \in 0..Len(ps) /\ i - 1 \in 0..Len(ps)
      /\ Len(ps) \in 0..Len(ps) /\ i <= Len(ps) /\ Len(ps) > 0
      /\ ps[i].size \in Nat
  BY DEF Stream
<1>4. /\ Bytes(ps, i) \in Nat /\ Bytes(ps, i - 1) \in Nat /\ Bytes(ps, Len(ps)) \in Nat
      /\ Bytes(ps, i) = Bytes(ps, i - 1) + ps[i].size
      /\ Bytes(ps, i) <= Bytes(ps, Len(ps))
  BY <1>3, BytesDef, BytesGrow
<1>5. b \in Nat /\ b <= Bytes(ps, i)
  <2>1. CASE b = Bytes(ps, i)
    BY <1>4, <2>1
  <2>2. ASSUME NEW c \in cuts, c < ps[i].size, b = Bytes(ps, i - 1) + c
        PROVE  b \in Nat /\ b <= Bytes(ps, i)
    BY <1>3, <1>4, <2>2
  <2> QED BY <1>2, <2>1, <2>2
<1> QED BY <1>1, <1>3, <1>4, <1>5
=============================================================================
