------------------------ MODULE QueryAnalysisProofs ------------------------
(***************************************************************************)
(* Theorems about QueryAnalysis: normalization takes for literals what the *)
(* scanner takes for literals, for every text in which the two readings do *)
(* not stand apart, and the flags that the parser collects operand by      *)
(* operand are those its conditions deserve, for every query of the        *)
(* grammar.                                                                *)
(***************************************************************************)
EXTENDS QueryAnalysis, SequenceTheorems, FiniteSetTheorems, TLAPS

Streams == INSTANCE PacketsProofs

----------------------------------------------------------------------------
(* Recursive functions.  A function that is defined by recursion has the   *)
(* equation of its definition when some function has it.                   *)

\* H gives what a body makes of a function, and asks only for its values at
\* arguments of lower rank; the ranks are bounded.
Descends(D, R, H, rank, b) ==
  /\ R # {} /\ b \in Nat /\ rank \in [D -> 0..b]
  /\ H \in [[D -> R] -> [D -> R]]
  /\ \A f, g \in [D -> R] : \A x \in D :
       (\A y \in D : rank[y] < rank[x] => f[y] = g[y]) => H[f][x] = H[g][x]

\* Some function then has the values that the body gives it.
LEMMA Recursion ==
  ASSUME NEW D, NEW R, NEW H, NEW rank, NEW b, Descends(D, R, H, rank, b)
  PROVE  \E f \in [D -> R] : f = H[f]
<1> USE DEF Descends
<1> DEFINE Good(k, f) == \A x \in D : rank[x] < k => f[x] = H[f][x]
           S == {k \in Nat : \E f \in [D -> R] : Good(k, f)}
<1>1. 0 \in S
  <2>1. PICK r \in R : TRUE
    OBVIOUS
  <2>2. [x \in D |-> r] \in [D -> R]
    OBVIOUS
  <2>3. Good(0, [x \in D |-> r])
    OBVIOUS
  <2> QED BY <2>2, <2>3
<1>2. ASSUME NEW k \in Nat, k \in S PROVE k + 1 \in S
  <2>1. PICK f \in [D -> R] : Good(k, f)
    BY <1>2
  <2> DEFINE g == H[f]
  <2>2. g \in [D -> R]
    OBVIOUS
  <2>3. ASSUME NEW x \in D, rank[x] < k + 1 PROVE g[x] = H[g][x]
    <3>1. \A y \in D : rank[y] < rank[x] => f[y] = g[y]
      BY <2>1, <2>3
    <3>2. H[f][x] = H[g][x]
      BY <2>2, <3>1
    <3> QED BY <3>2
  <2>4. Good(k + 1, g)
    BY <2>3
  <2> QED BY <2>2, <2>4
<1> HIDE DEF S
<1>3. b + 1 \in S
  BY <1>1, <1>2, Streams!Steps
<1>4. PICK f \in [D -> R] : Good(b + 1, f)
  BY <1>3 DEF S
<1>5. \A x \in D : f[x] = H[f][x]
  BY <1>4
<1>6. H[f] \in [D -> R]
  OBVIOUS
<1> QED BY <1>5, <1>6

----------------------------------------------------------------------------
(* Literals.                                                               *)

Place == Nat \X BOOLEAN
Rank(q) == [s \in Place |-> IF s[1] > Len(q) THEN 0 ELSE Len(q) + 1 - s[1]]

\* A place further on has a lower rank.
LEMMA RankBound ==
  ASSUME NEW q, Len(q) \in Nat
  PROVE  /\ Rank(q) \in [Place -> 0..Len(q) + 1]
         /\ \A s \in Place, t \in Place :
              s[1] <= Len(q) /\ t[1] > s[1] => Rank(q)[t] < Rank(q)[s]
BY DEF Rank, Place

\* Where a loop may go on.
LEMMA NextPlace ==
  ASSUME NEW q, NEW s \in Place
  PROVE  /\ s = <<s[1], s[2]>> /\ s[1] \in Nat /\ s[2] \in BOOLEAN
         /\ <<s[1] + 1, q[s[1]] = "\\" /\ ~s[2]>> \in Place
         /\ <<s[1] + 1, FALSE>> \in Place
         /\ <<s[1] + 2, FALSE>> \in Place
<1>1. s = <<s[1], s[2]>> /\ s[1] \in Nat /\ s[2] \in BOOLEAN
  BY DEF Place
<1>2. (q[s[1]] = "\\" /\ ~s[2]) \in BOOLEAN
  OBVIOUS
<1>3. s[1] + 1 \in Nat /\ s[1] + 2 \in Nat
  BY <1>1
<1> QED BY <1>1, <1>2, <1>3 DEF Place

\* The place at a position, after a symbol that quotes nothing.
LEMMA Unescaped ==
  ASSUME NEW k \in Nat
  PROVE  <<k, FALSE>> \in Place /\ <<k, FALSE>>[1] = k /\ <<k, FALSE>>[2] = FALSE
BY DEF Place

\* H is the body of a loop over the places of a text that looks only at places
\* behind the one it is at.
LooksAhead(q, R, H) ==
  /\ Len(q) \in Nat /\ R # {}
  /\ H \in [[Place -> R] -> [Place -> R]]
  /\ \A f, g \in [Place -> R] : \A s \in Place :
       (\A t \in Place : s[1] <= Len(q) /\ t[1] > s[1] => f[t] = g[t])
         => H[f][s] = H[g][s]

\* A recursive function of a place and a flag has the equation of its body.
LEMMA Loop ==
  ASSUME NEW q, NEW R, NEW H, LooksAhead(q, R, H)
  PROVE  \E f \in [Place -> R] : f = H[f]
<1> DEFINE rank == Rank(q)
           b == Len(q) + 1
<1> USE DEF LooksAhead
<1>1. rank \in [Place -> 0..b] /\ b \in Nat
  BY RankBound
<1>2. \A f, g \in [Place -> R] : \A s \in Place :
        (\A t \in Place : rank[t] < rank[s] => f[t] = g[t]) => H[f][s] = H[g][s]
  <2> SUFFICES ASSUME NEW f \in [Place -> R], NEW g \in [Place -> R], NEW s \in Place,
                      \A t \in Place : rank[t] < rank[s] => f[t] = g[t]
               PROVE  H[f][s] = H[g][s]
    OBVIOUS
  <2>1. \A t \in Place : s[1] <= Len(q) /\ t[1] > s[1] => f[t] = g[t]
    BY RankBound
  <2> QED BY <2>1
<1> HIDE DEF rank, b
<1>3. Descends(Place, R, H, rank, b)
  BY <1>1, <1>2 DEF Descends
<1> QED BY <1>3, Recursion

\* A property of places that holds where it holds for all the places behind, and
\* beyond the text, holds everywhere.
LEMMA Backwards ==
  ASSUME NEW q, Len(q) \in Nat, NEW P,
         \A s \in Place :
           (\A t \in Place : s[1] <= Len(q) /\ t[1] > s[1] => t \in P) => s \in P
  PROVE  \A s \in Place : s \in P
<1> DEFINE S == {k \in Nat : \A s \in Place : Rank(q)[s] < k => s \in P}
<1>1. 0 \in S
  BY RankBound
<1>2. ASSUME NEW k \in Nat, k \in S PROVE k + 1 \in S
  <2>1. ASSUME NEW s \in Place, Rank(q)[s] < k + 1 PROVE s \in P
    <3>1. \A t \in Place : s[1] <= Len(q) /\ t[1] > s[1] => Rank(q)[t] < k
      BY <2>1, RankBound
    <3>2. \A t \in Place : s[1] <= Len(q) /\ t[1] > s[1] => t \in P
      BY <1>2, <3>1
    <3> QED BY <3>2
  <2> QED BY <2>1
<1> HIDE DEF S
<1>3. Len(q) + 2 \in S
  BY <1>1, <1>2, Streams!Steps
<1>4. \A s \in Place : Rank(q)[s] < Len(q) + 2
  BY RankBound
<1> QED BY <1>3, <1>4 DEF S

\* The loop of lookForChar: what a place yields when end yields the others.
Look(q, delimiter, end, s) ==
  IF s[1] > Len(q) THEN s[1]
  ELSE IF q[s[1]] = delimiter /\ ~s[2]
       THEN IF At(q, s[1] + 1) = delimiter THEN end[<<s[1] + 2, FALSE>>] ELSE s[1]
  ELSE end[<<s[1] + 1, q[s[1]] = "\\" /\ ~s[2]>>]

\* The equation of lookForChar.
LEMMA lookForCharLoop ==
  ASSUME NEW q, Len(q) \in Nat, NEW delimiter
  PROVE  \E end :
           /\ \A start : lookForChar(q, start, delimiter) = end[<<start + 1, FALSE>>]
           /\ \A s \in Place : end[s] = Look(q, delimiter, end, s)
<1> DEFINE Body(f, s) == Look(q, delimiter, f, s)
           H == [f \in [Place -> Nat] |-> [s \in Place |-> Body(f, s)]]
           Eq(end) ==
             end = [s \in Nat \X BOOLEAN |->
                      LET j == s[1]
                          quoted == s[2]
                      IN  IF j > Len(q) THEN j
                          ELSE IF q[j] = delimiter /\ ~quoted
                               THEN IF At(q, j + 1) = delimiter
                                    THEN end[<<j + 2, FALSE>>] ELSE j
                          ELSE end[<<j + 1, q[j] = "\\" /\ ~quoted>>]]
           end == CHOOSE end : Eq(end)
<1>1. \A f \in [Place -> Nat] : \A s \in Place : Body(f, s) \in Nat
  BY NextPlace DEF Look
<1>2. \A f, g : \A s \in Place :
        (\A t \in Place : s[1] <= Len(q) /\ t[1] > s[1] => f[t] = g[t])
          => Body(f, s) = Body(g, s)
  <2> SUFFICES ASSUME NEW f, NEW g, NEW s \in Place,
                      \A t \in Place : s[1] <= Len(q) /\ t[1] > s[1] => f[t] = g[t]
               PROVE  Body(f, s) = Body(g, s)
    <3> HIDE DEF Body
    <3> QED OBVIOUS
  <2> DEFINE next == <<s[1] + 1, q[s[1]] = "\\" /\ ~s[2]>>
             skip == <<s[1] + 2, FALSE>>
  <2>1. next \in Place /\ skip \in Place /\ s[1] \in Nat
    BY NextPlace
  <2>2. next[1] > s[1] /\ skip[1] > s[1]
    BY <2>1
  <2>3. CASE s[1] > Len(q)
    BY <2>3 DEF Look
  <2>4. CASE s[1] <= Len(q)
    <3>1. f[next] = g[next] /\ f[skip] = g[skip]
      <4> HIDE DEF next, skip
      <4> QED BY <2>1, <2>2, <2>4
    <3> QED BY <3>1 DEF Look
  <2> QED BY <2>1, <2>3, <2>4
<1>3. \E f : Eq(f)
  <2>1. H \in [[Place -> Nat] -> [Place -> Nat]]
    BY <1>1
  <2>2. \A f, g \in [Place -> Nat] : \A s \in Place :
          (\A t \in Place : s[1] <= Len(q) /\ t[1] > s[1] => f[t] = g[t])
            => H[f][s] = H[g][s]
    <3> HIDE DEF Body
    <3> QED BY <1>2
  <2>3. PICK f \in [Place -> Nat] : f = H[f]
    <3> HIDE DEF H
    <3>1. LooksAhead(q, Nat, H)
      BY <2>1, <2>2 DEF LooksAhead
    <3> QED BY <3>1, Loop
  <2>4. f = [s \in Place |-> Body(f, s)]
    BY <2>3
  <2> QED BY <2>4 DEF Place, Look
<1>4. Eq(end)
  BY <1>3
<1>5. \A start : lookForChar(q, start, delimiter) = end[<<start + 1, FALSE>>]
  BY DEF lookForChar
<1> HIDE DEF end
<1>6. \A s \in Place : end[s] = Body(end, s)
  BY <1>4 DEF Place, Look
<1> QED BY <1>5, <1>6

\* The loop of get_q_string: what a place yields when end yields the others.
Get(q, delimiter, end, s) ==
  IF s[1] > Len(q) THEN s[1]
  ELSE IF q[s[1]] # delimiter \/ s[2] THEN end[<<s[1] + 1, q[s[1]] = "\\" /\ ~s[2]>>]
  ELSE IF delimiter \in Quote /\ At(q, s[1] + 1) = delimiter THEN end[<<s[1] + 2, FALSE>>]
  ELSE s[1] + 1

\* The equation of get_q_string.
LEMMA get_q_stringLoop ==
  ASSUME NEW q, Len(q) \in Nat, NEW delimiter
  PROVE  \E end :
           /\ \A start : get_q_string(q, start, delimiter) = end[<<start + 1, FALSE>>]
           /\ \A s \in Place : end[s] = Get(q, delimiter, end, s)
<1> DEFINE Body(f, s) == Get(q, delimiter, f, s)
           H == [f \in [Place -> Nat] |-> [s \in Place |-> Body(f, s)]]
           Eq(end) ==
             end = [s \in Nat \X BOOLEAN |->
                      LET i == s[1]
                          quoted == s[2]
                      IN  IF i > Len(q) THEN i
                          ELSE IF q[i] # delimiter \/ quoted
                               THEN end[<<i + 1, q[i] = "\\" /\ ~quoted>>]
                          ELSE IF delimiter \in Quote /\ At(q, i + 1) = delimiter
                               THEN end[<<i + 2, FALSE>>]
                          ELSE i + 1]
           end == CHOOSE end : Eq(end)
<1>1. \A f \in [Place -> Nat] : \A s \in Place : Body(f, s) \in Nat
  BY NextPlace DEF Get
<1>2. \A f, g : \A s \in Place :
        (\A t \in Place : s[1] <= Len(q) /\ t[1] > s[1] => f[t] = g[t])
          => Body(f, s) = Body(g, s)
  <2> SUFFICES ASSUME NEW f, NEW g, NEW s \in Place,
                      \A t \in Place : s[1] <= Len(q) /\ t[1] > s[1] => f[t] = g[t]
               PROVE  Body(f, s) = Body(g, s)
    <3> HIDE DEF Body
    <3> QED OBVIOUS
  <2> DEFINE next == <<s[1] + 1, q[s[1]] = "\\" /\ ~s[2]>>
             skip == <<s[1] + 2, FALSE>>
  <2>1. next \in Place /\ skip \in Place /\ s[1] \in Nat
    BY NextPlace
  <2>2. next[1] > s[1] /\ skip[1] > s[1]
    BY <2>1
  <2>3. CASE s[1] > Len(q)
    BY <2>3 DEF Get
  <2>4. CASE s[1] <= Len(q)
    <3>1. f[next] = g[next] /\ f[skip] = g[skip]
      <4> HIDE DEF next, skip
      <4> QED BY <2>1, <2>2, <2>4
    <3> QED BY <3>1 DEF Get
  <2> QED BY <2>1, <2>3, <2>4
<1>3. \E f : Eq(f)
  <2>1. H \in [[Place -> Nat] -> [Place -> Nat]]
    BY <1>1
  <2>2. \A f, g \in [Place -> Nat] : \A s \in Place :
          (\A t \in Place : s[1] <= Len(q) /\ t[1] > s[1] => f[t] = g[t])
            => H[f][s] = H[g][s]
    <3> HIDE DEF Body
    <3> QED BY <1>2
  <2>3. PICK f \in [Place -> Nat] : f = H[f]
    <3> HIDE DEF H
    <3>1. LooksAhead(q, Nat, H)
      BY <2>1, <2>2 DEF LooksAhead
    <3> QED BY <3>1, Loop
  <2>4. f = [s \in Place |-> Body(f, s)]
    BY <2>3
  <2> QED BY <2>4 DEF Place, Get
<1>4. Eq(end)
  BY <1>3
<1>5. \A start : get_q_string(q, start, delimiter) = end[<<start + 1, FALSE>>]
  BY DEF get_q_string
<1> HIDE DEF end
<1>6. \A s \in Place : end[s] = Body(end, s)
  BY <1>4 DEF Place, Get
<1> QED BY <1>5, <1>6

\* Both loops find the same end of a literal: lookForChar stops at the delimiter
\* that ends it and get_q_string behind it, or both run out of the text.
LEMMA SameEnd ==
  ASSUME NEW q, Len(q) \in Nat, NEW delimiter \in Quote, NEW start \in Nat
  PROVE  /\ lookForChar(q, start, delimiter) \in Nat
         /\ get_q_string(q, start, delimiter) \in Nat
         /\ lookForChar(q, start, delimiter) > start
         /\ get_q_string(q, start, delimiter) > start
         /\ IF lookForChar(q, start, delimiter) <= Len(q)
            THEN get_q_string(q, start, delimiter) = lookForChar(q, start, delimiter) + 1
            ELSE get_q_string(q, start, delimiter) > Len(q)
<1>1. PICK look :
        /\ \A i : lookForChar(q, i, delimiter) = look[<<i + 1, FALSE>>]
        /\ \A s \in Place : look[s] = Look(q, delimiter, look, s)
  BY lookForCharLoop
<1>2. PICK get :
        /\ \A i : get_q_string(q, i, delimiter) = get[<<i + 1, FALSE>>]
        /\ \A s \in Place : get[s] = Get(q, delimiter, get, s)
  BY get_q_stringLoop
<1> DEFINE Agree(s) == /\ look[s] \in Nat /\ get[s] \in Nat
                       /\ look[s] >= s[1] /\ get[s] >= s[1]
                       /\ IF look[s] <= Len(q) THEN get[s] = look[s] + 1
                          ELSE get[s] > Len(q)
           P == {s \in Place : Agree(s)}
<1>3. ASSUME NEW s \in Place,
             \A t \in Place : s[1] <= Len(q) /\ t[1] > s[1] => t \in P
      PROVE  Agree(s)
  <2> DEFINE next == <<s[1] + 1, q[s[1]] = "\\" /\ ~s[2]>>
             skip == <<s[1] + 2, FALSE>>
  <2>1. next \in Place /\ skip \in Place /\ s[1] \in Nat /\ s[2] \in BOOLEAN
    BY NextPlace
  <2>2. next[1] = s[1] + 1 /\ skip[1] = s[1] + 2
    OBVIOUS
  <2>3. look[s] = IF s[1] > Len(q) THEN s[1]
                  ELSE IF q[s[1]] = delimiter /\ ~s[2]
                       THEN IF At(q, s[1] + 1) = delimiter THEN look[skip] ELSE s[1]
                  ELSE look[next]
    BY <1>1 DEF Look
  <2>4. get[s] = IF s[1] > Len(q) THEN s[1]
                 ELSE IF q[s[1]] # delimiter \/ s[2] THEN get[next]
                 ELSE IF At(q, s[1] + 1) = delimiter THEN get[skip]
                 ELSE s[1] + 1
    BY <1>2 DEF Get
  <2> HIDE DEF next, skip
  <2>5. s[1] <= Len(q) => Agree(next) /\ Agree(skip)
    BY <1>3, <2>1, <2>2
  <2>6. CASE s[1] > Len(q)
    BY <2>1, <2>3, <2>4, <2>6
  <2>7. CASE s[1] <= Len(q) /\ ~(q[s[1]] = delimiter /\ ~s[2])
    <3>1. look[s] = look[next] /\ get[s] = get[next]
      BY <2>1, <2>3, <2>4, <2>7
    <3> QED BY <2>1, <2>2, <2>5, <2>7, <3>1
  <2>8. CASE s[1] <= Len(q) /\ q[s[1]] = delimiter /\ ~s[2] /\ At(q, s[1] + 1) = delimiter
    <3>1. look[s] = look[skip] /\ get[s] = get[skip]
      BY <2>1, <2>3, <2>4, <2>8
    <3> QED BY <2>1, <2>2, <2>5, <2>8, <3>1
  <2>9. CASE s[1] <= Len(q) /\ q[s[1]] = delimiter /\ ~s[2] /\ At(q, s[1] + 1) # delimiter
    <3>1. look[s] = s[1] /\ get[s] = s[1] + 1
      BY <2>1, <2>3, <2>4, <2>9
    <3> QED BY <2>1, <2>9, <3>1
  <2> QED BY <2>1, <2>6, <2>7, <2>8, <2>9
<1>4. \A s \in Place : s \in P
  <2>1. \A s \in Place :
          (\A t \in Place : s[1] <= Len(q) /\ t[1] > s[1] => t \in P) => s \in P
    BY <1>3
  <2> HIDE DEF P
  <2> QED BY <2>1, Backwards
<1>5. <<start + 1, FALSE>> \in Place
  <2>1. start + 1 \in Nat
    OBVIOUS
  <2> QED BY <2>1 DEF Place
<1>6. Agree(<<start + 1, FALSE>>)
  <2> HIDE DEF Agree
  <2> QED BY <1>4, <1>5
<1>7. /\ lookForChar(q, start, delimiter) = look[<<start + 1, FALSE>>]
      /\ get_q_string(q, start, delimiter) = get[<<start + 1, FALSE>>]
  BY <1>1, <1>2
<1>8. <<start + 1, FALSE>>[1] = start + 1
  OBVIOUS
<1> QED BY <1>6, <1>7, <1>8

\* The loops over a text: what becomes of it from a place on, when rest tells what
\* becomes of it from the others on.
Unquoted(q, rest, s) ==
  IF s[1] > Len(q) THEN <<>>
  ELSE IF q[s[1]] \in Quote /\ ~s[2]
       THEN <<"?">> \o rest[<<lookForChar(q, s[1], q[s[1]]) + 1, FALSE>>]
  ELSE <<q[s[1]]>> \o rest[<<s[1] + 1, q[s[1]] = "\\" /\ ~s[2]>>]

\* What may stand in a text with its literals replaced.
Symbol(q) == {q[i] : i \in 0..Len(q)} \cup {"?"}

\* The places that Unquoted goes on at.
LEMMA UnquotedNext ==
  ASSUME NEW q, Len(q) \in Nat, NEW s \in Place
  PROVE  /\ <<s[1] + 1, q[s[1]] = "\\" /\ ~s[2]>> \in Place
         /\ q[s[1]] \in Quote =>
              /\ <<lookForChar(q, s[1], q[s[1]]) + 1, FALSE>> \in Place
              /\ lookForChar(q, s[1], q[s[1]]) + 1 > s[1]
<1>1. s[1] \in Nat /\ <<s[1] + 1, q[s[1]] = "\\" /\ ~s[2]>> \in Place
  BY NextPlace
<1>2. ASSUME q[s[1]] \in Quote
      PROVE  /\ <<lookForChar(q, s[1], q[s[1]]) + 1, FALSE>> \in Place
             /\ lookForChar(q, s[1], q[s[1]]) + 1 > s[1]
  <2>1. q[s[1]] \in Quote
    BY <1>2
  <2> DEFINE l == lookForChar(q, s[1], q[s[1]])
  <2>2. l \in Nat /\ l > s[1]
    BY <1>1, <2>1, SameEnd
  <2> HIDE DEF l
  <2>3. l + 1 \in Nat /\ l + 1 > s[1]
    BY <1>1, <2>2
  <2>4. <<l + 1, FALSE>> \in Place
    BY <2>3 DEF Place
  <2> QED BY <2>3, <2>4 DEF l
<1> QED BY <1>1, <1>2

\* The equation of removeQuotedText.
LEMMA removeQuotedTextLoop ==
  ASSUME NEW q, Len(q) \in Nat
  PROVE  \E rest :
           /\ removeQuotedText(q) = rest[<<1, FALSE>>]
           /\ \A s \in Place : rest[s] = Unquoted(q, rest, s)
<1> DEFINE Body(f, s) == Unquoted(q, f, s)
           R == Seq(Symbol(q))
           H == [f \in [Place -> R] |-> [s \in Place |-> Body(f, s)]]
           Eq(rest) ==
             rest = [s \in Nat \X BOOLEAN |->
                       LET i == s[1]
                           quoted == s[2]
                       IN  IF i > Len(q) THEN <<>>
                           ELSE IF q[i] \in Quote /\ ~quoted
                                THEN <<"?">> \o rest[<<lookForChar(q, i, q[i]) + 1, FALSE>>]
                           ELSE <<q[i]>> \o rest[<<i + 1, q[i] = "\\" /\ ~quoted>>]]
           rest == CHOOSE rest : Eq(rest)
           next(s) == <<s[1] + 1, q[s[1]] = "\\" /\ ~s[2]>>
           behind(s) == <<lookForChar(q, s[1], q[s[1]]) + 1, FALSE>>
<1>1. \A f \in [Place -> R] : \A s \in Place : Body(f, s) \in R
  <2> SUFFICES ASSUME NEW f \in [Place -> R], NEW s \in Place
               PROVE  Unquoted(q, f, s) \in R
    OBVIOUS
  <2>1. next(s) \in Place /\ s[1] \in Nat /\ (q[s[1]] \in Quote => behind(s) \in Place)
    BY NextPlace, UnquotedNext
  <2>2. CASE s[1] > Len(q)
    BY <2>2 DEF Unquoted
  <2>3. CASE s[1] <= Len(q) /\ q[s[1]] \in Quote /\ ~s[2]
    <3>1. Unquoted(q, f, s) = <<"?">> \o f[behind(s)]
      BY <2>1, <2>3 DEF Unquoted
    <3>2. <<"?">> \in R /\ f[behind(s)] \in R
      <4> HIDE DEF behind
      <4> QED BY <2>1, <2>3 DEF Symbol
    <3> QED BY <3>1, <3>2, ConcatProperties
  <2>4. CASE s[1] <= Len(q) /\ ~(q[s[1]] \in Quote /\ ~s[2])
    <3>1. Unquoted(q, f, s) = <<q[s[1]]>> \o f[next(s)]
      BY <2>1, <2>4 DEF Unquoted
    <3>2. q[s[1]] \in Symbol(q)
      BY <2>1, <2>4 DEF Symbol
    <3>3. <<q[s[1]]>> \in R /\ f[next(s)] \in R
      <4> HIDE DEF next
      <4> QED BY <2>1, <3>2
    <3> QED BY <3>1, <3>3, ConcatProperties
  <2> QED BY <2>1, <2>2, <2>3, <2>4
<1>2. \A f, g : \A s \in Place :
        (\A t \in Place : s[1] <= Len(q) /\ t[1] > s[1] => f[t] = g[t])
          => Body(f, s) = Body(g, s)
  <2> SUFFICES ASSUME NEW f, NEW g, NEW s \in Place,
                      \A t \in Place : s[1] <= Len(q) /\ t[1] > s[1] => f[t] = g[t]
               PROVE  Body(f, s) = Body(g, s)
    <3> HIDE DEF Body
    <3> QED OBVIOUS
  <2>1. s[1] \in Nat /\ next(s) \in Place /\ (q[s[1]] \in Quote => behind(s) \in Place)
    BY NextPlace, UnquotedNext
  <2>2. next(s)[1] > s[1] /\ (q[s[1]] \in Quote => behind(s)[1] > s[1])
    <3>1. next(s)[1] = s[1] + 1 /\ behind(s)[1] = lookForChar(q, s[1], q[s[1]]) + 1
      OBVIOUS
    <3>2. s[1] + 1 > s[1]
      BY <2>1
    <3>3. q[s[1]] \in Quote => lookForChar(q, s[1], q[s[1]]) + 1 > s[1]
      BY UnquotedNext
    <3> HIDE DEF next, behind
    <3> QED BY <3>1, <3>2, <3>3
  <2>3. CASE s[1] > Len(q)
    BY <2>3 DEF Unquoted
  <2>4. CASE s[1] <= Len(q)
    <3>1. f[next(s)] = g[next(s)] /\ (q[s[1]] \in Quote => f[behind(s)] = g[behind(s)])
      <4> HIDE DEF next, behind
      <4> QED BY <2>1, <2>2, <2>4
    <3> QED BY <3>1 DEF Unquoted
  <2> QED BY <2>1, <2>3, <2>4
<1>3. \E f : Eq(f)
  <2>1. H \in [[Place -> R] -> [Place -> R]]
    <3> HIDE DEF Body, R
    <3> QED BY <1>1
  <2>2. \A f, g \in [Place -> R] : \A s \in Place :
          (\A t \in Place : s[1] <= Len(q) /\ t[1] > s[1] => f[t] = g[t])
            => H[f][s] = H[g][s]
    <3> HIDE DEF Body, R
    <3> QED BY <1>2
  <2>3. PICK f \in [Place -> R] : f = H[f]
    <3>1. R # {}
      BY EmptySeq
    <3> HIDE DEF H, R
    <3>2. LooksAhead(q, R, H)
      BY <2>1, <2>2, <3>1 DEF LooksAhead
    <3> QED BY <3>2, Loop
  <2>4. f = [s \in Place |-> Body(f, s)]
    <3> HIDE DEF Body, R
    <3> QED BY <2>3
  <2> QED BY <2>4 DEF Place, Unquoted
<1>4. Eq(rest)
  BY <1>3
<1>5. removeQuotedText(q) = rest[<<1, FALSE>>]
  BY DEF removeQuotedText
<1> HIDE DEF rest
<1>6. \A s \in Place : rest[s] = Body(rest, s)
  BY <1>4 DEF Place, Unquoted
<1> QED BY <1>5, <1>6

\* A property that goes from a position to the one before it.
LEMMA Downwards ==
  ASSUME NEW i \in Nat, NEW j \in Nat, i <= j, NEW P, j \in P,
         \A k \in i..j - 1 : k + 1 \in P => k \in P
  PROVE  i \in P
<1> DEFINE S == {n \in Nat : n <= j - i => j - n \in P}
<1>1. 0 \in S
  OBVIOUS
<1>2. ASSUME NEW n \in Nat, n \in S PROVE n + 1 \in S
  <2>1. ASSUME n + 1 <= j - i PROVE j - (n + 1) \in P
    <3>1. j - n \in P
      BY <1>2, <2>1
    <3>2. j - (n + 1) \in i..j - 1 /\ (j - (n + 1)) + 1 = j - n
      BY <2>1
    <3> QED BY <3>1, <3>2
  <2> QED BY <2>1
<1>3. j - i \in Nat /\ j - (j - i) = i
  OBVIOUS
<1> HIDE DEF S
<1>4. j - i \in S
  BY <1>1, <1>2, <1>3, Streams!Steps
<1> QED BY <1>3, <1>4 DEF S

\* The symbols between i and the result of After, and behind.
LEMMA AfterRun ==
  ASSUME NEW q, Len(q) \in Nat, NEW i \in Nat, i <= Len(q) + 1, NEW S
  PROVE  /\ After(q, i, S) \in i..Len(q) + 1
         /\ \A k \in i..After(q, i, S) - 1 : q[k] \in S
<1> DEFINE T == {j \in i..Len(q) + 1 : j > Len(q) \/ q[j] \notin S}
<1>1. T \in SUBSET Nat /\ Len(q) + 1 \in T
  OBVIOUS
<1>2. PICK x \in T : \A y \in T : x <= y
  BY <1>1, Streams!Least
<1>3. Min(T) \in T /\ \A y \in T : Min(T) <= y
  BY <1>2 DEF Min
<1>4. ASSUME NEW k \in i..Min(T) - 1 PROVE q[k] \in S
  <2>1. Min(T) \in i..Len(q) + 1
    BY <1>3
  <2>2. k \in i..Len(q) + 1 /\ ~(Min(T) <= k)
    BY <2>1
  <2>3. k \notin T
    BY <1>3, <2>2
  <2> QED BY <2>2, <2>3
<1> QED BY <1>3, <1>4 DEF After

\* Where Until stops.
LEMMA UntilRange ==
  ASSUME NEW q, Len(q) \in Nat, NEW i \in Nat, i <= Len(q) + 1, NEW S
  PROVE  Until(q, i, S) \in i..Len(q) + 1
<1> DEFINE T == {j \in i..Len(q) + 1 : j > Len(q) \/ q[j] \in S}
<1>1. T \in SUBSET Nat /\ Len(q) + 1 \in T
  OBVIOUS
<1>2. PICK x \in T : \A y \in T : x <= y
  BY <1>1, Streams!Least
<1>3. Min(T) \in T
  BY <1>2 DEF Min
<1> QED BY <1>3 DEF Until

\* A comment to the end of the line ends in the text.
LEMMA LineRange ==
  ASSUME NEW q, Len(q) \in Nat, NEW i \in Nat, i <= Len(q) + 1
  PROVE  AfterLine(q, i) \in i..Len(q) + 1
<1> DEFINE u == Until(q, i, Newline)
<1>1. u \in i..Len(q) + 1
  BY UntilRange
<1> HIDE DEF u
<1>2. u \in Nat /\ u <= Len(q) + 1
  BY <1>1
<1>3. After(q, u, Newline) \in u..Len(q) + 1
  BY <1>2, AfterRun
<1>4. After(q, u, Newline) \in i..Len(q) + 1
  BY <1>1, <1>3
<1> QED BY <1>4 DEF AfterLine, u

\* So does a name in backticks, where a doubled delimiter means nothing.
LEMMA NameRange ==
  ASSUME NEW q, Len(q) \in Nat, NEW delimiter, delimiter \notin Quote, NEW start \in 1..Len(q)
  PROVE  get_q_string(q, start, delimiter) \in start + 1..Len(q) + 1
<1>1. PICK get :
        /\ \A i : get_q_string(q, i, delimiter) = get[<<i + 1, FALSE>>]
        /\ \A s \in Place : get[s] = Get(q, delimiter, get, s)
  BY get_q_stringLoop
<1> DEFINE Fits(s) == s[1] <= Len(q) + 1 => get[s] \in s[1]..Len(q) + 1
           P == {s \in Place : Fits(s)}
<1>2. ASSUME NEW s \in Place,
             \A t \in Place : s[1] <= Len(q) /\ t[1] > s[1] => t \in P
      PROVE  Fits(s)
  <2> DEFINE next == <<s[1] + 1, q[s[1]] = "\\" /\ ~s[2]>>
  <2>1. next \in Place /\ s[1] \in Nat /\ s[2] \in BOOLEAN
    BY NextPlace
  <2>2. next[1] = s[1] + 1
    OBVIOUS
  <2>3. get[s] = IF s[1] > Len(q) THEN s[1]
                 ELSE IF q[s[1]] # delimiter \/ s[2] THEN get[next]
                 ELSE s[1] + 1
    BY <1>1 DEF Get
  <2> HIDE DEF next
  <2>4. s[1] <= Len(q) => Fits(next)
    BY <1>2, <2>1, <2>2
  <2> QED BY <2>1, <2>2, <2>3, <2>4
<1>3. \A s \in Place : s \in P
  <2> HIDE DEF Fits
  <2>1. \A s \in Place :
          (\A t \in Place : s[1] <= Len(q) /\ t[1] > s[1] => t \in P) => s \in P
    BY <1>2
  <2> HIDE DEF P
  <2> QED BY <2>1, Backwards
<1>4. <<start + 1, FALSE>> \in Place /\ <<start + 1, FALSE>>[1] = start + 1
  <2>1. start + 1 \in Nat
    OBVIOUS
  <2> QED BY <2>1, Unescaped
<1>5. get[<<start + 1, FALSE>>] \in start + 1..Len(q) + 1
  BY <1>3, <1>4
<1> QED BY <1>1, <1>5

\* A token that is no literal has a symbol and ends in the text.
LEMMA TokenRange ==
  ASSUME NEW S, NEW q \in Seq(S), NEW i \in 1..Len(q)
  PROVE  TokenEnd(q, i) \in i + 1..Len(q) + 1
<1>1. Len(q) \in Nat /\ DOMAIN q = 1..Len(q)
  BY LenProperties
<1>2. At(q, i + 1) \in {"*", "-"} => i + 1 <= Len(q)
  <2>1. At(q, i + 1) \in {"*", "-"} => i + 1 \in DOMAIN q
    BY DEF At
  <2> QED BY <1>1, <2>1
<1>3. CASE q[i] = Backtick
  <2>1. Backtick \notin Quote
    BY DEF Backtick, Quote
  <2>2. get_q_string(q, i, Backtick) \in i + 1..Len(q) + 1
    BY <1>1, <2>1, NameRange
  <2>3. TokenEnd(q, i) = get_q_string(q, i, Backtick)
    BY <1>3 DEF TokenEnd, Backtick, BasicOp
  <2> QED BY <2>2, <2>3
<1>4. CASE q[i] = "#"
  <2>1. AfterLine(q, i + 1) \in i + 1..Len(q) + 1
    BY <1>1, LineRange
  <2>2. TokenEnd(q, i) = AfterLine(q, i + 1)
    BY <1>4 DEF TokenEnd, Backtick, BasicOp
  <2> QED BY <2>1, <2>2
<1>5. CASE q[i] = "/" /\ At(q, i + 1) = "*"
  <2> DEFINE T == {j \in i + 2..Len(q) + 1 :
                     j > Len(q) \/ (j >= i + 4 /\ q[j - 2] = "*" /\ q[j - 1] = "/")}
  <2>1. i + 1 <= Len(q)
    BY <1>2, <1>5
  <2>2. T \in SUBSET Nat /\ Len(q) + 1 \in T
    BY <1>1, <2>1
  <2>3. PICK x \in T : \A y \in T : x <= y
    BY <2>2, Streams!Least
  <2>4. Min(T) \in T
    BY <2>3 DEF Min
  <2>5. TokenEnd(q, i) = Min(T)
    BY <1>5 DEF TokenEnd, BlockEnd, Backtick, BasicOp
  <2> HIDE DEF T
  <2>6. Min(T) \in i + 2..Len(q) + 1
    BY <2>4 DEF T
  <2> QED BY <1>1, <2>5, <2>6
<1>6. CASE q[i] \in BasicOp
  <2> DEFINE run == After(q, i + 1, BasicOp \cup Space)
             line == AfterLine(q, i + 2)
             dashes == q[i] = "-" /\ At(q, i + 1) = "-"
  <2>1. run \in i + 1..Len(q) + 1
    BY <1>1, AfterRun
  <2>2. dashes => line \in i + 1..Len(q) + 1
    <3> SUFFICES ASSUME dashes PROVE line \in i + 1..Len(q) + 1
      OBVIOUS
    <3>1. i + 2 \in Nat /\ i + 2 <= Len(q) + 1
      BY <1>1, <1>2
    <3>2. line \in i + 2..Len(q) + 1
      BY <1>1, <3>1, LineRange
    <3> HIDE DEF line
    <3> QED BY <1>1, <3>2
  <2>3. TokenEnd(q, i) = IF dashes THEN Max({run, line}) ELSE run
    <3>1. TokenEnd(q, i) = RunEnd(q, i)
      BY <1>6 DEF TokenEnd, Backtick, BasicOp
    <3> QED BY <3>1 DEF RunEnd
  <2> HIDE DEF run, line, dashes
  <2>4. dashes => Max({run, line}) \in {run, line}
    <3> SUFFICES ASSUME dashes PROVE Max({run, line}) \in {run, line}
      OBVIOUS
    <3>1. \E x \in {run, line} : \A y \in {run, line} : x >= y
      BY <1>1, <2>1, <2>2
    <3> QED BY <3>1 DEF Max
  <2> QED BY <2>1, <2>2, <2>3, <2>4
<1>7. CASE /\ q[i] # Backtick /\ q[i] # "#" /\ q[i] \notin BasicOp
           /\ ~(q[i] = "/" /\ At(q, i + 1) = "*")
  <2>1. TokenEnd(q, i) = i + 1
    BY <1>7 DEF TokenEnd
  <2> QED BY <1>1, <2>1
<1> QED BY <1>3, <1>4, <1>5, <1>6, <1>7

\* The parts of a bit string.
LEMMA BitsParts ==
  ASSUME NEW S, NEW q \in Seq(S), NEW i \in 1..Len(q), Bits(q, i)
  PROVE  /\ BitsOpen(q, i) \in i + 1..Len(q) /\ q[BitsOpen(q, i)] = "'"
         /\ BitsClose(q, i) \in BitsOpen(q, i) + 1..Len(q) /\ q[BitsClose(q, i)] = "'"
         /\ \A k \in i..BitsOpen(q, i) - 1 : q[k] \notin Quote \cup {"\\"}
         /\ \A k \in BitsOpen(q, i) + 1..BitsClose(q, i) - 1 : q[k] \notin {"'", "\\"}
<1> DEFINE open == BitsOpen(q, i)
           close == BitsClose(q, i)
<1>1. Len(q) \in Nat /\ DOMAIN q = 1..Len(q)
  BY LenProperties
<1>2. /\ open \in i + 1..Len(q) + 1
      /\ \A k \in i + 1..open - 1 : q[k] \in Space
  BY <1>1, AfterRun DEF BitsOpen
<1>3. q[i] = "b" /\ At(q, open) = "'" /\ At(q, close) = "'"
  BY DEF Bits
<1>4. \A k : At(q, k) = "'" => k \in 1..Len(q) /\ q[k] = "'"
  BY <1>1 DEF At
<1>5. open \in i + 1..Len(q) /\ q[open] = "'"
  <2> HIDE DEF open
  <2>1. open \in 1..Len(q) /\ q[open] = "'"
    BY <1>3, <1>4
  <2> QED BY <1>2, <2>1
<1>6. /\ close \in open + 1..Len(q) + 1
      /\ \A k \in open + 1..close - 1 : q[k] \in Digit
  <2> HIDE DEF open
  <2>1. open + 1 \in Nat /\ open + 1 <= Len(q) + 1
    BY <1>1, <1>5
  <2>2. close = After(q, open + 1, Digit)
    BY DEF BitsClose, open
  <2> HIDE DEF close
  <2> QED BY <1>1, <2>1, <2>2, AfterRun
<1> HIDE DEF open, close
<1>7. close \in open + 1..Len(q) /\ q[close] = "'"
  <2>1. close \in 1..Len(q) /\ q[close] = "'"
    BY <1>3, <1>4
  <2> QED BY <1>5, <1>6, <2>1
<1>8. ASSUME NEW k \in i..open - 1 PROVE q[k] \notin Quote \cup {"\\"}
  <2>1. CASE k = i
    BY <1>3, <2>1 DEF Quote
  <2>2. CASE k # i
    <3>1. k \in i + 1..open - 1
      BY <1>5, <2>2
    <3>2. q[k] \in Space
      BY <1>2, <3>1
    <3> QED BY <3>2 DEF Space, Quote
  <2> QED BY <2>1, <2>2
<1>9. \A k \in open + 1..close - 1 : q[k] \notin {"'", "\\"}
  BY <1>6 DEF Digit
<1> QED BY <1>5, <1>7, <1>8, <1>9 DEF open, close

\* lookForChar finds the end of a bit string that no other "'" follows.
LEMMA LookOverBits ==
  ASSUME NEW S, NEW q \in Seq(S), NEW i \in 1..Len(q), Bits(q, i),
         At(q, BitsClose(q, i) + 1) # "'"
  PROVE  lookForChar(q, BitsOpen(q, i), "'") = BitsClose(q, i)
<1> DEFINE open == BitsOpen(q, i)
           close == BitsClose(q, i)
<1>1. Len(q) \in Nat
  BY LenProperties
<1>2. /\ open \in i + 1..Len(q) /\ close \in open + 1..Len(q) /\ q[close] = "'"
      /\ \A k \in open + 1..close - 1 : q[k] \notin {"'", "\\"}
      /\ At(q, close + 1) # "'"
  BY BitsParts
<1> HIDE DEF open, close
<1>3. PICK look :
        /\ \A j : lookForChar(q, j, "'") = look[<<j + 1, FALSE>>]
        /\ \A s \in Place : look[s] = Look(q, "'", look, s)
  BY <1>1, lookForCharLoop
<1>4. \A k \in Nat : look[<<k, FALSE>>] = Look(q, "'", look, <<k, FALSE>>)
  <2>1. \A k \in Nat : <<k, FALSE>> \in Place
    BY DEF Place
  <2> QED BY <1>3, <2>1
<1> DEFINE P == {k \in Nat : look[<<k, FALSE>>] = close}
<1>5. close \in P
  <2>1. close \in Nat /\ close <= Len(q)
    BY <1>1, <1>2
  <2> QED BY <1>2, <1>4, <2>1 DEF Look
<1>6. ASSUME NEW k \in open + 1..close - 1, k + 1 \in P PROVE k \in P
  <2>1. k \in Nat /\ k <= Len(q) /\ q[k] # "'" /\ q[k] # "\\"
    BY <1>1, <1>2
  <2>2. look[<<k, FALSE>>] = look[<<k + 1, q[k] = "\\" /\ ~FALSE>>]
    <3>1. ~(k > Len(q)) /\ <<k, FALSE>>[1] = k /\ <<k, FALSE>>[2] = FALSE
      BY <1>1, <2>1, Unescaped
    <3>2. Look(q, "'", look, <<k, FALSE>>) = look[<<k + 1, q[k] = "\\" /\ ~FALSE>>]
      BY <2>1, <3>1 DEF Look
    <3> QED BY <1>4, <2>1, <3>2
  <2>3. <<k + 1, q[k] = "\\" /\ ~FALSE>> = <<k + 1, FALSE>>
    BY <2>1
  <2> QED BY <1>6, <2>1, <2>2, <2>3
<1>7. open + 1 \in P
  <2> HIDE DEF P
  <2>1. open + 1 \in Nat /\ close \in Nat /\ open + 1 <= close
    BY <1>1, <1>2
  <2> QED BY <1>5, <1>6, <2>1, Downwards
<1> QED BY <1>3, <1>7 DEF open, close

Scan(q, rest, i) ==
  IF i > Len(q) THEN <<>>
  ELSE IF q[i] \in Quote THEN <<"?">> \o rest[get_q_string(q, i, q[i])]
  ELSE IF Bits(q, i)
       THEN SubSeq(q, i, BitsOpen(q, i) - 1) \o <<"?">> \o rest[BitsClose(q, i) + 1]
  ELSE SubSeq(q, i, TokenEnd(q, i) - 1) \o rest[TokenEnd(q, i)]

Position == Nat \ {0}

\* The three equations of Scan.
LEMMA ScanAt ==
  ASSUME NEW q, Len(q) \in Nat, NEW i \in Nat, i <= Len(q), NEW rest
  PROVE  /\ q[i] \in Quote =>
              Scan(q, rest, i) = <<"?">> \o rest[get_q_string(q, i, q[i])]
         /\ q[i] \notin Quote /\ Bits(q, i) =>
              Scan(q, rest, i) = SubSeq(q, i, BitsOpen(q, i) - 1) \o <<"?">>
                                   \o rest[BitsClose(q, i) + 1]
         /\ q[i] \notin Quote /\ ~Bits(q, i) =>
              Scan(q, rest, i) = SubSeq(q, i, TokenEnd(q, i) - 1) \o rest[TokenEnd(q, i)]
<1>1. ~(i > Len(q))
  OBVIOUS
<1> QED BY <1>1 DEF Scan

\* The positions that Scan goes on at, and what it copies.
LEMMA ScanNext ==
  ASSUME NEW S, NEW q \in Seq(S), NEW i \in Position, i <= Len(q)
  PROVE  /\ q[i] \in Quote =>
              get_q_string(q, i, q[i]) \in Position /\ get_q_string(q, i, q[i]) > i
         /\ Bits(q, i) =>
              /\ BitsClose(q, i) + 1 \in Position /\ BitsClose(q, i) + 1 > i
              /\ SubSeq(q, i, BitsOpen(q, i) - 1) \in Seq(S)
         /\ TokenEnd(q, i) \in Position /\ TokenEnd(q, i) > i
         /\ SubSeq(q, i, TokenEnd(q, i) - 1) \in Seq(S)
<1>1. Len(q) \in Nat /\ i \in 1..Len(q) /\ i \in Nat
  BY LenProperties DEF Position
<1>2. ASSUME NEW e \in i + 1..Len(q) + 1 PROVE SubSeq(q, i, e - 1) \in Seq(S)
  <2>1. i \in Int /\ e - 1 \in Int /\ \A k \in i..e - 1 : k \in 1..Len(q)
    BY <1>1
  <2>2. \A k \in i..e - 1 : q[k] \in S
    BY <2>1, ElementOfSeq
  <2> QED BY <2>1, <2>2, SubSeqProperties
<1>3. ASSUME q[i] \in Quote
      PROVE  get_q_string(q, i, q[i]) \in Position /\ get_q_string(q, i, q[i]) > i
  <2> DEFINE g == get_q_string(q, i, q[i])
  <2>1. g \in Nat /\ g > i
    BY <1>1, <1>3, SameEnd
  <2> HIDE DEF g
  <2>2. g \in Position /\ g > i
    BY <1>1, <2>1 DEF Position
  <2> QED BY <2>2 DEF g
<1>4. ASSUME Bits(q, i)
      PROVE  /\ BitsClose(q, i) + 1 \in Position /\ BitsClose(q, i) + 1 > i
             /\ SubSeq(q, i, BitsOpen(q, i) - 1) \in Seq(S)
  <2> DEFINE open == BitsOpen(q, i)
             close == BitsClose(q, i)
  <2>1. open \in i + 1..Len(q) /\ close \in open + 1..Len(q)
    BY <1>1, <1>4, BitsParts
  <2> HIDE DEF open, close
  <2>2. close + 1 \in Position /\ close + 1 > i /\ open \in i + 1..Len(q) + 1
    BY <1>1, <2>1 DEF Position
  <2>3. SubSeq(q, i, open - 1) \in Seq(S)
    BY <1>2, <2>2
  <2> QED BY <2>2, <2>3 DEF open, close
<1>5. /\ TokenEnd(q, i) \in Position /\ TokenEnd(q, i) > i
      /\ SubSeq(q, i, TokenEnd(q, i) - 1) \in Seq(S)
  <2> DEFINE e == TokenEnd(q, i)
  <2>1. e \in i + 1..Len(q) + 1
    BY <1>1, TokenRange
  <2> HIDE DEF e
  <2>2. e \in Position /\ e > i /\ SubSeq(q, i, e - 1) \in Seq(S)
    BY <1>1, <1>2, <2>1 DEF Position
  <2> QED BY <2>2 DEF e
<1> QED BY <1>3, <1>4, <1>5

\* Scan yields texts, if rest does.
LEMMA ScanType ==
  ASSUME NEW S, NEW q \in Seq(S), NEW i \in Position,
         NEW rest, i <= Len(q) => \A j \in Position : j > i => rest[j] \in Seq(S \cup {"?"})
  PROVE  Scan(q, rest, i) \in Seq(S \cup {"?"})
<1> DEFINE T == S \cup {"?"}
           R == Seq(T)
<1>1. Len(q) \in Nat /\ i \in Nat
  BY LenProperties DEF Position
<1>2. \A t \in Seq(S) : t \in R
  BY SeqMonotonic
<1>3. <<"?">> \in R
  OBVIOUS
<1>4. i <= Len(q) => \A j \in Position : j > i => rest[j] \in R
  OBVIOUS
<1> HIDE DEF T, R
<1>5. CASE i > Len(q)
  BY <1>5, EmptySeq DEF Scan, R
<1>6. CASE i <= Len(q) /\ q[i] \in Quote
  <2> DEFINE g == get_q_string(q, i, q[i])
  <2>1. Scan(q, rest, i) = <<"?">> \o rest[g]
    BY <1>1, <1>6, ScanAt
  <2>2. rest[g] \in R
    BY <1>4, <1>6, ScanNext
  <2> HIDE DEF g
  <2> QED BY <1>3, <2>1, <2>2, ConcatProperties DEF R, T
<1>7. CASE i <= Len(q) /\ q[i] \notin Quote /\ Bits(q, i)
  <2> DEFINE a == SubSeq(q, i, BitsOpen(q, i) - 1)
             c == BitsClose(q, i) + 1
  <2>1. Scan(q, rest, i) = a \o <<"?">> \o rest[c]
    BY <1>1, <1>7, ScanAt
  <2>2. a \in R /\ rest[c] \in R
    BY <1>2, <1>4, <1>7, ScanNext
  <2> HIDE DEF a, c
  <2>3. a \o <<"?">> \in R
    BY <1>3, <2>2, ConcatProperties DEF R
  <2> QED BY <2>1, <2>2, <2>3, ConcatProperties DEF R, T
<1>8. CASE i <= Len(q) /\ q[i] \notin Quote /\ ~Bits(q, i)
  <2> DEFINE a == SubSeq(q, i, TokenEnd(q, i) - 1)
             e == TokenEnd(q, i)
  <2>1. Scan(q, rest, i) = a \o rest[e]
    BY <1>1, <1>8, ScanAt
  <2>2. a \in R /\ rest[e] \in R
    BY <1>2, <1>4, <1>8, ScanNext
  <2> HIDE DEF a, e
  <2> QED BY <2>1, <2>2, ConcatProperties DEF R, T
<1> QED BY <1>1, <1>5, <1>6, <1>7, <1>8

\* The equation of Scanned.
LEMMA ScannedLoop ==
  ASSUME NEW S, NEW q \in Seq(S)
  PROVE  \E rest : Scanned(q) = rest[1] /\ \A i \in Position : rest[i] = Scan(q, rest, i)
<1> DEFINE R == Seq(S \cup {"?"})
           Plain(f) == [i \in Position |-> f[<<i, FALSE>>]]
           Body(f, s) == IF s[1] = 0 THEN <<>> ELSE Scan(q, Plain(f), s[1])
           H == [f \in [Place -> R] |-> [s \in Place |-> Body(f, s)]]
           Eq(rest) ==
             rest = [i \in Nat \ {0} |->
                       IF i > Len(q) THEN <<>>
                       ELSE IF q[i] \in Quote
                            THEN <<"?">> \o rest[get_q_string(q, i, q[i])]
                       ELSE IF Bits(q, i)
                            THEN SubSeq(q, i, BitsOpen(q, i) - 1) \o <<"?">>
                                   \o rest[BitsClose(q, i) + 1]
                       ELSE SubSeq(q, i, TokenEnd(q, i) - 1) \o rest[TokenEnd(q, i)]]
           rest == CHOOSE rest : Eq(rest)
<1>0. Len(q) \in Nat
  BY LenProperties
<1>1. \A f \in [Place -> R] : \A s \in Place : Body(f, s) \in R
  <2> SUFFICES ASSUME NEW f \in [Place -> R], NEW i \in Position
               PROVE  Scan(q, Plain(f), i) \in R
    <3>1. <<>> \in R
      BY EmptySeq
    <3>2. \A s \in Place : s[1] # 0 => s[1] \in Position
      BY NextPlace DEF Position
    <3> HIDE DEF R, Plain
    <3> QED BY <3>1, <3>2
  <2>1. \A j \in Position : Plain(f)[j] \in R
    <3> SUFFICES ASSUME NEW j \in Position PROVE f[<<j, FALSE>>] \in R
      OBVIOUS
    <3>1. <<j, FALSE>> \in Place
      BY DEF Place, Position
    <3> HIDE DEF R
    <3> QED BY <3>1
  <2> HIDE DEF Plain
  <2> QED BY <2>1, ScanType
<1>2. \A f, g : \A s \in Place :
        (\A t \in Place : s[1] <= Len(q) /\ t[1] > s[1] => f[t] = g[t])
          => Body(f, s) = Body(g, s)
  <2> SUFFICES ASSUME NEW f, NEW g, NEW s \in Place,
                      \A t \in Place : s[1] <= Len(q) /\ t[1] > s[1] => f[t] = g[t]
               PROVE  Body(f, s) = Body(g, s)
    <3> HIDE DEF Body
    <3> QED OBVIOUS
  <2> DEFINE i == s[1]
  <2>1. i \in Nat
    BY NextPlace
  <2> HIDE DEF i
  <2>2. i <= Len(q) => \A j \in Position : j > i => Plain(f)[j] = Plain(g)[j]
    <3> SUFFICES ASSUME i <= Len(q), NEW j \in Position, j > i
                 PROVE  f[<<j, FALSE>>] = g[<<j, FALSE>>]
      OBVIOUS
    <3>1. <<j, FALSE>> \in Place /\ <<j, FALSE>>[1] = j
      BY DEF Place, Position
    <3> QED BY <3>1 DEF i
  <2> HIDE DEF Plain
  <2>3. CASE i = 0
    BY <2>3 DEF i
  <2>4. CASE i # 0 /\ i > Len(q)
    BY <2>4 DEF Scan, i
  <2>5. CASE i # 0 /\ i <= Len(q)
    <3>1. i \in Position
      BY <2>1, <2>5 DEF Position
    <3> DEFINE get == get_q_string(q, i, q[i])
               behind == BitsClose(q, i) + 1
               next == TokenEnd(q, i)
    <3>2. /\ q[i] \in Quote => Plain(f)[get] = Plain(g)[get]
          /\ Bits(q, i) => Plain(f)[behind] = Plain(g)[behind]
          /\ Plain(f)[next] = Plain(g)[next]
      <4>1. /\ q[i] \in Quote => get \in Position /\ get > i
            /\ Bits(q, i) => behind \in Position /\ behind > i
            /\ next \in Position /\ next > i
        BY <2>5, <3>1, ScanNext
      <4> HIDE DEF get, behind, next
      <4> QED BY <2>2, <2>5, <4>1
    <3>3. Scan(q, Plain(f), i) = Scan(q, Plain(g), i)
      BY <3>2 DEF Scan
    <3> QED BY <2>5, <3>3 DEF i
  <2> QED BY <1>0, <2>1, <2>3, <2>4, <2>5
<1>3. \E f : Eq(f)
  <2>1. H \in [[Place -> R] -> [Place -> R]]
    <3> HIDE DEF Body, R
    <3> QED BY <1>1
  <2>2. \A f, g \in [Place -> R] : \A s \in Place :
          (\A t \in Place : s[1] <= Len(q) /\ t[1] > s[1] => f[t] = g[t])
            => H[f][s] = H[g][s]
    <3> HIDE DEF Body, R
    <3> QED BY <1>2
  <2>3. PICK f \in [Place -> R] : f = H[f]
    <3>1. R # {}
      BY EmptySeq
    <3> HIDE DEF H, R
    <3>2. LooksAhead(q, R, H)
      BY <1>0, <2>1, <2>2, <3>1 DEF LooksAhead
    <3> QED BY <3>2, Loop
  <2>4. \A i \in Position : Plain(f)[i] = Scan(q, Plain(f), i)
    <3> SUFFICES ASSUME NEW i \in Position PROVE f[<<i, FALSE>>] = Scan(q, Plain(f), i)
      OBVIOUS
    <3>1. <<i, FALSE>> \in Place /\ <<i, FALSE>>[1] = i /\ i # 0
      BY DEF Place, Position
    <3>2. f[<<i, FALSE>>] = Body(f, <<i, FALSE>>)
      <4> HIDE DEF Body, R
      <4> QED BY <2>3, <3>1
    <3> HIDE DEF Plain
    <3> QED BY <3>1, <3>2
  <2>5. Plain(f) = [i \in Position |-> Plain(f)[i]]
    OBVIOUS
  <2>6. Plain(f) = [i \in Position |-> Scan(q, Plain(f), i)]
    <3> HIDE DEF Plain
    <3> QED BY <2>4, <2>5
  <2>7. Eq(Plain(f))
    <3> HIDE DEF Plain
    <3> QED BY <2>6 DEF Scan, Position
  <2> HIDE DEF Eq, Plain
  <2> QED BY <2>7
<1>4. Eq(rest)
  BY <1>3
<1>5. Scanned(q) = rest[1]
  BY DEF Scanned
<1> HIDE DEF rest
<1>6. \A i \in Position : rest[i] = Scan(q, rest, i)
  BY <1>4 DEF Scan, Position
<1> QED BY <1>5, <1>6

NoQuote(t) == \A i \in DOMAIN t : t[i] \notin Quote \cup {"\\"}

\* A text without quotes and backslashes has none in its parts.
LEMMA QuoteOfConcat ==
  ASSUME NEW T, NEW u \in Seq(T), NEW v \in Seq(T), NoQuote(u \o v)
  PROVE  NoQuote(u) /\ NoQuote(v)
<1> DEFINE w == u \o v
<1>1. /\ Len(w) = Len(u) + Len(v) /\ w \in Seq(T)
      /\ \A i \in 1..Len(u) + Len(v) : w[i] = IF i <= Len(u) THEN u[i] ELSE v[i - Len(u)]
  BY ConcatProperties
<1>2. /\ DOMAIN w = 1..Len(w) /\ DOMAIN u = 1..Len(u) /\ DOMAIN v = 1..Len(v)
      /\ Len(u) \in Nat /\ Len(v) \in Nat
  BY <1>1, LenProperties
<1>3. NoQuote(w)
  OBVIOUS
<1> HIDE DEF w
<1>4. ASSUME NEW i \in 1..Len(u) PROVE u[i] \notin Quote \cup {"\\"}
  <2>1. i \in DOMAIN w /\ w[i] = u[i]
    BY <1>1, <1>2
  <2> QED BY <1>3, <2>1 DEF NoQuote
<1>5. ASSUME NEW i \in 1..Len(v) PROVE v[i] \notin Quote \cup {"\\"}
  <2>1. Len(u) + i \in DOMAIN w /\ w[Len(u) + i] = v[i]
    <3>1. /\ Len(u) + i \in 1..Len(u) + Len(v) /\ ~(Len(u) + i <= Len(u))
          /\ Len(u) + i - Len(u) = i
      BY <1>2
    <3> QED BY <1>1, <1>2, <3>1
  <2> QED BY <1>3, <2>1 DEF NoQuote
<1> QED BY <1>2, <1>4, <1>5 DEF NoQuote

\* The equations of Unquoted where nothing is escaped.
LEMMA UnquotedAt ==
  ASSUME NEW q, Len(q) \in Nat, NEW k \in Nat, k <= Len(q), NEW rest
  PROVE  /\ q[k] \in Quote =>
              Unquoted(q, rest, <<k, FALSE>>)
                = <<"?">> \o rest[<<lookForChar(q, k, q[k]) + 1, FALSE>>]
         /\ q[k] \notin Quote /\ q[k] # "\\" =>
              Unquoted(q, rest, <<k, FALSE>>) = <<q[k]>> \o rest[<<k + 1, FALSE>>]
<1>1. ~(k > Len(q)) /\ <<k, FALSE>>[1] = k /\ <<k, FALSE>>[2] = FALSE
  BY Unescaped
<1>2. q[k] \in Quote =>
        Unquoted(q, rest, <<k, FALSE>>)
          = <<"?">> \o rest[<<lookForChar(q, k, q[k]) + 1, FALSE>>]
  BY <1>1 DEF Unquoted
<1>3. q[k] \notin Quote =>
        Unquoted(q, rest, <<k, FALSE>>) = <<q[k]>> \o rest[<<k + 1, q[k] = "\\" /\ ~FALSE>>]
  BY <1>1 DEF Unquoted
<1>4. q[k] # "\\" => <<k + 1, q[k] = "\\" /\ ~FALSE>> = <<k + 1, FALSE>>
  OBVIOUS
<1> QED BY <1>2, <1>3, <1>4

\* removed is what removeQuotedText makes of the text from each place on.
Removes(q, removed) == \A s \in Place : removed[s] = Unquoted(q, removed, s)

\* The symbols of a text from i on, before j.
Within(q, i, j) == i >= 1 /\ i <= j /\ j <= Len(q) + 1

\* None of them is a quote or a backslash.
Bare(q, i, j) == \A k \in i..j - 1 : q[k] \notin Quote \cup {"\\"}

\* They are copied to what becomes of the text from i on.
Copies(q, i, j, removed) ==
  removed[<<i, FALSE>>] = SubSeq(q, i, j - 1) \o removed[<<j, FALSE>>]

\* removeQuotedText copies a stretch of a text that has no quote and no backslash.
LEMMA Stretch ==
  ASSUME NEW S, NEW q \in Seq(S), NEW T, S \subseteq T,
         NEW i \in Nat, NEW j \in Nat, Within(q, i, j), Bare(q, i, j),
         NEW removed, Removes(q, removed), removed[<<j, FALSE>>] \in Seq(T)
  PROVE  Copies(q, i, j, removed)
<1> DEFINE end == removed[<<j, FALSE>>]
           P == {k \in Nat : removed[<<k, FALSE>>] = SubSeq(q, k, j - 1) \o end}
<1>1. Len(q) \in Nat /\ i <= j /\ i >= 1 /\ j <= Len(q) + 1
  BY LenProperties DEF Within
<1>2. j \in P
  <2>1. SubSeq(q, j, j - 1) = <<>>
    BY <1>1, SubSeqEmpty
  <2>2. <<>> \o end = end
    BY ConcatEmptySeq
  <2> HIDE DEF end
  <2>3. SubSeq(q, j, j - 1) \o end = end
    BY <2>1, <2>2
  <2> QED BY <1>1, <2>3 DEF end
<1>3. ASSUME NEW k \in i..j - 1, k + 1 \in P PROVE k \in P
  <2>1. k \in 1..Len(q) /\ j - 1 \in k..Len(q) /\ k \in Nat /\ k + 1 \in Nat
    BY <1>1
  <2>2. q[k] \notin Quote /\ q[k] # "\\"
    BY DEF Bare
  <2>3. <<k, FALSE>> \in Place
    BY <2>1, Unescaped
  <2>4. removed[<<k, FALSE>>] = Unquoted(q, removed, <<k, FALSE>>)
    BY <2>3 DEF Removes
  <2>5. Unquoted(q, removed, <<k, FALSE>>) = <<q[k]>> \o removed[<<k + 1, FALSE>>]
    <3>1. k <= Len(q)
      BY <2>1
    <3> QED BY <1>1, <2>1, <2>2, <3>1, UnquotedAt
  <2>6. removed[<<k + 1, FALSE>>] = SubSeq(q, k + 1, j - 1) \o end
    BY <1>3
  <2> DEFINE a == <<q[k]>>
             b == SubSeq(q, k + 1, j - 1)
  <2>7. a \in Seq(T) /\ b \in Seq(T) /\ end \in Seq(T)
    <3>1. \A l \in k..j - 1 : q[l] \in T
      <4>1. \A l \in k..j - 1 : l \in 1..Len(q)
        BY <1>1, <2>1
      <4> QED BY <4>1, ElementOfSeq
    <3>2. k + 1 \in Int /\ j - 1 \in Int /\ k \in k..j - 1
          /\ \A l \in k + 1..j - 1 : l \in k..j - 1
      BY <1>1, <2>1
    <3>3. b \in Seq(T)
      BY <3>1, <3>2, SubSeqProperties
    <3>4. q[k] \in T
      BY <3>1, <3>2
    <3> HIDE DEF b
    <3> QED BY <3>3, <3>4
  <2>8. SubSeq(q, k, j - 1) = a \o b
    BY <2>1, SubSeqRecursiveFirst
  <2> HIDE DEF a, b, end
  <2>9. (a \o b) \o end = a \o (b \o end)
    BY <2>7, ConcatAssociative
  <2>10. removed[<<k, FALSE>>] = a \o (b \o end)
    BY <2>4, <2>5, <2>6 DEF a, b
  <2> QED BY <2>1, <2>8, <2>9, <2>10
<1>4. i \in P
  <2> HIDE DEF P
  <2> QED BY <1>1, <1>2, <1>3, Downwards
<1> QED BY <1>4 DEF Copies

\* In a text where the readings do not stand apart, removeQuotedText replaces what
\* the scanner reads as literals.
LEMMA RemovedIsScanned ==
  ASSUME NEW S, NEW q \in Seq(S), ~Apart(q)
  PROVE  removeQuotedText(q) = Scanned(q)
<1> DEFINE T == S \cup {"?"}
           R == Seq(T)
<1>0. Len(q) \in Nat /\ DOMAIN q = 1..Len(q)
  BY LenProperties
<1>1. PICK removed : /\ removeQuotedText(q) = removed[<<1, FALSE>>]
                     /\ \A s \in Place : removed[s] = Unquoted(q, removed, s)
  BY <1>0, removeQuotedTextLoop
<1>2. PICK scanned : /\ Scanned(q) = scanned[1]
                     /\ \A i \in Position : scanned[i] = Scan(q, scanned, i)
  BY ScannedLoop
<1> DEFINE Same(i) == /\ scanned[i] \in R
                      /\ NoQuote(scanned[i]) => removed[<<i, FALSE>>] = scanned[i]
           P == {s \in Place : s[1] # 0 => Same(s[1])}
<1>3. ASSUME NEW i \in Position, \A j \in Position : i <= Len(q) /\ j > i => Same(j)
      PROVE  Same(i)
  <2>1. /\ removed[<<i, FALSE>>] = Unquoted(q, removed, <<i, FALSE>>)
        /\ scanned[i] = Scan(q, scanned, i) /\ i \in Nat /\ i >= 1
    <3>1. i \in Nat /\ i >= 1
      BY DEF Position
    <3>2. <<i, FALSE>> \in Place
      BY <3>1, Unescaped
    <3> QED BY <1>1, <1>2, <3>1, <3>2
  <2>2. scanned[i] \in R
    <3>1. i <= Len(q) => \A j \in Position : j > i => scanned[j] \in R
      BY <1>3
    <3> QED BY <2>1, <3>1, ScanType
  <2>3. ASSUME NoQuote(scanned[i]) PROVE removed[<<i, FALSE>>] = scanned[i]
    <3>0. <<"?">> \in R /\ S \subseteq T /\ \A t \in Seq(S) : t \in R
      BY SeqMonotonic
    <3> HIDE DEF T, R
    <3>1. CASE i > Len(q)
      BY <2>1, <3>1 DEF Unquoted, Scan
    <3>2. CASE i <= Len(q) /\ q[i] \in Quote
      <4> DEFINE look == lookForChar(q, i, q[i])
                 get == get_q_string(q, i, q[i])
      <4>1. removed[<<i, FALSE>>] = <<"?">> \o removed[<<look + 1, FALSE>>]
            /\ scanned[i] = <<"?">> \o scanned[get]
        BY <1>0, <2>1, <3>2, UnquotedAt, ScanAt
      <4>2. /\ look \in Nat /\ get \in Nat /\ look > i /\ get > i
            /\ IF look <= Len(q) THEN get = look + 1 ELSE get > Len(q)
        BY <1>0, <2>1, <3>2, SameEnd
      <4> HIDE DEF look, get
      <4>3. get \in Position
        BY <2>1, <4>2 DEF Position
      <4>4. Same(get)
        <5> HIDE DEF Same
        <5> QED BY <1>3, <3>2, <4>2, <4>3
      <4>5. NoQuote(scanned[get])
        BY <2>3, <3>0, <4>1, <4>4, QuoteOfConcat DEF R
      <4>6. CASE look <= Len(q)
        BY <4>1, <4>2, <4>4, <4>5, <4>6
      <4>7. CASE look > Len(q)
        <5>1. look + 1 \in Nat /\ look + 1 > Len(q) /\ get > Len(q)
          BY <1>0, <4>2, <4>7
        <5>2. <<look + 1, FALSE>> \in Place /\ <<look + 1, FALSE>>[1] = look + 1
          BY <5>1 DEF Place
        <5>3. removed[<<look + 1, FALSE>>] = <<>>
          BY <1>1, <5>1, <5>2 DEF Unquoted
        <5>4. scanned[get] = <<>>
          BY <1>2, <4>3, <5>1 DEF Scan
        <5> QED BY <4>1, <5>3, <5>4
      <4> QED BY <1>0, <4>2, <4>6, <4>7
    <3>3. CASE i <= Len(q) /\ q[i] \notin Quote /\ Bits(q, i)
      <4> DEFINE open == BitsOpen(q, i)
                 close == BitsClose(q, i)
                 a == SubSeq(q, i, open - 1)
      <4>1. scanned[i] = a \o <<"?">> \o scanned[close + 1]
        BY <1>0, <2>1, <3>3, ScanAt
      <4>2. /\ open \in i + 1..Len(q) /\ q[open] = "'" /\ close \in open + 1..Len(q)
            /\ \A k \in i..open - 1 : q[k] \notin Quote \cup {"\\"}
        BY <1>0, <2>1, <3>3, BitsParts
      <4>3. lookForChar(q, open, q[open]) = close
        <5>1. i \in DOMAIN q
          BY <1>0, <2>1, <3>3
        <5>2. At(q, close + 1) # "'"
          BY <3>3, <5>1 DEF Apart
        <5> QED BY <1>0, <3>3, <4>2, <5>1, <5>2, LookOverBits
      <4>4. a \in R
        BY <2>1, <3>0, <3>3, ScanNext
      <4> HIDE DEF open, close, a
      <4>5. close + 1 \in Position /\ close + 1 > i
        BY <1>0, <2>1, <4>2 DEF Position
      <4>6. Same(close + 1)
        <5> HIDE DEF Same
        <5> QED BY <1>3, <3>3, <4>5
      <4> DEFINE b == <<"?">>
                 c == scanned[close + 1]
      <4>7. b \in R /\ c \in R /\ b \o c \in R /\ (a \o b) \o c = a \o (b \o c)
        <5>1. b \in R /\ c \in R
          BY <3>0, <4>6
        <5> HIDE DEF b, c
        <5> QED BY <4>4, <5>1, ConcatProperties, ConcatAssociative DEF R
      <4>8. NoQuote(c)
        <5> HIDE DEF b, c
        <5>1. NoQuote(a \o (b \o c))
          BY <2>3, <4>1, <4>7 DEF b, c
        <5>2. NoQuote(b \o c)
          BY <4>4, <4>7, <5>1, QuoteOfConcat DEF R
        <5> QED BY <4>7, <5>2, QuoteOfConcat DEF R
      <4>9. removed[<<open, FALSE>>] = b \o c
        <5>1. open \in Nat /\ open <= Len(q) /\ q[open] \in Quote
          <6>1. q[open] \in Quote
            BY <4>2 DEF Quote
          <6> QED BY <1>0, <2>1, <4>2, <6>1
        <5>2. removed[<<open, FALSE>>] = Unquoted(q, removed, <<open, FALSE>>)
          BY <1>1, <5>1, Unescaped
        <5>3. Unquoted(q, removed, <<open, FALSE>>)
                = <<"?">> \o removed[<<lookForChar(q, open, q[open]) + 1, FALSE>>]
          BY <1>0, <5>1, UnquotedAt
        <5> QED BY <4>3, <4>6, <4>8, <5>2, <5>3
      <4> HIDE DEF b, c
      <4>10. removed[<<i, FALSE>>] = a \o removed[<<open, FALSE>>]
        <5>1. i \in Nat /\ open \in Nat /\ Within(q, i, open)
          BY <1>0, <2>1, <3>3, <4>2 DEF Within
        <5>2. removed[<<open, FALSE>>] \in Seq(T)
          BY <4>7, <4>9 DEF R
        <5>3. Bare(q, i, open)
          BY <4>2 DEF Bare
        <5>4. Removes(q, removed)
          BY <1>1 DEF Removes
        <5>5. Copies(q, i, open, removed)
          BY <3>0, <5>1, <5>2, <5>3, <5>4, Stretch
        <5> QED BY <5>5 DEF a, Copies
      <4> QED BY <4>1, <4>7, <4>9, <4>10 DEF b, c
    <3>4. CASE i <= Len(q) /\ q[i] \notin Quote /\ ~Bits(q, i)
      <4> DEFINE e == TokenEnd(q, i)
                 a == SubSeq(q, i, e - 1)
      <4>1. scanned[i] = a \o scanned[e]
        BY <1>0, <2>1, <3>4, ScanAt
      <4>2. e \in i + 1..Len(q) + 1
        BY <1>0, <2>1, <3>4, TokenRange
      <4>3. a \in R
        BY <2>1, <3>0, <3>4, ScanNext
      <4> HIDE DEF e
      <4>4. e \in Position /\ e > i
        BY <1>0, <2>1, <4>2 DEF Position
      <4>5. Same(e)
        <5> HIDE DEF Same
        <5> QED BY <1>3, <3>4, <4>4
      <4>6. NoQuote(a) /\ NoQuote(scanned[e])
        <5> HIDE DEF a
        <5> QED BY <2>3, <4>1, <4>3, <4>5, QuoteOfConcat DEF R
      <4>7. \A k \in i..e - 1 : q[k] \notin Quote \cup {"\\"}
        <5>1. \A k \in i..e - 1 : k \in 1..Len(q)
          BY <1>0, <2>1, <4>2
        <5>2. \A k \in i..e - 1 : q[k] \in S
          BY <5>1, ElementOfSeq
        <5>3. i \in Int /\ e - 1 \in Int /\ i <= e - 1
          BY <1>0, <2>1, <4>2
        <5>4. Len(a) = (e - 1) - i + 1 /\ \A k \in 1..(e - 1) - i + 1 : a[k] = q[i + k - 1]
          BY <5>2, <5>3, SubSeqProperties
        <5>5. DOMAIN a = 1..Len(a)
          BY <4>3, LenProperties DEF R
        <5> HIDE DEF a
        <5> SUFFICES ASSUME NEW k \in i..e - 1 PROVE q[k] \notin Quote \cup {"\\"}
          OBVIOUS
        <5>6. k - i + 1 \in 1..(e - 1) - i + 1 /\ i + (k - i + 1) - 1 = k
          BY <5>3
        <5>7. k - i + 1 \in DOMAIN a /\ a[k - i + 1] = q[k]
          BY <5>4, <5>5, <5>6
        <5> QED BY <4>6, <5>7 DEF NoQuote
      <4>8. removed[<<i, FALSE>>] = a \o removed[<<e, FALSE>>]
        <5>1. i \in Nat /\ e \in Nat /\ Within(q, i, e)
          BY <1>0, <2>1, <3>4, <4>2 DEF Within
        <5>2. removed[<<e, FALSE>>] \in Seq(T)
          BY <4>5, <4>6 DEF R
        <5>3. Removes(q, removed)
          BY <1>1 DEF Removes
        <5>4. Bare(q, i, e)
          BY <4>7 DEF Bare
        <5>5. Copies(q, i, e, removed)
          BY <3>0, <5>1, <5>2, <5>3, <5>4, Stretch
        <5> QED BY <5>5 DEF Copies
      <4> QED BY <4>1, <4>5, <4>6, <4>8
    <3> QED BY <1>0, <2>1, <3>1, <3>2, <3>3, <3>4
  <2> QED BY <2>2, <2>3
<1>4. \A s \in Place : s \in P
  <2>1. ASSUME NEW s \in Place,
               \A t \in Place : s[1] <= Len(q) /\ t[1] > s[1] => t \in P
        PROVE  s \in P
    <3> HIDE DEF Same
    <3>1. ASSUME s[1] # 0 PROVE Same(s[1])
      <4>1. s[1] \in Position
        BY <3>1, NextPlace DEF Position
      <4>2. ASSUME NEW j \in Position, s[1] <= Len(q), j > s[1] PROVE Same(j)
        <5>1. <<j, FALSE>> \in Place /\ <<j, FALSE>>[1] = j /\ j # 0
          BY DEF Place, Position
        <5> QED BY <2>1, <4>2, <5>1
      <4> QED BY <1>3, <4>1, <4>2
    <3> QED BY <3>1
  <2> HIDE DEF P
  <2> QED BY <1>0, <2>1, Backwards
<1>5. Same(1)
  <2>1. <<1, FALSE>> \in Place /\ <<1, FALSE>>[1] = 1
    BY DEF Place
  <2> HIDE DEF Same
  <2> QED BY <1>4, <2>1
<1>6. NoQuote(scanned[1])
  BY <1>2 DEF Apart, NoQuote
<1> QED BY <1>1, <1>2, <1>5, <1>6

----------------------------------------------------------------------------

\* What the text is before and after the first pass.
LiteralsInv ==
  /\ original_query \in Seq(STRING)
  /\ pc = "removeQuotedText" => pattern = original_query
  /\ pc = "removeComments" => pattern = removeQuotedText(original_query)

\* Until the first pass is done the pattern is the text, then what the pass makes of it.
LEMMA LiteralsInvariant == Spec => []LiteralsInv
<1>1. Init => LiteralsInv
  <2> SUFFICES ASSUME Init PROVE LiteralsInv
    OBVIOUS
  <2>1. original_query \in Seq(STRING)
    BY QueryAnalysisAssumption DEF Init
  <2> QED BY <2>1 DEF Init, LiteralsInv
<1>2. LiteralsInv /\ [Next]_vars => LiteralsInv'
  <2> SUFFICES ASSUME LiteralsInv, [Next]_vars PROVE LiteralsInv'
    OBVIOUS
  <2> USE DEF LiteralsInv
  <2>1. CASE normalizeQuery
    BY <2>1 DEF normalizeQuery, Pass
  <2>2. CASE yyparse
    BY <2>2 DEF yyparse, field, math_exp, simple_table, logical_exp, Parsing
  <2>3. CASE free_expressions
    BY <2>3 DEF free_expressions
  <2>4. CASE calculateRisk
    BY <2>4 DEF calculateRisk
  <2>5. CASE UNCHANGED vars
    BY <2>5 DEF vars
  <2> QED BY <2>1, <2>2, <2>3, <2>4, <2>5 DEF Next
<1> QED BY <1>1, <1>2, PTL DEF Spec

\* After the first pass the pattern is the text as the scanner reads it, with
\* literals of any length and any number of delimiters in them, and with comments,
\* names and bit strings between them.  Excepted are the texts in which the two
\* readings stand apart: the scanner passes over a quote or a backslash outside of
\* a literal, or a second "'" stands behind a bit string.
THEOREM LiteralsAreAgreed == Spec => []LiteralsAgree
<1>1. LiteralsInv => LiteralsAgree
  <2> SUFFICES ASSUME LiteralsInv, pc = "removeComments", ~Apart(original_query)
               PROVE  pattern = Scanned(original_query)
    BY DEF LiteralsAgree
  <2>1. original_query \in Seq(STRING)
    BY DEF LiteralsInv
  <2>2. removeQuotedText(original_query) = Scanned(original_query)
    BY <2>1, RemovedIsScanned
  <2> QED BY <2>2 DEF LiteralsInv
<1> QED BY <1>1, LiteralsInvariant, PTL

----------------------------------------------------------------------------
(* What an object says of the expressions that were added up in it.        *)

Name == STRING \cup {"int"}
StringWord == {"str", "empty"} \cup Function
LongString == {"str"} \cup Function

TypeOf(name) ==
  IF name \in StringWord THEN "String" ELSE IF name \in Constant THEN "Integer" ELSE "Undef"

Objects == [fields : SUBSET Name, has_const : {0, 1}, str_length : Nat,
            const_type : {"Undef", "Integer", "String"}]

\* The object x has been made of the operands S, the first of them first.
Describes(x, S, first) ==
  /\ x \in Objects
  /\ x.fields = S \ Constant /\ IsFiniteSet(S \ Constant)
  /\ x.has_const = IF S \cap Constant = {} THEN 0 ELSE 1
  /\ first \in S /\ x.const_type = TypeOf(first)

\* Whether Add comes to a string that is not empty in a list of expressions: it
\* looks at the strings of the first, and of those that begin with a string.
HasLong(list) ==
  \E i \in DOMAIN list :
    /\ All(list[i]) \cap LongString # {}
    /\ i = 1 \/ list[i][1] \in StringWord

DescribesList(x, list) ==
  Describes(x, AllOf(list), list[1][1]) /\ (x.str_length > 0 <=> HasLong(list))

\* The object of an operand.
LEMMA ObjectDescribes ==
  ASSUME NEW name \in Name
  PROVE  /\ Describes(Object(name), {name}, name)
         /\ Object(name).str_length > 0 <=> name \in LongString
<1>1. IsFiniteSet({name} \ Constant)
  BY FS_Singleton, FS_Subset
<1>2. Object(name) =
        [fields |-> {name} \ Constant,
         has_const |-> IF {name} \cap Constant = {} THEN 0 ELSE 1,
         str_length |-> IF name = "str" THEN 1 ELSE IF name \in Function THEN 4 ELSE 0,
         const_type |-> TypeOf(name)]
  <2> USE DEF Object, Expression, AddConst, AddString, AddField, TypeOf, StringWord,
              Constant, Literal, Function
  <2>1. CASE name \in {"int", "dec"}
    BY <2>1
  <2>2. CASE name = "str"
    BY <2>2
  <2>3. CASE name = "empty"
    BY <2>3
  <2>4. CASE name \in Function
    BY <2>4
  <2>5. CASE name \notin Constant
    BY <2>5
  <2> QED BY <2>1, <2>2, <2>3, <2>4, <2>5
<1>3. Object(name).str_length \in Nat
      /\ (Object(name).str_length > 0 <=> name \in LongString)
  BY <1>2 DEF LongString, Function
<1>4. Object(name) \in Objects
  BY <1>2 DEF Objects, TypeOf
<1> QED BY <1>1, <1>2, <1>3, <1>4 DEF Describes

\* Add keeps what an object says: of the second it takes over the string only when
\* its first operand is one.
LEMMA AddDescribes ==
  ASSUME NEW x, NEW S, NEW a, Describes(x, S, a),
         NEW y, NEW T, NEW b, Describes(y, T, b)
  PROVE  /\ Describes(Add(x, y), S \cup T, a)
         /\ Add(x, y).str_length > 0
              <=> x.str_length > 0 \/ (b \in StringWord /\ y.str_length > 0)
<1> DEFINE z == Add(x, y)
           longer == y.has_const = 1 /\ y.const_type = "String" /\ y.str_length > x.str_length
<1>1. /\ x.fields = S \ Constant /\ x.has_const = IF S \cap Constant = {} THEN 0 ELSE 1
      /\ x.const_type = TypeOf(a) /\ x.str_length \in Nat /\ a \in S
  BY DEF Describes, Objects
<1>2. /\ y.fields = T \ Constant /\ y.has_const = IF T \cap Constant = {} THEN 0 ELSE 1
      /\ y.const_type = TypeOf(b) /\ y.str_length \in Nat /\ b \in T
  BY DEF Describes, Objects
<1>3. /\ z \in Objects /\ z.fields = x.fields \cup y.fields
      /\ z.has_const = IF y.has_const = 1 THEN 1 ELSE x.has_const
      /\ z.str_length = IF longer THEN y.str_length ELSE x.str_length
      /\ z.const_type = x.const_type
  <2>1. x \in Objects /\ y \in Objects
    BY DEF Describes
  <2> QED BY <2>1 DEF Add, Objects
<1>4. x.fields \cup y.fields = (S \cup T) \ Constant
  BY <1>1, <1>2
<1>5. (IF y.has_const = 1 THEN 1 ELSE x.has_const)
        = IF (S \cup T) \cap Constant = {} THEN 0 ELSE 1
  BY <1>1, <1>2
<1>6. z.str_length \in Nat /\ z.str_length = IF longer THEN y.str_length ELSE x.str_length
  BY <1>1, <1>2, <1>3
<1>7. b \in StringWord <=> y.has_const = 1 /\ y.const_type = "String"
  <2>1. y.const_type = "String" <=> b \in StringWord
    BY <1>2 DEF TypeOf
  <2>2. b \in StringWord => b \in T \cap Constant
    BY <1>2 DEF StringWord, Constant, Literal
  <2> QED BY <1>2, <2>1, <2>2
<1>8. z.str_length > 0 <=> x.str_length > 0 \/ (b \in StringWord /\ y.str_length > 0)
  BY <1>1, <1>2, <1>6, <1>7
<1>9. IsFiniteSet((S \cup T) \ Constant)
  <2>1. IsFiniteSet(S \ Constant) /\ IsFiniteSet(T \ Constant)
    BY DEF Describes
  <2>2. (S \cup T) \ Constant = (S \ Constant) \cup (T \ Constant)
    OBVIOUS
  <2> QED BY <2>1, <2>2, FS_Union
<1> HIDE DEF z
<1>10. a \in S \cup T
  BY <1>1
<1>11. Describes(z, S \cup T, a)
  BY <1>1, <1>3, <1>4, <1>5, <1>9, <1>10 DEF Describes
<1> QED BY <1>8, <1>11 DEF z

\* A list of one expression.
LEMMA OfOne ==
  ASSUME NEW m
  PROVE  /\ AllOf(<<m>>) = All(m) /\ <<m>>[1] = m /\ DOMAIN <<m>> = {1}
         /\ HasLong(<<m>>) <=> All(m) \cap LongString # {}
<1>1. <<m>>[1] = m /\ DOMAIN <<m>> = {1}
  OBVIOUS
<1>2. AllOf(<<m>>) = All(m)
  <2>1. {All(<<m>>[i]) : i \in DOMAIN <<m>>} = {All(m)}
    BY <1>1
  <2> QED BY <2>1 DEF AllOf
<1> QED BY <1>1, <1>2 DEF HasLong

Expressions == Seq(Seq(Name) \ {<<>>})

\* An expression has a first operand.
LEMMA FirstOperand ==
  ASSUME NEW m \in Seq(Name) \ {<<>>}
  PROVE  1 \in DOMAIN m /\ m[1] \in Name /\ Len(m) \in Nat \ {0} /\ DOMAIN m = 1..Len(m)
BY EmptySeq, LenProperties

\* An object that was made of one operand, ...
LEMMA OneOperand ==
  ASSUME NEW m \in Seq(Name) \ {<<>>}
  PROVE  DescribesList(Object(m[1]), <<SubSeq(m, 1, 1)>>)
<1> DEFINE u == SubSeq(m, 1, 1)
<1>1. Len(u) = 1 /\ u[1] = m[1] /\ DOMAIN u = {1}
  BY FirstOperand, SubSeqProperties
<1>2. All(u) = {m[1]}
  <2> HIDE DEF u
  <2> QED BY <1>1 DEF All
<1> HIDE DEF u
<1>3. /\ Describes(Object(m[1]), {m[1]}, m[1])
      /\ Object(m[1]).str_length > 0 <=> m[1] \in LongString
  BY FirstOperand, ObjectDescribes
<1>4. DescribesList(Object(m[1]), <<u>>)
  <2>1. All(u) \cap LongString # {} <=> m[1] \in LongString
    BY <1>2
  <2>2. AllOf(<<u>>) = {m[1]} /\ <<u>>[1][1] = m[1]
    BY <1>1, <1>2, OfOne
  <2>3. HasLong(<<u>>) <=> m[1] \in LongString
    BY <2>1, OfOne
  <2> QED BY <1>3, <2>2, <2>3 DEF DescribesList
<1> QED BY <1>4 DEF u

\* ... of an operand more, ...
LEMMA NextOperand ==
  ASSUME NEW m \in Seq(Name), NEW k \in Nat \ {0}, k < Len(m),
         NEW x, DescribesList(x, <<SubSeq(m, 1, k)>>)
  PROVE  DescribesList(Add(x, Object(m[k + 1])), <<SubSeq(m, 1, k + 1)>>)
<1> DEFINE u == SubSeq(m, 1, k)
           v == SubSeq(m, 1, k + 1)
           b == m[k + 1]
<1>1. /\ Len(m) \in Nat /\ b \in Name
      /\ DOMAIN u = 1..k /\ \A i \in 1..k : u[i] = m[i]
      /\ DOMAIN v = 1..k + 1 /\ \A i \in 1..k + 1 : v[i] = m[i]
  BY SubSeqProperties
<1>2. v[k + 1] = b /\ 1 \in 1..k
  BY <1>1
<1> HIDE DEF u, v, b
<1>3. All(v) = All(u) \cup {b} /\ v[1] = u[1]
  <2>1. ASSUME NEW i \in 1..k + 1 PROVE v[i] \in All(u) \cup {b}
    <3>1. CASE i \in 1..k
      BY <1>1, <3>1 DEF All
    <3>2. CASE i = k + 1
      BY <1>2, <3>2
    <3> QED BY <3>1, <3>2
  <2>2. ASSUME NEW i \in 1..k PROVE u[i] \in All(v)
    <3>1. i \in 1..k + 1 /\ v[i] = u[i]
      BY <1>1
    <3> QED BY <1>1, <3>1 DEF All
  <2>3. b \in All(v)
    <3>1. k + 1 \in 1..k + 1
      OBVIOUS
    <3> QED BY <1>1, <1>2, <3>1 DEF All
  <2>4. All(v) \subseteq All(u) \cup {b}
    BY <1>1, <2>1 DEF All
  <2>5. All(u) \subseteq All(v)
    BY <1>1, <2>2 DEF All
  <2>6. v[1] = u[1]
    BY <1>1, <1>2
  <2> QED BY <2>3, <2>4, <2>5, <2>6
<1>4. Describes(x, All(u), u[1]) /\ (x.str_length > 0 <=> All(u) \cap LongString # {})
  BY OfOne DEF DescribesList, u
<1>5. Describes(Object(b), {b}, b) /\ (Object(b).str_length > 0 <=> b \in LongString)
  BY <1>1, ObjectDescribes
<1>6. /\ Describes(Add(x, Object(b)), All(u) \cup {b}, u[1])
      /\ Add(x, Object(b)).str_length > 0
           <=> x.str_length > 0 \/ (b \in StringWord /\ Object(b).str_length > 0)
  BY <1>4, <1>5, AddDescribes
<1>7. All(v) \cap LongString # {}
        <=> All(u) \cap LongString # {} \/ (b \in StringWord /\ b \in LongString)
  BY <1>3 DEF LongString, StringWord
<1>8. DescribesList(Add(x, Object(b)), <<v>>)
  BY <1>3, <1>4, <1>5, <1>6, <1>7, OfOne DEF DescribesList
<1> QED BY <1>8 DEF v, b

\* ... and of an expression more.
LEMMA NextExpression ==
  ASSUME NEW exps \in Expressions, NEW i \in Nat \ {0}, NEW k \in Nat, i <= k, k < Len(exps),
         NEW x, DescribesList(x, SubSeq(exps, i, k)),
         NEW y, DescribesList(y, <<exps[k + 1]>>)
  PROVE  DescribesList(Add(x, y), SubSeq(exps, i, k + 1))
<1> DEFINE u == SubSeq(exps, i, k)
           v == SubSeq(exps, i, k + 1)
           m == exps[k + 1]
           n == k - i + 1
<1>1. /\ n \in Nat /\ n >= 1
      /\ DOMAIN u = 1..n /\ DOMAIN v = 1..n + 1
      /\ \A j \in 1..n : v[j] = u[j]
      /\ v[n + 1] = m
  BY SubSeqProperties DEF Expressions
<1> HIDE DEF u, v, m, n
<1>2. AllOf(v) = AllOf(u) \cup All(m) /\ v[1] = u[1]
  <2>1. {All(v[j]) : j \in DOMAIN v} = {All(u[j]) : j \in DOMAIN u} \cup {All(m)}
    BY <1>1
  <2> QED BY <1>1, <2>1 DEF AllOf
<1>3. HasLong(v) <=> HasLong(u) \/ (m[1] \in StringWord /\ All(m) \cap LongString # {})
  BY <1>1 DEF HasLong
<1>4. Describes(x, AllOf(u), u[1][1]) /\ (x.str_length > 0 <=> HasLong(u))
  BY DEF DescribesList, u
<1>5. Describes(y, All(m), m[1]) /\ (y.str_length > 0 <=> All(m) \cap LongString # {})
  BY OfOne DEF DescribesList, m
<1>6. /\ Describes(Add(x, y), AllOf(u) \cup All(m), u[1][1])
      /\ Add(x, y).str_length > 0
           <=> x.str_length > 0 \/ (m[1] \in StringWord /\ y.str_length > 0)
  BY <1>4, <1>5, AddDescribes
<1>7. DescribesList(Add(x, y), v)
  BY <1>2, <1>3, <1>4, <1>5, <1>6 DEF DescribesList
<1> QED BY <1>7 DEF v

\* Comp and IsEmptyPwd, which see two objects, answer as the reference does for
\* the lists of expressions these stand for.
LEMMA CmpIsReference ==
  ASSUME NEW x, NEW left, DescribesList(x, left),
         NEW y, NEW right, DescribesList(y, right), 1 \in DOMAIN right,
         \A i \in DOMAIN right : 1 \in DOMAIN right[i]
  PROVE  /\ Comp(x, y) <=> AlwaysTrue(left, right)
         /\ IsEmptyPwd(x, y) <=> EmptyPwd(left, right)
         /\ ~(Comp(x, y) /\ IsEmptyPwd(x, y))
<1> DEFINE S == AllOf(left)
           T == AllOf(right)
<1>1. /\ x.fields = S \ Constant /\ x.has_const = IF S \cap Constant = {} THEN 0 ELSE 1
      /\ x.const_type = TypeOf(left[1][1]) /\ left[1][1] \in S /\ IsFiniteSet(S \ Constant)
  <2> HIDE DEF S
  <2> QED BY DEF DescribesList, Describes, S
<1>2. /\ y.fields = T \ Constant /\ y.has_const = IF T \cap Constant = {} THEN 0 ELSE 1
      /\ y.const_type = TypeOf(right[1][1]) /\ right[1][1] \in T /\ IsFiniteSet(T \ Constant)
      /\ y.str_length \in Nat /\ (y.str_length > 0 <=> HasLong(right))
  <2> HIDE DEF T
  <2> QED BY DEF DescribesList, Describes, Objects, T
<1> HIDE DEF S, T
<1>3. Comp(x, y) <=> AlwaysTrue(left, right)
  <2>1. Cardinality(x.fields) = Cardinality(y.fields) /\ x.fields \subseteq y.fields
          => x.fields = y.fields
    BY <1>1, <1>2, FS_Subset
  <2>2. Cardinality(x.fields) = Cardinality(y.fields) /\ x.fields = {} => y.fields = {}
    BY <1>1, <1>2, FS_EmptySet
  <2>3. Comp(x, y) <=>
          x.fields = y.fields /\ (x.fields = {} \/ x.has_const = y.has_const)
    BY <2>1, <2>2 DEF Comp
  <2>4. x.fields = {} <=> S \subseteq Constant
    BY <1>1
  <2>5. x.has_const = y.has_const <=> (S \cap Constant = {} <=> T \cap Constant = {})
    BY <1>1, <1>2
  <2>6. AlwaysTrue(left, right) <=>
          /\ S \ Constant = T \ Constant
          /\ S \subseteq Constant \/ (S \cap Constant = {} <=> T \cap Constant = {})
    BY DEF AlwaysTrue, S, T
  <2> QED BY <1>1, <1>2, <2>3, <2>4, <2>5, <2>6
<1>4. IsEmptyPwd(x, y) <=> EmptyPwd(left, right)
  <2>1. PwdName \cap Constant = {}
    BY DEF PwdName, Constant, Literal, Function
  <2>2. (x.const_type = "Undef" /\ \E name \in PwdName : x.fields = {name})
          <=> left[1][1] \in PwdName /\ S \ Constant = {left[1][1]}
    <3>1. x.const_type = "Undef" <=> left[1][1] \notin Constant
      BY <1>1 DEF TypeOf, StringWord, Constant, Literal
    <3> QED BY <1>1, <2>1, <3>1
  <2>3. y.fields = {} <=> T \subseteq Constant
    BY <1>2
  <2>4. y.const_type = "String" <=> right[1][1] \in StringWord
    BY <1>2 DEF TypeOf
  <2>5. y.str_length = 0 <=> ~HasLong(right)
    BY <1>2
  <2>6. ASSUME T \subseteq Constant
        PROVE  right[1][1] \in StringWord /\ ~HasLong(right)
                 <=> /\ right[1][1] = "empty"
                     /\ \A i \in DOMAIN right :
                          \/ right[i][1] \in {"int", "dec"}
                          \/ All(right[i]) \cap LongString = {}
    <3>1. Constant = StringWord \cup {"int", "dec"} /\ StringWord = LongString \cup {"empty"}
          /\ "int" \notin StringWord /\ "dec" \notin StringWord
      BY DEF Constant, StringWord, LongString, Literal, Function
    <3>2. \A i \in DOMAIN right : right[i][1] \in All(right[i]) /\ right[i][1] \in Constant
      <4>1. \A i \in DOMAIN right : right[i][1] \in All(right[i]) /\ All(right[i]) \subseteq T
        BY DEF All, AllOf, T
      <4> QED BY <2>6, <4>1
    <3>3. \A i \in DOMAIN right :
            right[i][1] \in {"int", "dec"} <=> right[i][1] \notin StringWord
      BY <3>1, <3>2
    <3>4. right[1][1] \in StringWord /\ All(right[1]) \cap LongString = {}
            => right[1][1] = "empty"
      BY <3>1, <3>2
    <3> HIDE DEF StringWord, LongString
    <3> QED BY <3>1, <3>3, <3>4 DEF HasLong
  <2> QED BY <2>2, <2>3, <2>4, <2>5, <2>6 DEF IsEmptyPwd, EmptyPwd, T, S, LongString
<1>5. ~(AlwaysTrue(left, right) /\ EmptyPwd(left, right))
  <2>1. EmptyPwd(left, right) => S \ Constant # {} /\ T \ Constant = {}
    BY DEF EmptyPwd, S, T
  <2>2. AlwaysTrue(left, right) => S \ Constant = T \ Constant
    BY DEF AlwaysTrue, S, T
  <2> QED BY <2>1, <2>2
<1> QED BY <1>3, <1>4, <1>5

\* The expressions that the i-th object of a clause stands for: those of a list
\* are added up in the last.
PartList(c, i, read) ==
  IF i < Parts(c.kind) THEN <<c.exps[i]>> ELSE SubSeq(c.exps, i, read)

EmptyPwdIn(c) == \E p \in Pairs(c) : EmptyPwd(p[1], p[2])

IsClause(c) ==
  /\ c.kind \in {"select", "alone", "compare", "chain", "between", "in"}
  /\ c.exps \in Expressions /\ Len(c.exps) \in Nat /\ Len(c.exps) >= Parts(c.kind)
  /\ c.kind \notin {"select", "in"} => Len(c.exps) = Parts(c.kind)

\* How many objects a condition of each kind has.
LEMMA PartsOfKind ==
  ASSUME NEW c, IsClause(c)
  PROVE  /\ Parts(c.kind) \in 1..3
         /\ c.kind \in {"select", "alone"} <=> Parts(c.kind) = 1
         /\ c.kind \in {"compare", "in"} <=> Parts(c.kind) = 2
         /\ c.kind \in {"chain", "between"} <=> Parts(c.kind) = 3
BY DEF IsClause, Parts

\* A part of one expression.
LEMMA SubSeqOfOne ==
  ASSUME NEW exps \in Expressions, NEW i \in 1..Len(exps)
  PROVE  SubSeq(exps, i, i) = <<exps[i]>>
<1> DEFINE u == SubSeq(exps, i, i)
           T == Seq(Name) \ {<<>>}
<1>1. exps \in Seq(T)
  BY DEF Expressions
<1> HIDE DEF T
<1>2. i \in Int /\ \A j \in i..i : exps[j] \in T
  BY <1>1
<1>3. u \in Seq(T) /\ Len(u) = 1 /\ u[1] = exps[i]
  BY <1>2, SubSeqProperties
<1>4. <<exps[i]>> \in Seq(T) /\ Len(<<exps[i]>>) = 1 /\ <<exps[i]>>[1] = exps[i]
  BY <1>2
<1> HIDE DEF u
<1>5. u = <<exps[i]>>
  BY <1>3, <1>4, SeqEqual
<1> QED BY <1>5 DEF u

\* cmp_fn sets the flags of the reference for the lists its objects stand for.
CmpFnAgrees(x, y, left, right) ==
  /\ "has_tautology" \in cmp_fn(x, y) <=> AlwaysTrue(left, right)
  /\ "has_empty_pwd" \in cmp_fn(x, y) <=> EmptyPwd(left, right)
  /\ cmp_fn(x, y) \subseteq {"has_tautology", "has_empty_pwd"}

LEMMA cmp_fnIsReference ==
  ASSUME NEW x, NEW left, DescribesList(x, left),
         NEW y, NEW right \in Expressions, right # <<>>, DescribesList(y, right)
  PROVE  CmpFnAgrees(x, y, left, right)
<1>1. 1 \in DOMAIN right /\ \A i \in DOMAIN right : 1 \in DOMAIN right[i]
  <2>1. Len(right) \in Nat \ {0} /\ DOMAIN right = 1..Len(right)
        /\ \A i \in 1..Len(right) : right[i] \in Seq(Name) \ {<<>>}
    BY EmptySeq, LenProperties, ElementOfSeq DEF Expressions
  <2> QED BY <2>1, FirstOperand
<1>2. /\ Comp(x, y) <=> AlwaysTrue(left, right)
      /\ IsEmptyPwd(x, y) <=> EmptyPwd(left, right)
      /\ ~(Comp(x, y) /\ IsEmptyPwd(x, y))
  BY <1>1, CmpIsReference
<1> QED BY <1>2 DEF cmp_fn, CmpFnAgrees

\* A condition whose objects describe its expressions sets the flags of the reference.
LEMMA FoundIsReference ==
  ASSUME NEW c, IsClause(c), c.kind # "select", NEW x,
         \A i \in 1..Parts(c.kind) : DescribesList(x[i], PartList(c, i, Len(c.exps)))
  PROVE  /\ "has_tautology" \in Found(c.kind, x) <=> Tautology(c)
         /\ "has_empty_pwd" \in Found(c.kind, x) <=> EmptyPwdIn(c)
         /\ Found(c.kind, x) \subseteq {"has_tautology", "has_empty_pwd"}
<1> DEFINE n == Parts(c.kind)
           e == c.exps
           one(i) == <<e[i]>>
<1>1. n \in 1..3 /\ Len(e) \in Nat /\ Len(e) >= n /\ e \in Expressions
  BY PartsOfKind DEF IsClause
<1>2. \A i \in 1..n : e[i] \in Seq(Name) \ {<<>>}
  BY <1>1, ElementOfSeq DEF Expressions
<1>3. \A i \in 1..n : one(i) \in Expressions /\ one(i) # <<>>
  <2> SUFFICES ASSUME NEW i \in 1..n PROVE <<e[i]>> \in Expressions /\ <<e[i]>> # <<>>
    OBVIOUS
  <2> QED BY <1>2 DEF Expressions
<1>4. ASSUME c.kind # "in", NEW i \in 1..n PROVE DescribesList(x[i], one(i))
  <2>1. Len(e) = n
    BY <1>4 DEF IsClause
  <2>2. PartList(c, i, Len(e)) = one(i)
    <3>1. CASE i < n
      BY <3>1 DEF PartList
    <3>2. CASE i = n
      <4>1. SubSeq(e, i, i) = <<e[i]>>
        BY <1>1, <2>1, <3>2, SubSeqOfOne
      <4> QED BY <2>1, <3>2, <4>1 DEF PartList
    <3> QED BY <1>1, <3>1, <3>2
  <2> QED BY <2>2
<1> HIDE DEF one
<1> USE DEF Found
<1>5. CASE c.kind = "alone"
  <2>1. DescribesList(x[1], <<e[1]>>)
    BY <1>4, <1>5, PartsOfKind DEF one
  <2>2. AllOf(<<e[1]>>) = All(e[1]) /\ <<e[1]>>[1] = e[1]
    BY OfOne
  <2>3. Describes(x[1], All(e[1]), e[1][1])
    BY <2>1, <2>2 DEF DescribesList
  <2>4. IsTrue(x[1]) <=> All(e[1]) \subseteq Constant
    BY <2>3 DEF Describes, IsTrue
  <2>5. Pairs(c) = {}
    BY <1>5 DEF Pairs
  <2> QED BY <1>5, <2>4, <2>5 DEF Tautology, EmptyPwdIn
<1>6. CASE c.kind = "chain"
  BY <1>6 DEF Tautology, EmptyPwdIn, Pairs
<1>7. CASE c.kind = "compare"
  <2>1. n = 2
    BY <1>7, PartsOfKind
  <2>2. DescribesList(x[1], one(1)) /\ DescribesList(x[2], one(2)) /\ one(2) \in Expressions
        /\ one(2) # <<>>
    BY <1>3, <1>4, <1>7, <2>1
  <2>3. Pairs(c) = {<<one(1), one(2)>>} /\ Found(c.kind, x) = cmp_fn(x[1], x[2])
    BY <1>7 DEF one, Pairs
  <2>4. CmpFnAgrees(x[1], x[2], one(1), one(2))
    BY <2>2, cmp_fnIsReference
  <2>5. Tautology(c) <=> AlwaysTrue(one(1), one(2))
    BY <1>7, <2>3 DEF Tautology
  <2>6. EmptyPwdIn(c) <=> EmptyPwd(one(1), one(2))
    BY <2>3 DEF EmptyPwdIn
  <2> QED BY <2>3, <2>4, <2>5, <2>6 DEF CmpFnAgrees
<1>8. CASE c.kind = "between"
  <2>1. n = 3
    BY <1>8, PartsOfKind
  <2>2. /\ DescribesList(x[1], one(1)) /\ DescribesList(x[2], one(2))
        /\ DescribesList(x[3], one(3)) /\ one(2) \in Expressions /\ one(3) \in Expressions
        /\ one(2) # <<>> /\ one(3) # <<>>
    BY <1>3, <1>4, <1>8, <2>1
  <2>3. /\ Pairs(c) = {<<one(1), one(2)>>, <<one(1), one(3)>>}
        /\ Found(c.kind, x) = cmp_fn(x[1], x[2]) \cup cmp_fn(x[1], x[3])
    BY <1>8 DEF one, Pairs
  <2>4. CmpFnAgrees(x[1], x[2], one(1), one(2)) /\ CmpFnAgrees(x[1], x[3], one(1), one(3))
    BY <2>2, cmp_fnIsReference
  <2>5. Tautology(c) <=> AlwaysTrue(one(1), one(2)) \/ AlwaysTrue(one(1), one(3))
    BY <1>8, <2>3 DEF Tautology
  <2>6. EmptyPwdIn(c) <=> EmptyPwd(one(1), one(2)) \/ EmptyPwd(one(1), one(3))
    BY <2>3 DEF EmptyPwdIn
  <2> QED BY <2>3, <2>4, <2>5, <2>6 DEF CmpFnAgrees
<1>9. CASE c.kind = "in"
  <2>1. n = 2
    BY <1>9, PartsOfKind
  <2>2. PartList(c, 1, Len(e)) = one(1)
    BY <2>1 DEF PartList, one
  <2>3. PartList(c, 2, Len(e)) = Tail(e)
    <3>1. PartList(c, 2, Len(e)) = SubSeq(e, 2, Len(e))
      BY <2>1 DEF PartList
    <3>2. e # <<>>
      BY <1>1, <2>1, EmptySeq
    <3> QED BY <1>1, <3>1, <3>2, TailIsSubSeq DEF Expressions
  <2>4. Tail(e) \in Expressions /\ Tail(e) # <<>>
    <3>1. e # <<>>
      BY <1>1, <2>1, EmptySeq
    <3>2. Tail(e) \in Expressions /\ Len(Tail(e)) = Len(e) - 1
      BY <1>1, <3>1, HeadTailProperties DEF Expressions
    <3> QED BY <1>1, <2>1, <3>2, EmptySeq
  <2>5. DescribesList(x[1], one(1)) /\ DescribesList(x[2], Tail(e))
    BY <2>1, <2>2, <2>3
  <2>6. Pairs(c) = {<<one(1), Tail(e)>>} /\ Found(c.kind, x) = cmp_fn(x[1], x[2])
    BY <1>9 DEF one, Pairs
  <2>7. CmpFnAgrees(x[1], x[2], one(1), Tail(e))
    BY <2>4, <2>5, cmp_fnIsReference
  <2>8. Tautology(c) <=> AlwaysTrue(one(1), Tail(e))
    BY <1>9, <2>6 DEF Tautology
  <2>9. EmptyPwdIn(c) <=> EmptyPwd(one(1), Tail(e))
    BY <2>6 DEF EmptyPwdIn
  <2> QED BY <2>6, <2>7, <2>8, <2>9 DEF CmpFnAgrees
<1> QED BY <1>5, <1>6, <1>7, <1>8, <1>9 DEF IsClause

----------------------------------------------------------------------------
(* The inductive invariant of the parser.                                  *)

\* The objects of a clause lie above those of the select list and the table.
Below == IF clause = 0 THEN 0 ELSE 2

\* How many of them stand for whole expressions, ...
Done == IF exp - 1 <= Parts(Clause.kind) THEN exp - 1 ELSE Parts(Clause.kind)

PositionInv ==
  /\ clause \in 0..Len(query.conds) + 1
  /\ clause <= Len(query.conds) =>
       /\ exp \in 1..Len(Clause.exps) + 1
       /\ operand \in Nat
       /\ exp <= Len(Clause.exps) => operand <= Len(Clause.exps[exp])
       /\ exp > Len(Clause.exps) => operand = 0

StackInv ==
  /\ made \in Nat
  /\ \A i \in DOMAIN expressions : i \in Nat /\ i <= made
  /\ stack \in Seq(Nat)
  /\ \A k \in 1..Len(stack) : stack[k] \in DOMAIN expressions
  /\ \A k, l \in 1..Len(stack) : stack[k] = stack[l] => k = l

ObjectsInv ==
  clause <= Len(query.conds) =>
    /\ Len(stack) = Below + Done + (IF operand > 0 THEN 1 ELSE 0)
    /\ \A i \in 1..Done :
         DescribesList(expressions[stack[Below + i]], PartList(Clause, i, exp - 1))
    /\ operand > 0 =>
         DescribesList(expressions[stack[Len(stack)]],
                       <<SubSeq(Clause.exps[exp], 1, operand)>>)

\* The parser has read the k-th operand of the j-th expression of a condition.
Passed(i, j, k) ==
  i < clause \/ (i = clause /\ (j < exp \/ (j = exp /\ k <= operand)))

FlagsInv ==
  /\ flags \subseteq Flag
  /\ "has_or" \in flags <=> clause > 1 /\ Len(query.conds) > 1
  /\ "has_comment" \in flags <=> clause > 0 /\ query.style.comment # <<>>
  /\ "has_s_table" \in flags <=> clause > 0 /\ "t" \in Sensitive
  /\ "has_tautology" \in flags <=> \E i \in 1..clause - 1 : Tautology(query.conds[i])
  /\ "has_empty_pwd" \in flags <=> \E i \in 1..clause - 1 : EmptyPwdIn(query.conds[i])
  /\ "has_bruteforce_function" \in flags => Operands(query) \cap Bruteforce # {}
  /\ \A i \in DOMAIN query.conds : \A j \in DOMAIN query.conds[i].exps :
       \A k \in DOMAIN query.conds[i].exps[j] :
         Passed(i, j, k) /\ query.conds[i].exps[j][k] \in Bruteforce
           => "has_bruteforce_function" \in flags

ParserInv == PositionInv /\ StackInv /\ ObjectsInv /\ FlagsInv

RiskInv ==
  query # None =>
    /\ query \in Query
    /\ pc \notin {"calculateRisk", "done"} => ParserInv
    /\ pc \in {"calculateRisk", "done"} =>
         /\ flags \subseteq Expected(query)
         /\ "dec" \notin Operands(query) => flags = Expected(query)
    /\ pc = "done" => risk = TotalWeight(flags)

----------------------------------------------------------------------------
(* The parser keeps it.                                                    *)

\* The conditions of a query, ...
LEMMA ConditionType ==
  ASSUME NEW c \in Condition
  PROVE  IsClause(c) /\ c.kind # "select"
<1>1. Seq(STRING) \subseteq Seq(Name)
  <2>1. STRING \subseteq Name
    BY DEF Name
  <2> QED BY <2>1, SeqMonotonic
<1>2. Seq(Seq(STRING) \ {<<>>}) \subseteq Expressions
  <2>1. Seq(STRING) \ {<<>>} \subseteq Seq(Name) \ {<<>>}
    BY <1>1
  <2> HIDE <1>1
  <2> DEFINE A == Seq(STRING) \ {<<>>}
             B == Seq(Name) \ {<<>>}
  <2>2. A \subseteq B
    BY <2>1
  <2> HIDE DEF A, B
  <2>3. Seq(A) \subseteq Seq(B)
    BY <2>2, SeqMonotonic
  <2> QED BY <2>3 DEF A, B, Expressions
<1>3. /\ c.kind \in {"alone", "compare", "chain", "between", "in"}
      /\ c.exps \in Expressions
      /\ Len(c.exps) = Parts(c.kind) \/ (c.kind = "in" /\ Len(c.exps) > 2)
  BY <1>2 DEF Condition
<1>4. Len(c.exps) \in Nat
  BY <1>3, LenProperties DEF Expressions
<1>5. Parts(c.kind) \in Nat /\ (c.kind = "in" => Parts(c.kind) = 2)
  BY <1>3 DEF Parts
<1> QED BY <1>3, <1>4, <1>5 DEF IsClause

\* ... its list of them, ...
LEMMA QueryType ==
  ASSUME query \in Query
  PROVE  /\ Len(query.conds) \in Nat /\ DOMAIN query.conds = 1..Len(query.conds)
         /\ \A i \in 1..Len(query.conds) :
              IsClause(query.conds[i]) /\ query.conds[i].kind # "select"
<1>1. query.conds \in Seq(Condition)
  BY QueryAnalysisAssumption
<1> QED BY <1>1, LenProperties, ElementOfSeq, ConditionType

\* ... and the clause that the parser reads.
LEMMA ClauseType ==
  ASSUME query \in Query, clause \in 0..Len(query.conds)
  PROVE  /\ IsClause(Clause)
         /\ clause = 0 => Clause = SelectList
         /\ clause > 0 => Clause = query.conds[clause] /\ Clause.kind # "select"
<1>1. CASE clause = 0
  <2>1. Clause = SelectList
    BY <1>1 DEF Clause
  <2>2. SelectList.exps \in Expressions /\ Len(SelectList.exps) = 2
    <3>1. <<"int">> \in Seq(Name) \ {<<>>}
      BY DEF Name
    <3> QED BY <3>1 DEF SelectList, Expressions
  <2>3. IsClause(SelectList)
    BY <2>2 DEF IsClause, SelectList, Parts
  <2> QED BY <1>1, <2>1, <2>3
<1>2. CASE clause # 0
  <2>1. clause \in 1..Len(query.conds) /\ Len(query.conds) \in Nat
    BY <1>2, QueryType
  <2>2. Clause = query.conds[clause]
    BY <1>2 DEF Clause
  <2> QED BY <1>2, <2>1, <2>2, QueryType
<1> QED BY <1>1, <1>2

\* What the parser's actions need to know of the clause that is read.
LEMMA Reading ==
  ASSUME query \in Query, PositionInv, clause <= Len(query.conds)
  PROVE  /\ clause \in 0..Len(query.conds) /\ Len(query.conds) \in Nat /\ IsClause(Clause)
         /\ Parts(Clause.kind) \in 1..3 /\ Clause.exps \in Expressions
         /\ Len(Clause.exps) \in Nat /\ Len(Clause.exps) >= Parts(Clause.kind)
         /\ exp \in 1..Len(Clause.exps) + 1 /\ operand \in Nat
         /\ exp <= Len(Clause.exps) =>
              /\ Clause.exps[exp] \in Seq(Name) \ {<<>>}
              /\ Len(Clause.exps[exp]) \in Nat \ {0}
              /\ operand <= Len(Clause.exps[exp])
         /\ exp > Len(Clause.exps) => operand = 0
<1>1. Len(query.conds) \in Nat /\ clause \in 0..Len(query.conds)
  BY QueryType DEF PositionInv
<1>2. IsClause(Clause)
  BY <1>1, ClauseType
<1>3. Parts(Clause.kind) \in 1..3
  BY <1>2, PartsOfKind
<1>4. /\ Clause.exps \in Expressions /\ Len(Clause.exps) \in Nat
      /\ Len(Clause.exps) >= Parts(Clause.kind)
  BY <1>2 DEF IsClause
<1>5. /\ exp \in 1..Len(Clause.exps) + 1 /\ operand \in Nat
      /\ exp <= Len(Clause.exps) => operand <= Len(Clause.exps[exp])
      /\ exp > Len(Clause.exps) => operand = 0
  BY DEF PositionInv
<1>6. ASSUME exp <= Len(Clause.exps)
      PROVE  Clause.exps[exp] \in Seq(Name) \ {<<>>} /\ Len(Clause.exps[exp]) \in Nat \ {0}
  <2>1. exp \in 1..Len(Clause.exps)
    BY <1>4, <1>5, <1>6
  <2>2. Clause.exps[exp] \in Seq(Name) \ {<<>>}
    BY <1>4, <2>1, ElementOfSeq DEF Expressions
  <2> QED BY <2>2, FirstOperand
<1> QED BY <1>1, <1>2, <1>3, <1>4, <1>5, <1>6

\* A new object is pushed.
LEMMA PushKeeps ==
  ASSUME StackInv, NEW object, Push(object)
  PROVE  /\ StackInv' /\ Len(stack) \in Nat /\ Len(stack') = Len(stack) + 1
         /\ \A k \in 1..Len(stack) : expressions'[stack'[k]] = expressions[stack[k]]
         /\ expressions'[stack'[Len(stack')]] = object
<1> DEFINE id == made + 1
<1>1. /\ made \in Nat /\ stack \in Seq(Nat) /\ Len(stack) \in Nat
      /\ \A i \in DOMAIN expressions : i \in Nat /\ i <= made
      /\ \A k \in 1..Len(stack) : stack[k] \in DOMAIN expressions
      /\ \A k, l \in 1..Len(stack) : stack[k] = stack[l] => k = l
  BY DEF StackInv
<1>2. /\ made' = id /\ stack' = Append(stack, id)
      /\ DOMAIN expressions' = DOMAIN expressions \cup {id}
      /\ expressions'[id] = object
      /\ \A i \in DOMAIN expressions \ {id} : expressions'[i] = expressions[i]
  BY DEF Push
<1>3. id \in Nat /\ id \notin DOMAIN expressions
  BY <1>1
<1> HIDE DEF id
<1>4. /\ stack' \in Seq(Nat) /\ Len(stack') = Len(stack) + 1 /\ stack'[Len(stack) + 1] = id
      /\ \A k \in 1..Len(stack) : stack'[k] = stack[k]
  BY <1>1, <1>2, <1>3, AppendProperties
<1>5. \A k \in 1..Len(stack) :
        stack'[k] \in DOMAIN expressions /\ stack'[k] # id
        /\ expressions'[stack'[k]] = expressions[stack[k]]
  BY <1>1, <1>2, <1>3, <1>4
<1>6. \A k \in 1..Len(stack') : k \in 1..Len(stack) \/ k = Len(stack) + 1
  BY <1>1, <1>4
<1>7. \A i \in DOMAIN expressions' : i \in Nat /\ i <= made'
  BY <1>1, <1>2, <1>3 DEF id
<1>8. \A k \in 1..Len(stack') : stack'[k] \in DOMAIN expressions'
  BY <1>2, <1>4, <1>5, <1>6
<1>9. \A k, l \in 1..Len(stack') : stack'[k] = stack'[l] => k = l
  BY <1>1, <1>4, <1>5, <1>6
<1>10. StackInv'
  BY <1>2, <1>3, <1>4, <1>7, <1>8, <1>9 DEF StackInv
<1> QED BY <1>1, <1>2, <1>4, <1>5, <1>10

\* The object on top is replaced.
LEMMA ReplaceKeeps ==
  ASSUME StackInv, stack # <<>>, NEW object, made' = made + 1, stack' = stack,
         expressions' = [expressions EXCEPT ![Last(stack)] = object]
  PROVE  /\ StackInv' /\ Len(stack) \in Nat \ {0}
         /\ \A k \in 1..Len(stack) - 1 : expressions'[stack[k]] = expressions[stack[k]]
         /\ expressions'[stack[Len(stack)]] = object
<1> DEFINE id == stack[Len(stack)]
<1>1. /\ made \in Nat /\ stack \in Seq(Nat) /\ Len(stack) \in Nat
      /\ \A i \in DOMAIN expressions : i \in Nat /\ i <= made
      /\ \A k \in 1..Len(stack) : stack[k] \in DOMAIN expressions
      /\ \A k, l \in 1..Len(stack) : stack[k] = stack[l] => k = l
  BY DEF StackInv
<1>2. Len(stack) \in Nat \ {0} /\ id \in DOMAIN expressions
  BY <1>1, EmptySeq
<1>3. expressions' = [expressions EXCEPT ![id] = object]
  BY DEF Last
<1>4. \A k \in 1..Len(stack) - 1 : stack[k] # id
  BY <1>1, <1>2
<1> HIDE DEF id
<1>5. DOMAIN expressions' = DOMAIN expressions /\ expressions'[id] = object
      /\ \A i \in DOMAIN expressions \ {id} : expressions'[i] = expressions[i]
  BY <1>2, <1>3
<1>6. \A k \in 1..Len(stack) - 1 : expressions'[stack[k]] = expressions[stack[k]]
  BY <1>1, <1>4, <1>5
<1>7. \A i \in DOMAIN expressions' : i \in Nat /\ i <= made'
  BY <1>1, <1>5
<1>8. StackInv'
  BY <1>1, <1>5, <1>7 DEF StackInv
<1> QED BY <1>2, <1>5, <1>6, <1>8 DEF id

\* The two objects on top become one.
LEMMA MergeKeeps ==
  ASSUME StackInv, Len(stack) > 1, NEW object, made' = made, stack' = Front(stack),
         expressions' = [i \in DOMAIN expressions \ {stack[Len(stack)]} |->
                           IF i = stack[Len(stack) - 1] THEN object ELSE expressions[i]]
  PROVE  /\ StackInv' /\ Len(stack) \in Nat /\ Len(stack') = Len(stack) - 1
         /\ \A k \in 1..Len(stack) - 2 : expressions'[stack'[k]] = expressions[stack[k]]
         /\ expressions'[stack'[Len(stack) - 1]] = object
<1> DEFINE n == Len(stack)
           top == stack[n]
           below == stack[n - 1]
<1>1. /\ made \in Nat /\ stack \in Seq(Nat) /\ n \in Nat /\ n > 1
      /\ \A i \in DOMAIN expressions : i \in Nat /\ i <= made
      /\ \A k \in 1..n : stack[k] \in DOMAIN expressions
      /\ \A k, l \in 1..n : stack[k] = stack[l] => k = l
  BY DEF StackInv
<1>2. stack' \in Seq(Nat) /\ Len(stack') = n - 1
      /\ \A k \in 1..n - 1 : stack'[k] = stack[k]
  <2>1. stack' = SubSeq(stack, 1, n - 1)
    BY DEF Front
  <2>2. \A k \in 1..n - 1 : stack[k] \in Nat
    BY <1>1, ElementOfSeq
  <2>3. 1 \in Int /\ n - 1 \in Int /\ n - 1 - 1 + 1 = n - 1 /\ n - 1 >= 1
    BY <1>1
  <2> HIDE DEF n
  <2> QED BY <2>1, <2>2, <2>3, SubSeqProperties
<1>3. \A k \in 1..n - 1 : stack[k] # top
  BY <1>1
<1>4. \A k \in 1..n - 2 : stack[k] # below
  BY <1>1
<1> HIDE DEF n, top, below
<1>5. expressions' = [i \in DOMAIN expressions \ {top} |->
                        IF i = below THEN object ELSE expressions[i]]
  BY DEF top, below, n
<1>6. \A k \in 1..n - 1 : k \in 1..n
  BY <1>1
<1>7. \A k \in 1..n - 1 : stack'[k] = stack[k] /\ stack[k] \in DOMAIN expressions'
  BY <1>1, <1>2, <1>3, <1>5, <1>6
<1>8. \A k \in 1..n - 2 : expressions'[stack'[k]] = expressions[stack[k]]
  <2>1. \A k \in 1..n - 2 : k \in 1..n - 1
    BY <1>1
  <2> QED BY <1>3, <1>4, <1>5, <1>7, <2>1
<1>9. expressions'[stack'[n - 1]] = object
  <2>1. n - 1 \in 1..n - 1
    BY <1>1
  <2>2. stack'[n - 1] = below /\ below \in DOMAIN expressions'
    BY <1>7, <2>1 DEF below
  <2> QED BY <1>5, <2>2
<1>10. StackInv'
  <2>1. \A i \in DOMAIN expressions' : i \in Nat /\ i <= made'
    BY <1>1, <1>5
  <2>2. \A k, l \in 1..Len(stack') : stack'[k] = stack'[l] => k = l
    BY <1>1, <1>2, <1>6, <1>7
  <2> QED BY <1>1, <1>2, <1>7, <2>1, <2>2 DEF StackInv
<1> QED BY <1>1, <1>2, <1>8, <1>9, <1>10 DEF n

\* A condition is popped.
LEMMA PopKeeps ==
  ASSUME StackInv, NEW n \in 0..Len(stack), made' = made, stack' = SubSeq(stack, 1, n),
         expressions' = expressions
  PROVE  StackInv' /\ Len(stack') = n
<1>1. /\ stack \in Seq(Nat) /\ Len(stack) \in Nat
      /\ \A k \in 1..Len(stack) : stack[k] \in DOMAIN expressions
      /\ \A k, l \in 1..Len(stack) : stack[k] = stack[l] => k = l
  BY DEF StackInv
<1>2. /\ stack' \in Seq(Nat) /\ Len(stack') = n
      /\ \A k \in 1..n : stack'[k] = stack[k] /\ k \in 1..Len(stack)
  <2>1. \A k \in 1..n : stack[k] \in Nat /\ k \in 1..Len(stack)
    BY <1>1, ElementOfSeq
  <2> QED BY <1>1, <2>1, SubSeqProperties
<1>3. StackInv'
  BY <1>1, <1>2 DEF StackInv
<1> QED BY <1>2, <1>3

\* An operand.
LEMMA FieldKeepsObjects ==
  ASSUME query \in Query, ParserInv, field
  PROVE  PositionInv' /\ StackInv' /\ ObjectsInv'
<1> DEFINE m == Clause.exps[exp]
           n == Len(stack)
<1>1. /\ PositionInv /\ StackInv /\ ObjectsInv /\ clause <= Len(query.conds)
      /\ exp <= Len(Clause.exps) /\ operand < Len(m)
  BY DEF ParserInv, field, Parsing
<1>2. /\ query' = query /\ clause' = clause /\ exp' = exp /\ operand' = operand + 1
      /\ Clause' = Clause /\ Below' = Below /\ Done' = Done
  BY DEF field, Clause, Below, Done
<1>3. /\ IsClause(Clause) /\ Parts(Clause.kind) \in 1..3 /\ Len(Clause.exps) \in Nat
      /\ exp \in 1..Len(Clause.exps) + 1 /\ operand \in Nat
      /\ m \in Seq(Name) \ {<<>>} /\ Len(m) \in Nat \ {0}
  BY <1>1, Reading
<1>4. Below \in Nat /\ Done \in Nat
  BY <1>3 DEF Below, Done
<1>5. /\ n = Below + Done + (IF operand > 0 THEN 1 ELSE 0)
      /\ \A i \in 1..Done :
           DescribesList(expressions[stack[Below + i]], PartList(Clause, i, exp - 1))
      /\ operand > 0 =>
           DescribesList(expressions[stack[n]], <<SubSeq(m, 1, operand)>>)
  BY <1>1 DEF ObjectsInv
<1>6. PositionInv'
  <2>1. clause' \in 0..Len(query'.conds) + 1
    BY <1>1, <1>2 DEF PositionInv
  <2>2. exp' \in 1..Len(Clause'.exps) + 1 /\ operand' \in Nat
        /\ operand' <= Len(Clause'.exps[exp']) /\ exp' <= Len(Clause'.exps)
    BY <1>1, <1>2, <1>3
  <2> QED BY <1>3, <2>1, <2>2, <1>2 DEF PositionInv
<1> HIDE DEF m, n
<1>7. ASSUME StackInv', Len(stack') = Below + Done + 1,
             \A k \in 1..Below + Done : expressions'[stack'[k]] = expressions[stack[k]],
             DescribesList(expressions'[stack'[Len(stack')]], <<SubSeq(m, 1, operand + 1)>>)
      PROVE  StackInv' /\ ObjectsInv'
  <2>1. ASSUME NEW i \in 1..Done
        PROVE  DescribesList(expressions'[stack'[Below + i]], PartList(Clause, i, exp - 1))
    <3>1. Below + i \in 1..Below + Done
      BY <1>4
    <3> QED BY <1>5, <1>7, <3>1
  <2>2. operand' > 0
    BY <1>2, <1>3
  <2> QED BY <1>2, <1>7, <2>1, <2>2 DEF ObjectsInv, m
<1>8. CASE operand = 0
  <2>1. Push(Object(m[1]))
    BY <1>3, <1>8 DEF field, m
  <2>2. /\ StackInv' /\ Len(stack') = n + 1
        /\ \A k \in 1..n : expressions'[stack'[k]] = expressions[stack[k]]
        /\ expressions'[stack'[Len(stack')]] = Object(m[1])
    BY <1>1, <2>1, PushKeeps DEF n
  <2>3. n = Below + Done
    BY <1>4, <1>5, <1>8
  <2>4. DescribesList(Object(m[1]), <<SubSeq(m, 1, operand + 1)>>)
    BY <1>3, <1>8, OneOperand
  <2> QED BY <1>6, <1>7, <2>2, <2>3, <2>4
<1>9. CASE operand # 0
  <2> DEFINE object == Add(expressions[stack[n]], Object(m[operand + 1]))
  <2>1. /\ made' = made + 1 /\ stack' = stack
        /\ expressions' = [expressions EXCEPT ![Last(stack)] = object]
    BY <1>3, <1>9 DEF field, m, n, Last
  <2>2. n = Below + Done + 1 /\ operand > 0
    BY <1>3, <1>4, <1>5, <1>9
  <2>3. stack # <<>>
    BY <1>1, <1>4, <2>2, EmptySeq DEF StackInv, n
  <2>4. DescribesList(object, <<SubSeq(m, 1, operand + 1)>>)
    <3>1. DescribesList(expressions[stack[n]], <<SubSeq(m, 1, operand)>>)
      BY <1>5, <2>2
    <3>2. operand \in Nat \ {0} /\ operand < Len(m) /\ m \in Seq(Name)
      BY <1>1, <1>3, <1>9 DEF m
    <3> QED BY <3>1, <3>2, NextOperand
  <2> HIDE DEF object
  <2>5. /\ StackInv' /\ \A k \in 1..n - 1 : expressions'[stack[k]] = expressions[stack[k]]
        /\ expressions'[stack[n]] = object
    BY <1>1, <2>1, <2>3, ReplaceKeeps DEF n
  <2>6. n - 1 = Below + Done /\ Len(stack') = n
    BY <1>4, <2>1, <2>2 DEF n
  <2> QED BY <1>6, <1>7, <2>1, <2>2, <2>4, <2>5, <2>6
<1> QED BY <1>8, <1>9

\* An expression.
LEMMA ExpressionKeepsObjects ==
  ASSUME query \in Query, ParserInv, math_exp
  PROVE  PositionInv' /\ StackInv' /\ ObjectsInv'
<1> DEFINE e == Clause.exps
           m == Clause.exps[exp]
           n == Len(stack)
           p == Parts(Clause.kind)
<1>1. /\ PositionInv /\ StackInv /\ ObjectsInv /\ clause <= Len(query.conds)
      /\ exp <= Len(e) /\ operand = Len(m)
  BY DEF ParserInv, math_exp, Parsing
<1>2. /\ query' = query /\ clause' = clause /\ exp' = exp + 1 /\ operand' = 0 /\ made' = made
      /\ Clause' = Clause /\ Below' = Below
      /\ Done' = IF exp <= p THEN exp ELSE p
  <2>1. /\ query' = query /\ clause' = clause /\ exp' = exp + 1 /\ operand' = 0
        /\ made' = made /\ Clause' = Clause /\ Below' = Below
    BY DEF math_exp, Clause, Below
  <2>2. exp \in Int
    BY <1>1, Reading
  <2>3. Done' = IF exp' - 1 <= p THEN exp' - 1 ELSE p
    BY <2>1 DEF Done
  <2>4. exp' - 1 = exp
    BY <2>1, <2>2
  <2> QED BY <2>1, <2>3, <2>4
<1>3. /\ p \in 1..3 /\ e \in Expressions /\ Len(e) \in Nat
      /\ exp \in 1..Len(e) /\ m \in Seq(Name) \ {<<>>} /\ operand \in Nat \ {0}
  BY <1>1, Reading
<1>4. Below \in Nat /\ Done = IF exp - 1 <= p THEN exp - 1 ELSE p
  BY DEF Below, Done
<1>5. /\ n = Below + Done + 1
      /\ \A i \in 1..Done :
           DescribesList(expressions[stack[Below + i]], PartList(Clause, i, exp - 1))
      /\ DescribesList(expressions[stack[n]], <<m>>)
  <2>1. SubSeq(m, 1, operand) = m
    BY <1>1, <1>3, SubSeqFull
  <2>2. operand > 0
    BY <1>3
  <2> QED BY <1>1, <2>1, <2>2 DEF ObjectsInv
<1>6. PositionInv'
  <2>1. clause' \in 0..Len(query'.conds) + 1
    BY <1>1, <1>2 DEF PositionInv
  <2>2. exp' \in 1..Len(e) + 1 /\ operand' \in Nat /\ operand' = 0
    BY <1>2, <1>3
  <2>3. ASSUME exp' <= Len(e) PROVE operand' <= Len(e[exp'])
    <3>1. exp' \in 1..Len(e)
      BY <1>3, <2>2, <2>3
    <3>2. Len(e[exp']) \in Nat
      BY <1>3, <3>1, ElementOfSeq, LenProperties DEF Expressions
    <3> QED BY <2>2, <3>2
  <2> QED BY <1>2, <2>1, <2>2, <2>3 DEF PositionInv
<1>7. ASSUME StackInv', Len(stack') = Below + Done',
             \A i \in 1..Done' :
               DescribesList(expressions'[stack'[Below + i]], PartList(Clause, i, exp))
      PROVE  StackInv' /\ ObjectsInv'
  <2>1. exp' - 1 = exp /\ ~(operand' > 0) /\ Below + Done' + 0 = Below + Done'
    BY <1>2, <1>3, <1>4
  <2> QED BY <1>2, <1>7, <2>1 DEF ObjectsInv
<1>8. CASE exp <= p
  <2>1. stack' = stack /\ expressions' = expressions /\ Done = exp - 1 /\ Done' = exp
    BY <1>2, <1>3, <1>4, <1>8 DEF math_exp
  <2>2. StackInv'
    BY <1>1, <1>2, <2>1 DEF StackInv
  <2>3. n = Below + exp
    BY <1>3, <1>4, <1>5, <2>1
  <2>4. ASSUME NEW i \in 1..exp
        PROVE  DescribesList(expressions[stack[Below + i]], PartList(Clause, i, exp))
    <3>1. CASE i = exp
      <4>1. PartList(Clause, i, exp) = <<m>>
        <5>1. SubSeq(e, exp, exp) = <<m>>
          BY <1>3, SubSeqOfOne
        <5> QED BY <3>1, <5>1 DEF PartList
      <4> QED BY <1>5, <2>3, <3>1, <4>1
    <3>2. CASE i # exp
      <4>1. i \in 1..Done /\ i < p
        BY <1>3, <1>8, <2>1, <3>2
      <4>2. PartList(Clause, i, exp) = PartList(Clause, i, exp - 1)
        BY <4>1 DEF PartList
      <4> QED BY <1>5, <4>1, <4>2
    <3> QED BY <3>1, <3>2
  <2> QED BY <1>6, <1>7, <2>1, <2>2, <2>3, <2>4
<1>9. CASE exp > p
  <2> DEFINE x == expressions[stack[n - 1]]
             y == expressions[stack[n]]
             object == Add(x, y)
  <2>1. Done = p /\ Done' = p
    BY <1>2, <1>3, <1>4, <1>9
  <2>2. n = Below + p + 1 /\ n > 1 /\ n - 1 = Below + p
    BY <1>3, <1>4, <1>5, <2>1
  <2>3. DescribesList(object, PartList(Clause, p, exp))
    <3>1. ASSUME NEW k PROVE PartList(Clause, p, k) = SubSeq(e, p, k)
      <4>1. ~(p < p)
        BY <1>3
      <4> QED BY <4>1 DEF PartList
    <3>2. DescribesList(x, SubSeq(e, p, exp - 1))
      <4>1. p \in 1..Done
        BY <1>3, <2>1
      <4>2. DescribesList(expressions[stack[Below + p]], PartList(Clause, p, exp - 1))
        BY <1>5, <4>1
      <4>3. PartList(Clause, p, exp - 1) = SubSeq(e, p, exp - 1)
        BY <3>1
      <4> HIDE DEF n, p, e
      <4> QED BY <2>2, <4>2, <4>3
    <3>3. /\ exp - 1 \in Nat /\ p \in Nat \ {0} /\ p <= exp - 1 /\ exp - 1 < Len(e)
          /\ exp - 1 + 1 = exp
      BY <1>3, <1>9
    <3>4. DescribesList(y, <<e[exp - 1 + 1]>>)
      BY <1>5, <3>3
    <3> HIDE DEF x, y
    <3>5. DescribesList(Add(x, y), SubSeq(e, p, exp - 1 + 1))
      BY <1>3, <3>2, <3>3, <3>4, NextExpression
    <3> QED BY <3>1, <3>3, <3>5
  <2>4. /\ stack' = Front(stack)
        /\ expressions' = [i \in DOMAIN expressions \ {stack[n]} |->
                             IF i = stack[n - 1] THEN object ELSE expressions[i]]
    <3>1. ~(exp <= p)
      BY <1>3, <1>9
    <3>2. expressions' = [i \in DOMAIN expressions \ {stack[n]} |->
                            IF i = stack[n - 1] THEN Add(expressions[i], expressions[stack[n]])
                            ELSE expressions[i]]
          /\ stack' = Front(stack)
      BY <3>1 DEF math_exp
    <3> QED BY <3>2
  <2> HIDE DEF object
  <2>5. /\ StackInv' /\ Len(stack') = n - 1
        /\ \A k \in 1..n - 2 : expressions'[stack'[k]] = expressions[stack[k]]
        /\ expressions'[stack'[n - 1]] = object
    BY <1>1, <1>2, <2>2, <2>4, MergeKeeps
  <2>6. ASSUME NEW i \in 1..p
        PROVE  DescribesList(expressions'[stack'[Below + i]], PartList(Clause, i, exp))
    <3>1. CASE i = p
      BY <2>2, <2>3, <2>5, <3>1
    <3>2. CASE i # p
      <4>1. i < p /\ Below + i \in 1..n - 2
        BY <1>3, <1>4, <2>2, <3>2
      <4>2. PartList(Clause, i, exp) = PartList(Clause, i, exp - 1)
        BY <4>1 DEF PartList
      <4> QED BY <1>5, <2>1, <2>5, <4>1, <4>2
    <3> QED BY <3>1, <3>2
  <2> QED BY <1>6, <1>7, <2>1, <2>2, <2>5, <2>6
<1> QED BY <1>3, <1>8, <1>9

\* The table behind the select list, ...
LEMMA TableKeepsObjects ==
  ASSUME query \in Query, ParserInv, simple_table
  PROVE  PositionInv' /\ StackInv' /\ ObjectsInv'
<1>1. /\ PositionInv /\ StackInv /\ ObjectsInv /\ clause = 0
      /\ exp > Len(Clause.exps) /\ query' = query /\ clause' = 1 /\ exp' = 1 /\ operand' = 0
      /\ Push(AddField(Expression, "t"))
  BY DEF ParserInv, simple_table, NextClause
<1>2. Len(query.conds) \in Nat
  BY QueryType
<1>3. /\ Clause = SelectList /\ Parts(Clause.kind) = 1 /\ Len(Clause.exps) = 2
      /\ exp \in 1..Len(Clause.exps) + 1 /\ operand = 0
  <2>1. Clause = SelectList
    BY <1>1 DEF Clause
  <2>2. Parts(SelectList.kind) = 1 /\ Len(SelectList.exps) = 2
    BY DEF SelectList, Parts
  <2>3. clause <= Len(query.conds)
    BY <1>1, <1>2
  <2> QED BY <1>1, <2>1, <2>2, <2>3, Reading
<1>4. Below = 0 /\ Done = 1
  BY <1>1, <1>3 DEF Below, Done
<1>5. Len(stack) = 1
  BY <1>1, <1>2, <1>3, <1>4 DEF ObjectsInv
<1>6. StackInv' /\ Len(stack') = 2
  BY <1>1, <1>5, PushKeeps
<1>7. PositionInv' /\ ObjectsInv'
  <2>1. CASE Len(query.conds) = 0
    BY <1>1, <2>1 DEF PositionInv, ObjectsInv
  <2>2. CASE Len(query.conds) # 0
    <3>1. 1 \in 1..Len(query.conds) /\ Clause' = query.conds[1]
      BY <1>1, <1>2, <2>2 DEF Clause
    <3>2. IsClause(Clause')
      BY <3>1, QueryType
    <3>3. Len(Clause'.exps) \in Nat /\ Len(Clause'.exps) >= Parts(Clause'.kind)
          /\ Parts(Clause'.kind) \in 1..3 /\ Clause'.exps \in Expressions
      BY <3>2, PartsOfKind DEF IsClause
    <3>4. 1 \in 1..Len(Clause'.exps)
      BY <3>3
    <3>5. Len(Clause'.exps[1]) \in Nat
      BY <3>3, <3>4, ElementOfSeq, LenProperties DEF Expressions
    <3>6. PositionInv'
      BY <1>1, <1>2, <3>3, <3>4, <3>5 DEF PositionInv
    <3>7. Below' = 2 /\ Done' = 0
      BY <1>1, <3>3 DEF Below, Done
    <3> QED BY <1>1, <1>6, <3>6, <3>7 DEF ObjectsInv
  <2> QED BY <2>1, <2>2
<1> QED BY <1>6, <1>7

\* ... and a condition, whose objects stand for all of its expressions.
LEMMA ConditionIsRead ==
  ASSUME query \in Query, ParserInv, logical_exp
  PROVE  /\ clause \in 1..Len(query.conds) /\ Clause = query.conds[clause]
         /\ IsClause(Clause) /\ Clause.kind # "select"
         /\ exp = Len(Clause.exps) + 1 /\ operand = 0
         /\ Len(stack) = 2 + Parts(Clause.kind)
         /\ \A i \in 1..Parts(Clause.kind) :
              DescribesList(expressions[stack[2 + i]], PartList(Clause, i, Len(Clause.exps)))
<1>1. /\ PositionInv /\ StackInv /\ ObjectsInv /\ clause > 0 /\ clause <= Len(query.conds)
      /\ exp > Len(Clause.exps)
  BY DEF ParserInv, logical_exp, Parsing
<1>2. /\ clause \in 0..Len(query.conds) /\ IsClause(Clause) /\ Parts(Clause.kind) \in 1..3
      /\ Len(Clause.exps) \in Nat /\ Len(Clause.exps) >= Parts(Clause.kind)
      /\ exp \in 1..Len(Clause.exps) + 1 /\ operand = 0 /\ Len(query.conds) \in Nat
  BY <1>1, Reading
<1>3. clause \in 1..Len(query.conds) /\ Clause = query.conds[clause] /\ Clause.kind # "select"
  BY <1>1, <1>2, ClauseType
<1>4. exp = Len(Clause.exps) + 1 /\ exp - 1 = Len(Clause.exps)
  BY <1>1, <1>2
<1>5. Below = 2 /\ Done = Parts(Clause.kind)
  BY <1>1, <1>2, <1>4 DEF Below, Done
<1>6. /\ Len(stack) = Below + Done + 0
      /\ \A i \in 1..Done :
           DescribesList(expressions[stack[Below + i]], PartList(Clause, i, exp - 1))
  BY <1>1, <1>2 DEF ObjectsInv
<1> QED BY <1>2, <1>3, <1>4, <1>5, <1>6

\* Its objects are popped, and the next condition begins.
LEMMA ConditionKeepsObjects ==
  ASSUME query \in Query, ParserInv, logical_exp
  PROVE  PositionInv' /\ StackInv' /\ ObjectsInv'
<1>1. /\ clause \in 1..Len(query.conds) /\ Len(query.conds) \in Nat
      /\ Len(stack) = 2 + Parts(Clause.kind) /\ Parts(Clause.kind) \in 1..3
  BY ConditionIsRead, PartsOfKind, QueryType
<1>2. /\ query' = query /\ clause' = clause + 1 /\ exp' = 1 /\ operand' = 0
      /\ made' = made /\ expressions' = expressions
      /\ stack' = SubSeq(stack, 1, Len(stack) - Parts(Clause.kind))
  BY DEF logical_exp, NextClause
<1>3. StackInv' /\ Len(stack') = 2
  <2>1. StackInv
    BY DEF ParserInv
  <2>2. stack' = SubSeq(stack, 1, 2) /\ 2 \in 0..Len(stack)
    <3>1. Len(stack) - Parts(Clause.kind) = 2
      BY <1>1
    <3>2. stack' = SubSeq(stack, 1, 2)
      BY <1>2, <3>1
    <3>3. 2 \in 0..Len(stack)
      BY <1>1
    <3> QED BY <3>2, <3>3
  <2> QED BY <1>2, <2>1, <2>2, PopKeeps
<1>4. PositionInv' /\ ObjectsInv'
  <2>1. CASE clause = Len(query.conds)
    BY <1>1, <1>2, <2>1 DEF PositionInv, ObjectsInv
  <2>2. CASE clause # Len(query.conds)
    <3>1. clause' \in 1..Len(query.conds) /\ Clause' = query.conds[clause']
      <4>1. clause + 1 \in 1..Len(query.conds)
        BY <1>1, <2>2
      <4> QED BY <1>1, <1>2, <4>1 DEF Clause
    <3>2. IsClause(Clause')
      BY <3>1, QueryType
    <3>3. Len(Clause'.exps) \in Nat /\ Len(Clause'.exps) >= Parts(Clause'.kind)
          /\ Parts(Clause'.kind) \in 1..3 /\ Clause'.exps \in Expressions
      BY <3>2, PartsOfKind DEF IsClause
    <3>4. 1 \in 1..Len(Clause'.exps)
      BY <3>3
    <3>5. Len(Clause'.exps[1]) \in Nat
      BY <3>3, <3>4, ElementOfSeq, LenProperties DEF Expressions
    <3>6. PositionInv'
      BY <1>1, <1>2, <3>1, <3>3, <3>4, <3>5 DEF PositionInv
    <3>7. Below' = 2 /\ Done' = 0
      BY <1>1, <1>2, <3>3 DEF Below, Done
    <3>8. ~(operand' > 0)
      BY <1>2
    <3>9. Len(stack') = Below' + Done' + 0 /\ 1..Done' = {}
      BY <1>3, <3>7
    <3> QED BY <3>6, <3>8, <3>9 DEF ObjectsInv
  <2> QED BY <2>1, <2>2
<1> QED BY <1>3, <1>4

\* An operand of a query stands at some place.
LEMMA OperandsOf ==
  ASSUME NEW q, NEW name
  PROVE  name \in Operands(q) <=>
           \E i \in DOMAIN q.conds : \E j \in DOMAIN q.conds[i].exps :
             \E k \in DOMAIN q.conds[i].exps[j] : name = q.conds[i].exps[j][k]
<1>1. name \in Operands(q) <=> \E i \in DOMAIN q.conds : name \in AllOf(q.conds[i].exps)
  BY DEF Operands, Conditions
<1>2. ASSUME NEW e PROVE name \in AllOf(e) <=> \E j \in DOMAIN e : name \in All(e[j])
  BY DEF AllOf
<1>3. ASSUME NEW m PROVE name \in All(m) <=> \E k \in DOMAIN m : name = m[k]
  BY DEF All
<1> QED BY <1>1, <1>2, <1>3

\* The function of the list of brute-force functions that an operand may be stands
\* in a condition.
LEMMA FieldIsOperand ==
  ASSUME query \in Query, ParserInv, field, Clause.exps[exp][operand + 1] \in Bruteforce
  PROVE  Clause.exps[exp][operand + 1] \in Operands(query)
<1> DEFINE m == Clause.exps[exp]
           name == m[operand + 1]
<1>1. /\ PositionInv /\ clause <= Len(query.conds) /\ exp <= Len(Clause.exps) /\ operand < Len(m)
  BY DEF ParserInv, field, Parsing
<1>2. /\ clause \in 0..Len(query.conds) /\ Len(query.conds) \in Nat /\ Len(Clause.exps) \in Nat
      /\ Clause.exps \in Expressions
      /\ exp \in 1..Len(Clause.exps) /\ m \in Seq(Name) \ {<<>>} /\ operand \in Nat
  BY <1>1, Reading
<1>3. operand + 1 \in DOMAIN m /\ exp \in DOMAIN Clause.exps
  BY <1>1, <1>2, LenProperties DEF Expressions
<1>4. CASE clause = 0
  <2>1. Clause.exps = <<<<"int">>, <<"int">>>>
    BY <1>4 DEF Clause, SelectList
  <2>2. exp \in {1, 2}
    BY <1>3, <2>1
  <2>3. m = <<"int">>
    BY <2>1, <2>2
  <2>4. operand + 1 = 1
    BY <1>3, <2>3
  <2>5. name = "int"
    BY <2>3, <2>4
  <2> QED BY <2>5, QueryAnalysisAssumption DEF Function
<1>5. CASE clause # 0
  <2>1. clause \in DOMAIN query.conds /\ Clause = query.conds[clause]
    BY <1>2, <1>5, QueryType, ClauseType
  <2> QED BY <1>3, <2>1, OperandsOf
<1> QED BY <1>4, <1>5

\* The flags: an operand adds the one for brute-force functions, ...
LEMMA FieldKeepsFlags ==
  ASSUME query \in Query, ParserInv, field
  PROVE  FlagsInv'
<1> DEFINE m == Clause.exps[exp]
           name == m[operand + 1]
           bf == "has_bruteforce_function"
<1>1. /\ FlagsInv /\ PositionInv /\ clause <= Len(query.conds) /\ exp <= Len(Clause.exps)
  BY DEF ParserInv, field, Parsing
<1>2. /\ query' = query /\ clause' = clause /\ exp' = exp /\ operand' = operand + 1
      /\ flags' = flags \cup IF name \in Bruteforce THEN {bf} ELSE {}
  BY DEF field
<1>3. /\ exp \in 1..Len(Clause.exps) + 1 /\ operand \in Nat /\ Len(query.conds) \in Nat
      /\ clause \in 0..Len(query.conds) /\ DOMAIN query.conds = 1..Len(query.conds)
      /\ \A i \in 1..Len(query.conds) : query.conds[i].exps \in Expressions
  BY <1>1, Reading, QueryType DEF IsClause
<1>4. \A f \in Flag \ {bf} : f \in flags' <=> f \in flags
  BY <1>2
<1>5. flags' \subseteq Flag /\ flags \subseteq flags'
  BY <1>1, <1>2 DEF FlagsInv, Flag
<1>6. bf \in flags' => Operands(query) \cap Bruteforce # {}
  <2>1. CASE name \in Bruteforce
    BY <2>1, FieldIsOperand
  <2>2. CASE name \notin Bruteforce
    BY <1>1, <1>2, <2>2 DEF FlagsInv
  <2> QED BY <2>1, <2>2
<1>7. ASSUME NEW i \in DOMAIN query.conds, NEW j \in DOMAIN query.conds[i].exps,
             NEW k \in DOMAIN query.conds[i].exps[j],
             Passed(i, j, k)', query.conds[i].exps[j][k] \in Bruteforce
      PROVE  bf \in flags'
  <2>1. Len(query.conds[i].exps[j]) \in Nat
        /\ DOMAIN query.conds[i].exps[j] = 1..Len(query.conds[i].exps[j])
    <3>1. j \in 1..Len(query.conds[i].exps) /\ query.conds[i].exps[j] \in Seq(Name)
      BY <1>3, LenProperties, ElementOfSeq DEF Expressions
    <3> QED BY <3>1, LenProperties
  <2>2. Passed(i, j, k) \/ (i = clause /\ j = exp /\ k = operand + 1)
    BY <1>2, <1>3, <1>7, <2>1 DEF Passed
  <2>3. CASE Passed(i, j, k)
    BY <1>1, <1>5, <1>7, <2>3 DEF FlagsInv
  <2>4. CASE i = clause /\ j = exp /\ k = operand + 1
    <3>1. clause # 0 /\ Clause = query.conds[i]
      BY <1>3, <2>4, ClauseType
    <3> QED BY <1>2, <1>7, <2>4, <3>1
  <2> QED BY <2>2, <2>3, <2>4
<1> HIDE DEF name, m
<1>8. {"has_or", "has_comment", "has_tautology", "has_empty_pwd", "has_s_table"} \subseteq Flag \ {bf}
  BY DEF Flag
<1> QED BY <1>1, <1>2, <1>4, <1>5, <1>6, <1>7, <1>8 DEF FlagsInv

\* ... the end of an expression none, ...
LEMMA ExpressionKeepsFlags ==
  ASSUME query \in Query, ParserInv, math_exp
  PROVE  FlagsInv'
<1>1. /\ FlagsInv /\ PositionInv /\ clause <= Len(query.conds) /\ exp <= Len(Clause.exps)
      /\ operand = Len(Clause.exps[exp])
  BY DEF ParserInv, math_exp, Parsing
<1>2. /\ query' = query /\ clause' = clause /\ exp' = exp + 1 /\ operand' = 0
      /\ flags' = flags
  BY DEF math_exp
<1>3. /\ exp \in 1..Len(Clause.exps) + 1 /\ operand \in Nat /\ Len(query.conds) \in Nat
      /\ clause \in 0..Len(query.conds) /\ DOMAIN query.conds = 1..Len(query.conds)
      /\ \A i \in 1..Len(query.conds) : query.conds[i].exps \in Expressions
  BY <1>1, Reading, QueryType DEF IsClause
<1>4. ASSUME NEW i \in DOMAIN query.conds, NEW j \in DOMAIN query.conds[i].exps,
             NEW k \in DOMAIN query.conds[i].exps[j], Passed(i, j, k)'
      PROVE  Passed(i, j, k)
  <2>1. /\ j \in Nat /\ k \in Nat /\ k > 0 /\ k <= Len(query.conds[i].exps[j])
    <3>1. j \in 1..Len(query.conds[i].exps) /\ query.conds[i].exps[j] \in Seq(Name)
          /\ Len(query.conds[i].exps) \in Nat
      BY <1>3, LenProperties, ElementOfSeq DEF Expressions
    <3>2. k \in 1..Len(query.conds[i].exps[j]) /\ Len(query.conds[i].exps[j]) \in Nat
      BY <3>1, LenProperties
    <3> QED BY <3>1, <3>2
  <2>2. i = clause => Clause = query.conds[i]
    BY <1>3, ClauseType
  <2>3. i < clause \/ (i = clause /\ j < exp + 1)
    BY <1>2, <1>4, <2>1 DEF Passed
  <2>4. CASE i < clause
    BY <2>4 DEF Passed
  <2>5. CASE i = clause /\ j < exp
    BY <2>5 DEF Passed
  <2>6. CASE i = clause /\ j = exp
    <3>1. k <= operand
      BY <1>1, <2>1, <2>2, <2>6
    <3> QED BY <2>6, <3>1 DEF Passed
  <2> QED BY <1>3, <2>1, <2>3, <2>4, <2>5, <2>6
<1> QED BY <1>1, <1>2, <1>4 DEF FlagsInv

\* ... the table and the comment behind it their own, ...
LEMMA TableKeepsFlags ==
  ASSUME query \in Query, ParserInv, simple_table
  PROVE  FlagsInv'
<1> DEFINE S == IF "t" \in Sensitive THEN {"has_s_table"} ELSE {}
           C == IF query.style.comment # <<>> THEN {"has_comment"} ELSE {}
<1>1. FlagsInv /\ clause = 0
  BY DEF ParserInv, simple_table
<1>2. /\ query' = query /\ clause' = 1 /\ exp' = 1 /\ operand' = 0
      /\ flags' = flags \cup S \cup C
  BY <1>1 DEF simple_table, NextClause
<1>3. /\ "has_s_table" \in S <=> "t" \in Sensitive
      /\ "has_comment" \in C <=> query.style.comment # <<>>
      /\ S \subseteq {"has_s_table"} /\ C \subseteq {"has_comment"}
  OBVIOUS
<1> HIDE DEF S, C
<1>4. Len(query.conds) \in Nat /\ DOMAIN query.conds = 1..Len(query.conds)
      /\ \A i \in 1..Len(query.conds) : query.conds[i].exps \in Expressions
  BY QueryType DEF IsClause
<1>5. ASSUME NEW i \in DOMAIN query.conds, NEW j \in DOMAIN query.conds[i].exps,
             NEW k \in DOMAIN query.conds[i].exps[j]
      PROVE  ~Passed(i, j, k)'
  <2>1. j \in 1..Len(query.conds[i].exps) /\ query.conds[i].exps[j] \in Seq(Name)
    BY <1>4, LenProperties, ElementOfSeq DEF Expressions
  <2>2. k \in 1..Len(query.conds[i].exps[j])
    BY <2>1, LenProperties
  <2>3. i \in Nat /\ i >= 1 /\ j \in Nat /\ j >= 1 /\ k \in Nat /\ k >= 1
    BY <1>4, <2>1, <2>2, LenProperties DEF Expressions
  <2> QED BY <1>2, <2>3 DEF Passed
<1>6. /\ flags \subseteq Flag
      /\ \A f \in {"has_or", "has_comment", "has_tautology", "has_empty_pwd", "has_s_table"} :
           f \notin flags
      /\ "has_bruteforce_function" \in flags => Operands(query) \cap Bruteforce # {}
  <2>1. 1..clause - 1 = {}
    BY <1>1
  <2> QED BY <1>1, <2>1 DEF FlagsInv
<1>7. /\ flags' \subseteq Flag
      /\ \A f \in {"has_or", "has_tautology", "has_empty_pwd"} : f \notin flags'
      /\ "has_s_table" \in flags' <=> "t" \in Sensitive
      /\ "has_comment" \in flags' <=> query.style.comment # <<>>
      /\ "has_bruteforce_function" \in flags' <=> "has_bruteforce_function" \in flags
  BY <1>2, <1>3, <1>6 DEF Flag
<1>8. clause' > 0 /\ ~(clause' > 1) /\ 1..clause' - 1 = {}
  BY <1>2
<1> QED BY <1>2, <1>5, <1>6, <1>7, <1>8 DEF FlagsInv

\* ... and a condition those of the reference, and the one for an "or".
LEMMA ConditionKeepsFlags ==
  ASSUME query \in Query, ParserInv, logical_exp
  PROVE  FlagsInv'
<1> DEFINE n == Parts(Clause.kind)
           x == [i \in 1..n |-> expressions[stack[2 + i]]]
           F == Found(Clause.kind, x)
           O == IF clause < Len(query.conds) THEN {"has_or"} ELSE {}
<1>1. FlagsInv
  BY DEF ParserInv
<1>2. /\ clause \in 1..Len(query.conds) /\ Len(query.conds) \in Nat
      /\ Clause = query.conds[clause] /\ IsClause(Clause) /\ Clause.kind # "select"
      /\ exp = Len(Clause.exps) + 1 /\ n \in 1..3 /\ Len(stack) = 2 + n
      /\ DOMAIN query.conds = 1..Len(query.conds)
      /\ \A i \in 1..Len(query.conds) : query.conds[i].exps \in Expressions
      /\ \A i \in 1..n :
           DescribesList(expressions[stack[2 + i]], PartList(Clause, i, Len(Clause.exps)))
  BY ConditionIsRead, PartsOfKind, QueryType DEF IsClause
<1>3. /\ query' = query /\ clause' = clause + 1 /\ exp' = 1 /\ operand' = 0
      /\ flags' = flags \cup F \cup O
  <2>1. Len(stack) - n = 2
    BY <1>2
  <2>2. flags' = flags \cup
          Found(Clause.kind, [i \in 1..n |-> expressions[stack[(Len(stack) - n) + i]]]) \cup O
    BY DEF logical_exp
  <2> QED BY <2>1, <2>2 DEF logical_exp, NextClause
<1>4. /\ "has_tautology" \in F <=> Tautology(query.conds[clause])
      /\ "has_empty_pwd" \in F <=> EmptyPwdIn(query.conds[clause])
      /\ F \subseteq {"has_tautology", "has_empty_pwd"}
  <2>1. \A i \in 1..n : DescribesList(x[i], PartList(Clause, i, Len(Clause.exps)))
    BY <1>2
  <2> HIDE DEF x
  <2> QED BY <1>2, <2>1, FoundIsReference
<1>5. O \subseteq {"has_or"} /\ ("has_or" \in O <=> clause < Len(query.conds))
  OBVIOUS
<1> HIDE DEF n, x, F, O
<1>6. ASSUME NEW i \in DOMAIN query.conds, NEW j \in DOMAIN query.conds[i].exps,
             NEW k \in DOMAIN query.conds[i].exps[j], Passed(i, j, k)'
      PROVE  Passed(i, j, k)
  <2>1. /\ Len(query.conds[i].exps) \in Nat /\ j \in 1..Len(query.conds[i].exps)
        /\ query.conds[i].exps[j] \in Seq(Name)
    <3>1. query.conds[i].exps \in Seq(Seq(Name) \ {<<>>})
      BY <1>2 DEF Expressions
    <3>2. Len(query.conds[i].exps) \in Nat /\ j \in 1..Len(query.conds[i].exps)
      BY <3>1, LenProperties
    <3> QED BY <3>1, <3>2, ElementOfSeq
  <2>2. k \in 1..Len(query.conds[i].exps[j]) /\ Len(query.conds[i].exps[j]) \in Nat
    BY <2>1, LenProperties
  <2>3. i < clause + 1
    BY <1>2, <1>3, <1>6, <2>1, <2>2 DEF Passed
  <2>4. CASE i < clause
    BY <2>4 DEF Passed
  <2>5. CASE i = clause
    <3>1. j < exp
      BY <1>2, <2>1, <2>5
    <3> QED BY <2>5, <3>1 DEF Passed
  <2> QED BY <1>2, <2>3, <2>4, <2>5
<1>7. clause' > 1 /\ clause > 0 /\ clause' > 0 /\ clause' - 1 = clause
      /\ \A i \in 1..clause : i \in 1..clause - 1 \/ i = clause
  BY <1>2, <1>3
<1>8. "has_or" \in flags' <=> clause' > 1 /\ Len(query.conds) > 1
  <2>1. "has_or" \in flags' <=> "has_or" \in flags \/ clause < Len(query.conds)
    BY <1>3, <1>4, <1>5
  <2>2. "has_or" \in flags <=> clause > 1 /\ Len(query.conds) > 1
    BY <1>1 DEF FlagsInv
  <2> QED BY <1>2, <1>7, <2>1, <2>2
<1>9. "has_tautology" \in flags' <=> \E i \in 1..clause : Tautology(query.conds[i])
  <2>1. "has_tautology" \in flags' <=> "has_tautology" \in flags \/ Tautology(query.conds[clause])
    BY <1>3, <1>4, <1>5
  <2>2. "has_tautology" \in flags <=> \E i \in 1..clause - 1 : Tautology(query.conds[i])
    BY <1>1 DEF FlagsInv
  <2>3. clause \in 1..clause /\ \A i \in 1..clause - 1 : i \in 1..clause
    BY <1>2
  <2> QED BY <1>7, <2>1, <2>2, <2>3
<1>10. "has_empty_pwd" \in flags' <=> \E i \in 1..clause : EmptyPwdIn(query.conds[i])
  <2>1. "has_empty_pwd" \in flags' <=> "has_empty_pwd" \in flags \/ EmptyPwdIn(query.conds[clause])
    BY <1>3, <1>4, <1>5
  <2>2. "has_empty_pwd" \in flags <=> \E i \in 1..clause - 1 : EmptyPwdIn(query.conds[i])
    BY <1>1 DEF FlagsInv
  <2>3. clause \in 1..clause /\ \A i \in 1..clause - 1 : i \in 1..clause
    BY <1>2
  <2> QED BY <1>7, <2>1, <2>2, <2>3
<1>11. /\ flags' \subseteq Flag
       /\ \A f \in {"has_comment", "has_s_table", "has_bruteforce_function"} :
            f \in flags' <=> f \in flags
  <2>1. flags \subseteq Flag
    BY <1>1 DEF FlagsInv
  <2> QED BY <1>3, <1>4, <1>5, <2>1 DEF Flag
<1> QED BY <1>1, <1>3, <1>6, <1>7, <1>8, <1>9, <1>10, <1>11 DEF FlagsInv

----------------------------------------------------------------------------
(* The flags when the parser has ended.                                    *)

\* Where the parser stands nothing is wrongly flagged.
LEMMA OnlyExpected ==
  ASSUME query \in Query, ParserInv
  PROVE  flags \subseteq Expected(query)
<1>1. FlagsInv /\ PositionInv
  BY DEF ParserInv
<1>2. Len(query.conds) \in Nat /\ DOMAIN query.conds = 1..Len(query.conds)
      /\ clause \in 0..Len(query.conds) + 1
  BY <1>1, QueryType DEF PositionInv
<1>3. \A i \in 1..clause - 1 : query.conds[i] \in Conditions(query)
  BY <1>2 DEF Conditions
<1>4. ASSUME NEW f \in flags PROVE f \in Expected(query)
  <2>1. f \in Flag
    BY <1>1 DEF FlagsInv
  <2>2. CASE f = "has_or"
    BY <1>1, <2>1, <2>2 DEF FlagsInv, Expected
  <2>3. CASE f = "has_comment"
    BY <1>1, <2>1, <2>3 DEF FlagsInv, Expected
  <2>4. CASE f = "has_s_table"
    BY <1>1, <2>1, <2>4 DEF FlagsInv, Expected
  <2>5. CASE f = "has_bruteforce_function"
    BY <1>1, <2>1, <2>5 DEF FlagsInv, Expected
  <2>6. CASE f = "has_tautology"
    <3>1. \E c \in Conditions(query) : Tautology(c)
      BY <1>1, <1>3, <2>6 DEF FlagsInv
    <3> QED BY <2>1, <2>6, <3>1 DEF Expected
  <2>7. CASE f = "has_empty_pwd"
    <3>1. \E c \in Conditions(query) : EmptyPwdIn(c)
      BY <1>1, <1>3, <2>7 DEF FlagsInv
    <3> QED BY <2>1, <2>7, <3>1 DEF Expected, EmptyPwdIn
  <2> QED BY <2>1, <2>2, <2>3, <2>4, <2>5, <2>6, <2>7 DEF Flag
<1> QED BY <1>4

\* Behind the last condition none is missing.
LEMMA AllExpected ==
  ASSUME query \in Query, ParserInv, clause > Len(query.conds)
  PROVE  Expected(query) \subseteq flags
<1>1. FlagsInv /\ PositionInv
  BY DEF ParserInv
<1>2. Len(query.conds) \in Nat /\ DOMAIN query.conds = 1..Len(query.conds)
      /\ clause = Len(query.conds) + 1
  BY <1>1, QueryType DEF PositionInv
<1>3. \A c \in Conditions(query) : \E i \in 1..clause - 1 : c = query.conds[i]
  BY <1>2 DEF Conditions
<1>4. ASSUME NEW f \in Expected(query) PROVE f \in flags
  <2>1. f \in Flag
    BY DEF Expected
  <2>2. CASE f = "has_or"
    BY <1>1, <1>2, <2>2 DEF FlagsInv, Expected
  <2>3. CASE f = "has_comment"
    BY <1>1, <1>2, <2>3 DEF FlagsInv, Expected
  <2>4. CASE f = "has_s_table"
    BY <1>1, <1>2, <2>4 DEF FlagsInv, Expected
  <2>5. CASE f = "has_bruteforce_function"
    <3>1. PICK name \in Bruteforce : name \in Operands(query)
      BY <2>5 DEF Expected
    <3>2. PICK i \in DOMAIN query.conds : \E j \in DOMAIN query.conds[i].exps :
            \E k \in DOMAIN query.conds[i].exps[j] : name = query.conds[i].exps[j][k]
      BY <3>1, OperandsOf
    <3>3. i < clause
      BY <1>2
    <3>4. PICK j \in DOMAIN query.conds[i].exps : \E k \in DOMAIN query.conds[i].exps[j] :
            name = query.conds[i].exps[j][k]
      BY <3>2
    <3>5. PICK k \in DOMAIN query.conds[i].exps[j] : name = query.conds[i].exps[j][k]
      BY <3>4
    <3>6. Passed(i, j, k)
      BY <3>3 DEF Passed
    <3> QED BY <1>1, <2>5, <3>1, <3>5, <3>6 DEF FlagsInv
  <2>6. CASE f = "has_tautology"
    <3>1. \E i \in 1..clause - 1 : Tautology(query.conds[i])
      BY <1>3, <2>6 DEF Expected
    <3> QED BY <1>1, <2>6, <3>1 DEF FlagsInv
  <2>7. CASE f = "has_empty_pwd"
    <3>1. \E i \in 1..clause - 1 : EmptyPwdIn(query.conds[i])
      BY <1>3, <2>7 DEF Expected, EmptyPwdIn
    <3> QED BY <1>1, <2>7, <3>1 DEF FlagsInv
  <2> QED BY <2>1, <2>2, <2>3, <2>4, <2>5, <2>6, <2>7 DEF Flag
<1> QED BY <1>4

\* The parser gives up only at an operand with decimals.
LEMMA ErrorAtDecimal ==
  ASSUME query \in Query, ParserInv, clause <= Len(query.conds), SyntaxError
  PROVE  "dec" \in Operands(query)
<1> DEFINE m == Clause.exps[exp]
<1>1. PositionInv /\ operand > 0 /\ m[operand] = "dec"
  BY DEF ParserInv, SyntaxError
<1>2. /\ clause \in 0..Len(query.conds) /\ Len(query.conds) \in Nat /\ Len(Clause.exps) \in Nat
      /\ Clause.exps \in Expressions /\ exp \in 1..Len(Clause.exps) + 1 /\ operand \in Nat
      /\ exp <= Len(Clause.exps) =>
           m \in Seq(Name) \ {<<>>} /\ Len(m) \in Nat \ {0} /\ operand <= Len(m)
      /\ exp > Len(Clause.exps) => operand = 0
  BY <1>1, Reading
<1>3. exp \in 1..Len(Clause.exps) /\ operand \in 1..Len(m) /\ m \in Seq(Name)
  BY <1>1, <1>2
<1>4. exp \in DOMAIN Clause.exps /\ operand \in DOMAIN m
  BY <1>2, <1>3, LenProperties DEF Expressions
<1>5. CASE clause = 0
  <2>1. Clause.exps = <<<<"int">>, <<"int">>>>
    BY <1>5 DEF Clause, SelectList
  <2>2. exp \in {1, 2}
    BY <1>4, <2>1
  <2>3. m = <<"int">>
    BY <2>1, <2>2
  <2>4. m[operand] = "int"
    BY <1>4, <2>3
  <2> QED BY <1>1, <2>4
<1>6. CASE clause # 0
  <2>1. clause \in DOMAIN query.conds /\ Clause = query.conds[clause]
    BY <1>2, <1>6, QueryType, ClauseType
  <2> QED BY <1>1, <1>4, <2>1, OperandsOf
<1> QED BY <1>5, <1>6

----------------------------------------------------------------------------

\* The parser begins before the select list, with nothing on its stack.
LEMMA ParserStart ==
  ASSUME query \in Query, clause = 0, exp = 1, operand = 0, stack = <<>>, expressions = <<>>,
         made = 0, flags = {}
  PROVE  ParserInv
<1>1. Len(query.conds) \in Nat /\ DOMAIN query.conds = 1..Len(query.conds)
      /\ \A i \in 1..Len(query.conds) : query.conds[i].exps \in Expressions
  BY QueryType DEF IsClause
<1>2. Clause = SelectList /\ Parts(Clause.kind) = 1 /\ Len(Clause.exps) = 2
      /\ Below = 0 /\ Done = 0
  BY DEF Clause, SelectList, Parts, Below, Done
<1>3. PositionInv
  <2>1. Len(Clause.exps[exp]) \in Nat
    BY DEF Clause, SelectList
  <2> QED BY <1>1, <1>2, <2>1 DEF PositionInv
<1>4. StackInv /\ ObjectsInv
  <2>1. Len(stack) = 0 /\ stack \in Seq(Nat) /\ DOMAIN expressions = {}
    OBVIOUS
  <2> QED BY <1>2, <2>1 DEF StackInv, ObjectsInv
<1>5. ASSUME NEW i \in DOMAIN query.conds, NEW j \in DOMAIN query.conds[i].exps,
             NEW k \in DOMAIN query.conds[i].exps[j]
      PROVE  ~Passed(i, j, k)
  <2>1. i \in Nat /\ i >= 1
    BY <1>1
  <2> QED BY <2>1 DEF Passed
<1>6. FlagsInv
  <2>1. 1..clause - 1 = {}
    OBVIOUS
  <2> QED BY <1>5, <2>1 DEF FlagsInv
<1> QED BY <1>3, <1>4, <1>6 DEF ParserInv

\* A pass of the normalization.
LEMMA PassKeepsParser ==
  ASSUME ParserInv, UNCHANGED <<query, parser, flags>>
  PROVE  ParserInv'
<1>1. /\ Clause' = Clause /\ Below' = Below /\ Done' = Done
      /\ \A i, j, k : Passed(i, j, k)' <=> Passed(i, j, k)
  BY DEF parser, Clause, Below, Done, Passed
<1>2. PositionInv' /\ StackInv' /\ ObjectsInv'
  BY <1>1 DEF ParserInv, PositionInv, StackInv, ObjectsInv, parser
<1>3. FlagsInv'
  BY <1>1 DEF ParserInv, FlagsInv, parser
<1> QED BY <1>2, <1>3 DEF ParserInv

\* Every action of the parser.
LEMMA ParserKeeps ==
  ASSUME query \in Query, ParserInv, yyparse
  PROVE  ParserInv'
<1>1. CASE field
  BY <1>1, FieldKeepsObjects, FieldKeepsFlags DEF ParserInv
<1>2. CASE math_exp
  BY <1>2, ExpressionKeepsObjects, ExpressionKeepsFlags DEF ParserInv
<1>3. CASE simple_table
  BY <1>3, TableKeepsObjects, TableKeepsFlags DEF ParserInv
<1>4. CASE logical_exp
  BY <1>4, ConditionKeepsObjects, ConditionKeepsFlags DEF ParserInv
<1> QED BY <1>1, <1>2, <1>3, <1>4 DEF yyparse

\* check_query keeps the invariant.
LEMMA RiskInvariant == Spec => []RiskInv
<1>1. Init => RiskInv
  <2> SUFFICES ASSUME Init, query # None PROVE RiskInv
    BY DEF RiskInv
  <2>1. query \in Query /\ pc = "removeQuotedText"
    BY DEF Init
  <2>2. ParserInv
    BY <2>1, ParserStart DEF Init
  <2> QED BY <2>1, <2>2 DEF RiskInv
<1>2. RiskInv /\ [Next]_vars => RiskInv'
  <2> SUFFICES ASSUME RiskInv, [Next]_vars, query' # None PROVE RiskInv'
    BY DEF RiskInv
  <2>1. query' = query
    BY DEF Next, normalizeQuery, Pass, yyparse, field, math_exp, simple_table, logical_exp,
           free_expressions, calculateRisk, vars
  <2>2. /\ query \in Query /\ query # None
        /\ pc \notin {"calculateRisk", "done"} => ParserInv
        /\ pc \in {"calculateRisk", "done"} =>
             /\ flags \subseteq Expected(query)
             /\ "dec" \notin Operands(query) => flags = Expected(query)
    BY <2>1 DEF RiskInv
  <2>3. CASE normalizeQuery
    <3>1. /\ pc \notin {"calculateRisk", "done"} /\ pc' \notin {"calculateRisk", "done"}
          /\ UNCHANGED <<query, parser, flags>>
      BY <2>2, <2>3 DEF normalizeQuery, Pass
    <3>2. ParserInv'
      BY <2>2, <3>1, PassKeepsParser
    <3> QED BY <2>1, <2>2, <3>1, <3>2 DEF RiskInv
  <2>4. CASE yyparse
    <3>1. pc = "query_parse" /\ pc' = pc
      BY <2>4 DEF yyparse, field, math_exp, simple_table, logical_exp, Parsing
    <3>2. ParserInv'
      BY <2>2, <2>4, <3>1, ParserKeeps
    <3> QED BY <2>1, <2>2, <3>1, <3>2 DEF RiskInv
  <2>5. CASE free_expressions
    <3>1. /\ pc = "query_parse" /\ pc' = "calculateRisk" /\ flags' = flags
          /\ SyntaxError \/ clause > Len(query.conds)
      BY <2>5 DEF free_expressions
    <3>2. ParserInv
      BY <2>2, <3>1
    <3>3. flags \subseteq Expected(query)
      BY <2>2, <3>2, OnlyExpected
    <3>4. "dec" \notin Operands(query) => flags = Expected(query)
      <4>1. CASE clause > Len(query.conds)
        BY <2>2, <3>2, <3>3, <4>1, AllExpected
      <4>2. CASE ~(clause > Len(query.conds))
        <5>1. clause <= Len(query.conds)
          BY <2>2, <3>2, <4>2, QueryType DEF ParserInv, PositionInv
        <5> QED BY <2>2, <3>1, <3>2, <4>2, <5>1, ErrorAtDecimal
      <4> QED BY <4>1, <4>2
    <3> QED BY <2>1, <2>2, <3>1, <3>3, <3>4 DEF RiskInv
  <2>6. CASE calculateRisk
    <3>1. /\ pc = "calculateRisk" /\ pc' = "done" /\ flags' = flags
          /\ risk' = TotalWeight(flags)
      BY <2>6 DEF calculateRisk
    <3> QED BY <2>1, <2>2, <3>1 DEF RiskInv
  <2>7. CASE UNCHANGED vars
    <3>1. UNCHANGED <<query, parser, flags>> /\ pc' = pc /\ risk' = risk
      BY <2>7 DEF vars
    <3>2. ParserInv => ParserInv'
      BY <3>1, PassKeepsParser
    <3> QED BY <2>1, <2>2, <3>1, <3>2 DEF RiskInv
  <2> QED BY <2>3, <2>4, <2>5, <2>6, <2>7 DEF Next
<1> QED BY <1>1, <1>2, PTL DEF Spec

\* The flags are those of the reference when the parser has ended, for every query of
\* the grammar and for every way to merge its objects, and the risk is their weight.
THEOREM RiskIsByReference == Spec => []RiskByReference
<1>1. RiskInv => RiskByReference
  BY DEF RiskInv, RiskByReference
<1> QED BY <1>1, RiskInvariant, PTL

=============================================================================
