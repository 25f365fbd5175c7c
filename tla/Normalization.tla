---------------------------- MODULE Normalization ----------------------------
(***************************************************************************)
(* The passes of normalizeQuery, which turn the text of a query into the   *)
(* pattern that the whitelist and the alert groups are kept by, and the    *)
(* literals as the scanner of the SQL parser reads them.  A text is a      *)
(* sequence of symbols: one for each character that a pass looks at, and   *)
(* one for a whole word or any other text that the passes only copy.  The  *)
(* loops of the code rewrite a string from left to right and never look    *)
(* back by more than one character.  A pass is a recursive function: of    *)
(* the position where the loop is (rest[i] is what becomes of the text     *)
(* from i on), or, where it reads what it has written, of the rest itself. *)
(***************************************************************************)
EXTENDS Integers, Sequences, SequencesExt, FiniteSetsExt

Space == {" ", "\n"}
Newline == {"\n"}
Quote == {"'", "\""}
Backtick == "backtick"
Digit == {"0", "5"}
HexDigit == Digit \cup {"f"}

At(q, i) == IF i \in DOMAIN q THEN q[i] ELSE ""
From(q, i) == SubSeq(q, i, Len(q))

\* Position of the first symbol, at i or later, that is in S.
Until(q, i, S) == Min({j \in i..Len(q) + 1 : j > Len(q) \/ q[j] \in S})

\* Position of the first symbol, at i or later, that is not in S.
After(q, i, S) == Min({j \in i..Len(q) + 1 : j > Len(q) \/ q[j] \notin S})

----------------------------------------------------------------------------
(* Quoted text.                                                            *)

\* Mutant: a doubled delimiter ends the literal.
lookForChar_NoDoubling(q, start, delimiter) ==
  LET end[s \in Nat \X BOOLEAN] ==
        LET j == s[1]
            quoted == s[2]
        IN  IF j > Len(q) \/ (q[j] = delimiter /\ ~quoted) THEN j
            ELSE end[<<j + 1, q[j] = "\\" /\ ~quoted>>]
  IN  end[<<start + 1, FALSE>>]

\* Where the literal that starts at a delimiter ends: at a delimiter that is
\* neither doubled nor escaped, or after the text.
lookForChar(q, start, delimiter) ==
  LET end[s \in Nat \X BOOLEAN] ==
        LET j == s[1]
            quoted == s[2]
        IN  IF j > Len(q) THEN j
            ELSE IF q[j] = delimiter /\ ~quoted
                 THEN IF At(q, j + 1) = delimiter THEN end[<<j + 2, FALSE>>] ELSE j
            ELSE end[<<j + 1, q[j] = "\\" /\ ~quoted>>]
  IN  end[<<start + 1, FALSE>>]

removeQuotedText(q) ==
  LET rest[s \in Nat \X BOOLEAN] ==
        LET i == s[1]
            quoted == s[2]
        IN  IF i > Len(q) THEN <<>>
            ELSE IF q[i] \in Quote /\ ~quoted
                 THEN <<"?">> \o rest[<<lookForChar(q, i, q[i]) + 1, FALSE>>]
            ELSE <<q[i]>> \o rest[<<i + 1, q[i] = "\\" /\ ~quoted>>]
  IN  rest[<<1, FALSE>>]

----------------------------------------------------------------------------
(* Comments: the marks of a comment stay in the text.                      *)

\* Where the search for the end of a comment stops: at any "*", before any "/",
\* or at the last character.
CommentStop(q, j) ==
  IF j > Len(q) THEN j
  ELSE Min({i \in j..Len(q) : i = Len(q) \/ q[i] = "*" \/ q[i + 1] = "/"})

\* The text of a query that begins with a comment, its comment shortened.  When
\* the search did not stop at the end of the comment, four characters more than
\* it passed over go, and what follows stays.
ShortenComment(q) ==
  LET j == CommentStop(q, 3)
  IN  IF At(q, j) = "*" /\ At(q, j + 1) = "/"
      THEN IF j = 3 THEN q ELSE <<"/", "*", " ">> \o From(q, j)
      ELSE <<"/", "*">> \o From(q, j + 4)

removeCppComment(q) ==
  LET shorter[r \in Seq(STRING)] ==
        IF Len(r) < 2 THEN r
        ELSE LET s == IF r[1] = "/" /\ r[2] = "*" THEN ShortenComment(r) ELSE r
             IN  <<s[1]>> \o shorter[Tail(s)]
  IN  shorter[q]

\* Where the text goes on after a comment that lasts to the end of its line.
AfterLine(q, i) == After(q, Until(q, i, Newline), Newline)

removeHashComment(q) ==
  LET rest[i \in Nat] ==
        IF i > Len(q) THEN <<>>
        ELSE <<q[i]>> \o rest[IF q[i] = "#" THEN AfterLine(q, i + 1) ELSE i + 1]
  IN  rest[1]

removeDashComment(q) ==
  LET shorter[r \in Seq(STRING)] ==
        IF Len(r) < 2 THEN r
        ELSE <<r[1]>> \o shorter[IF r[1] = "-" /\ r[2] = "-"
                                 THEN <<"-">> \o From(r, AfterLine(r, 3)) ELSE Tail(r)]
  IN  shorter[q]

removeComments(q) == removeDashComment(removeHashComment(removeCppComment(q)))

----------------------------------------------------------------------------
(* Numbers.                                                                *)

\* What may stand before a number.
Operator == {",", "!", "(", "+", "-", "*", "/", "=", "~", "<", ">", "^", "%", "|", "&"}

\* Where the number at i ends.
NumberEnd(q, i) ==
  LET whole == After(q, i + 1, Digit)
  IN  IF q[i] = "0" /\ At(q, i + 1) = "x" THEN After(q, i + 2, HexDigit)
      ELSE IF At(q, whole) = "." THEN After(q, whole + 1, Digit) ELSE whole

\* The first character of a query is not looked at, and a number that has become
\* a "?" is no operator, as its last character was none.
removeNumbers(q) ==
  LET rest[i \in Nat] ==
        IF i > Len(q) THEN <<>>
        ELSE IF q[i] \in Digit /\ At(q, i - 1) \in Operator \cup Space
             THEN <<"?">> \o rest[NumberEnd(q, i)]
        ELSE <<q[i]>> \o rest[i + 1]
  IN  rest[1]

----------------------------------------------------------------------------
(* Spaces.                                                                 *)

Collapse(q) ==
  LET rest[i \in Nat] ==
        IF i > Len(q) THEN <<>>
        ELSE IF q[i] \in Space THEN <<" ">> \o rest[After(q, i + 1, Space)]
        ELSE <<q[i]>> \o rest[i + 1]
  IN  rest[1]

\* Mutant: only spaces before a comma or a bracket are removed.
Squeeze_Before(q) ==
  LET shorter[r \in Seq(STRING)] ==
        IF r = <<>> THEN <<>>
        ELSE LET s == IF r[1] = " " /\ At(r, 2) \in {")", ","} THEN Tail(r) ELSE r
             IN  <<s[1]>> \o shorter[Tail(s)]
  IN  shorter[q]

\* No space before a comma or a closing bracket, none after a comma or an
\* opening one.
Squeeze(q) ==
  LET shorter[r \in Seq(STRING)] ==
        IF r = <<>> THEN <<>>
        ELSE LET s == IF r[1] = " " /\ At(r, 2) \in {")", ","} THEN Tail(r) ELSE r
                 next == IF s[1] \in {"(", ","} /\ At(s, 2) = " " THEN 3 ELSE 2
             IN  <<s[1]>> \o shorter[From(s, next)]
  IN  shorter[q]

removeSpaces(q) ==
  LET s == Squeeze(Collapse(q))
  IN  IF s # <<>> /\ Last(s) = " " THEN Front(s) ELSE s

----------------------------------------------------------------------------
(* Negative numbers.                                                       *)

\* The tokens, each with the separator it ends in, after which a minus is a sign.
BeforeSign == {<<w, " ">> : w \in {"select", "where", "and", "or", "not"}}

DropSign(q) ==
  IF IsPrefix(<<"-", "?">>, q) THEN From(q, 2)
  ELSE IF IsPrefix(<<"-", " ", "?">>, q) THEN From(q, 3)
  ELSE q

fixNegativeNumbers(q) ==
  LET shorter[r \in Seq(STRING)] ==
        LET next == Until(r, 1, {" ", ",", "("})
            last_token == SubSeq(r, 1, next)
            rest == From(r, next + 1)
            signed == r[next] \in {"(", ","} \/ last_token \in BeforeSign
        IN  IF next > Len(r) THEN r
            ELSE last_token \o shorter[IF signed THEN DropSign(rest) ELSE rest]
  IN  shorter[q]

----------------------------------------------------------------------------
(* The scanner.                                                            *)

\* get_q_string reads on after the opening delimiter: an escaped character and,
\* but for names in backticks, a doubled delimiter belong to the token.  The
\* position behind it.
get_q_string(q, start, delimiter) ==
  LET end[s \in Nat \X BOOLEAN] ==
        LET i == s[1]
            quoted == s[2]
        IN  IF i > Len(q) THEN i
            ELSE IF q[i] # delimiter \/ quoted THEN end[<<i + 1, q[i] = "\\" /\ ~quoted>>]
            ELSE IF delimiter \in Quote /\ At(q, i + 1) = delimiter THEN end[<<i + 2, FALSE>>]
            ELSE i + 1
  IN  end[<<start + 1, FALSE>>]

\* A bit string like b'01', which is read as one token: where its quotes are.
BitsOpen(q, i) == After(q, i + 1, Space)
BitsClose(q, i) == After(q, BitsOpen(q, i) + 1, Digit)
Bits(q, i) ==
  /\ q[i] = "b"
  /\ At(q, BitsOpen(q, i)) = "'"
  /\ BitsClose(q, i) > BitsOpen(q, i) + 1 /\ At(q, BitsClose(q, i)) = "'"

\* The position behind a comment: the first "*/", or the end of the text.
BlockEnd(q, i) ==
  Min({j \in i + 2..Len(q) + 1 : j > Len(q) \/ (j >= i + 4 /\ q[j - 2] = "*" /\ q[j - 1] = "/")})

\* A run of operators and spaces is one token; two dashes begin a comment, unless
\* the run is longer.
BasicOp == {"%", "+", "-", "~", "!"}
RunEnd(q, i) ==
  LET run == After(q, i + 1, BasicOp \cup Space)
  IN  IF q[i] = "-" /\ At(q, i + 1) = "-" THEN Max({run, AfterLine(q, i + 2)}) ELSE run

\* The position behind the token at i, when it is no literal.
TokenEnd(q, i) ==
  CASE q[i] = Backtick -> get_q_string(q, i, Backtick)
    [] q[i] = "#" -> AfterLine(q, i + 1)
    [] q[i] = "/" /\ At(q, i + 1) = "*" -> BlockEnd(q, i)
    [] q[i] \in BasicOp -> RunEnd(q, i)
    [] OTHER -> i + 1

\* The text with a "?" for each Q_STRING and DQ_STRING token of the scanner, and
\* for what is quoted in a bit string.
Scanned(q) ==
  LET rest[i \in Nat \ {0}] ==
        IF i > Len(q) THEN <<>>
        ELSE IF q[i] \in Quote THEN <<"?">> \o rest[get_q_string(q, i, q[i])]
        ELSE IF Bits(q, i)
             THEN SubSeq(q, i, BitsOpen(q, i) - 1) \o <<"?">> \o rest[BitsClose(q, i) + 1]
        ELSE SubSeq(q, i, TokenEnd(q, i) - 1) \o rest[TokenEnd(q, i)]
  IN  rest[1]
=============================================================================
