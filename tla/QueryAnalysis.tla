---------------------------- MODULE QueryAnalysis ----------------------------
(***************************************************************************)
(* What check_query finds out about a query before it decides: its pattern *)
(* (normalizeQuery) and its risk (query_parse and calculateRisk).          *)
(*                                                                         *)
(* A query is given by a derivation in the grammar of sql.ypp, a SELECT    *)
(* with a list of conditions, and a style that says how it is written: the *)
(* spaces, the spelling of its literals, a comment.  Its text is what the  *)
(* passes of Normalization work on.  The parser is modelled by the actions *)
(* that the rules of the derivation run, in the order in which an LALR     *)
(* parser reduces, by going through its operands from left to right.       *)
(***************************************************************************)
EXTENDS Normalization, FiniteSets

CONSTANTS
  Query,       \* the queries to analyse: derivations with a style
  RawText,     \* texts that are only normalized
  Bruteforce,  \* functions of the section "bruteforce functions"
  Sensitive,   \* tables of the section "sensitive tables"
  Weight       \* the risk configured for each flag, re_...

Flag == {"has_or", "has_comment", "has_tautology", "has_empty_pwd", "has_s_table",
         "has_bruteforce_function"}

----------------------------------------------------------------------------
(* Derivations.  An expression (math_exp) is a sequence of operands, added *)
(* up; a condition (logical_exp) has a kind and its expressions:           *)
(*   "alone" one; "compare" two; "chain" three, compared in a row;         *)
(*   "between" three; "in" one and the elements of a list.                 *)

Literal == {"int", "dec", "str", "empty"}   \* "empty" is a string without characters
Function == {"now"}                  \* written now(), without arguments
Constant == Literal \cup Function
PwdName == {"pwd", "pass", "password"}

\* How many objects a clause has on the parser's stack when it is read.  The
\* elements of a list share one.
Parts(kind) == CASE kind \in {"alone", "select"} -> 1
                 [] kind \in {"compare", "in"} -> 2
                 [] kind \in {"chain", "between"} -> 3

Condition ==
  {c \in [kind : {"alone", "compare", "chain", "between", "in"},
          exps : Seq(Seq(STRING) \ {<<>>})] :
     Len(c.exps) = Parts(c.kind) \/ (c.kind = "in" /\ Len(c.exps) > 2)}

Insert(sep, seqs) == FoldLeft(LAMBDA acc, s : IF acc = <<>> THEN s ELSE acc \o sep \o s,
                              <<>>, seqs)
Exp(m) == Insert(<<"+">>, [i \in DOMAIN m |-> <<m[i]>>])

CondTokens(c) ==
  LET e == [i \in DOMAIN c.exps |-> Exp(c.exps[i])]
  IN  CASE c.kind \in {"alone", "compare", "chain"} -> Insert(<<"=">>, e)
        [] c.kind = "between" -> e[1] \o <<"between">> \o e[2] \o <<"and">> \o e[3]
        [] c.kind = "in" -> e[1] \o <<"in", "(">> \o Insert(<<",">>, Tail(e)) \o <<")">>

\* The tokens of a query: select 5, 5 from t where [not] c1 or c2 ...
Tokens(q) ==
  <<"select", "int", ",", "int", "from", "t", "where">>
    \o (IF q.negated THEN <<"not">> ELSE <<>>)
    \o Insert(<<"or">>, [i \in DOMAIN q.conds |-> CondTokens(q.conds[i])])

----------------------------------------------------------------------------
(* Texts.  A style has two gaps (texts of spaces) that take turns, two     *)
(* loose gaps for where a space is optional, spellings for the literals, a *)
(* sign for numbers, a comment before "where" and a tail.                  *)

Signed == {"select", "where", "and", "or", "not", "(", ","}
Loose(before, after) == before \in {"(", ","} \/ after \in {")", ","}

Word(q, i) ==
  LET t == Tokens(q)[i]
      sign == IF t = "int" /\ Tokens(q)[i - 1] \in Signed THEN q.style.sign ELSE <<>>
  IN  IF t \in Literal THEN sign \o q.style.spell[t]
      ELSE IF t \in Function THEN <<t, "(", ")">>
      ELSE <<t>>

Gap(q, i) ==
  LET before == Tokens(q)[i]
      after == Tokens(q)[i + 1]
      turn == 1 + (i % 2)
  IN  IF Loose(before, after) THEN q.style.loose[turn]
      ELSE IF after = "where" THEN q.style.gap[turn] \o q.style.comment \o q.style.gap[turn]
      ELSE q.style.gap[turn]

Text(q) ==
  LET n == Len(Tokens(q))
  IN  FlattenSeq([i \in 1..n |-> Word(q, i) \o IF i = n THEN q.style.tail ELSE Gap(q, i)])

\* The pattern of a query, whatever its style but for the kind of its comment:
\* each literal is a "?", a gap is one space, and there is none beside a comma or
\* inside brackets.
CommentMark(q) ==
  IF q.style.comment = <<>> THEN <<>>
  ELSE CASE q.style.comment[1] = "/" -> <<"/", "*", " ", "*", "/", " ">>
         [] q.style.comment[1] = "-" -> <<"-", "-", " ">>
         [] q.style.comment[1] = "#" -> <<"#", " ">>

Pattern(q) ==
  LET T == Tokens(q)
      W(i) == IF T[i] \in Literal THEN <<"?">>
              ELSE IF T[i] \in Function THEN <<T[i], "(", ")">> ELSE <<T[i]>>
      G(i) == IF i = Len(T) \/ Loose(T[i], T[i + 1]) THEN <<>>
              ELSE IF T[i + 1] = "where" THEN <<" ">> \o CommentMark(q) ELSE <<" ">>
  IN  FlattenSeq([i \in DOMAIN T |-> W(i) \o G(i)])

ASSUME QueryAnalysisAssumption ==
  /\ Weight \in [Flag -> Nat] /\ Bruteforce \subseteq Function
  /\ RawText \subseteq Seq(STRING) \ {<<>>}
  /\ \A q \in Query : q.conds \in Seq(Condition) /\ Text(q) \in Seq(STRING)

----------------------------------------------------------------------------

VARIABLES
  query,        \* the derivation, None for a raw text
  original_query,  \* the text
  pattern,      \* the text the passes have reached
  pc,           \* the next step of check_query
  clause,       \* where the parser is: the clause, 0 for the list after select,
  exp,          \* its expression, ...
  operand,      \* ... and how many operands of it are read
  stack,        \* the objects of the parser's stack
  expressions,  \* Expression::expressions: the objects that exist
  made,         \* how many objects were made
  flags,        \* the flags of query_risk that are set
  risk          \* the result of calculateRisk

parser == <<clause, exp, operand, stack, expressions, made>>
vars == <<query, original_query, pattern, pc, parser, flags, risk>>

None == [conds |-> <<>>]

Init ==
  /\ \/ query \in Query /\ original_query = Text(query)
     \/ query = None /\ original_query \in RawText
  /\ pattern = original_query
  /\ pc = "removeQuotedText"
  /\ clause = 0 /\ exp = 1 /\ operand = 0
  /\ stack = <<>> /\ expressions = <<>> /\ made = 0
  /\ flags = {} /\ risk = 0

----------------------------------------------------------------------------
(* normalizeQuery.                                                         *)

Pass(this, next, result) ==
  /\ pc = this /\ pc' = next /\ pattern' = result
  /\ UNCHANGED <<query, original_query, parser, flags, risk>>

normalizeQuery ==
  \/ Pass("removeQuotedText", "removeComments", removeQuotedText(pattern))
  \/ Pass("removeComments", "removeNumbers", removeComments(pattern))
  \/ Pass("removeNumbers", "removeSpaces", removeNumbers(pattern))
  \/ Pass("removeSpaces", "fixNegativeNumbers", removeSpaces(pattern))
  \/ Pass("fixNegativeNumbers", IF query = None THEN "done" ELSE "query_parse",
          fixNegativeNumbers(pattern))

----------------------------------------------------------------------------
(* Expression.                                                             *)

Expression == [fields |-> {}, has_const |-> 0, str_length |-> 0, const_type |-> "Undef"]

AddField(x, name) == [x EXCEPT !.fields = @ \cup {name}]

AddConst(x) == [x EXCEPT !.has_const = 1, !.const_type = "Integer"]

AddString(x, length) ==
  [x EXCEPT !.has_const = 1, !.const_type = "String", !.str_length = length]

\* Mutant: whether there is a constant is not taken over.
Add_FieldsOnly(x, y) == [x EXCEPT !.fields = @ \cup y.fields]

\* The fields and the constants of the second; the type of the first stays.
Add(x, y) ==
  [x EXCEPT
     !.fields = @ \cup y.fields,
     !.has_const = IF y.has_const = 1 THEN 1 ELSE @,
     !.str_length = IF y.has_const = 1 /\ y.const_type = "String" /\ y.str_length > @
                    THEN y.str_length ELSE @]

\* Two expressions of constants compare equal, whatever the constants are.
Comp(x, y) ==
  /\ Cardinality(x.fields) = Cardinality(y.fields)
  /\ x.fields = {} \/ (x.fields \subseteq y.fields /\ x.has_const = y.has_const)

IsTrue(x) == x.fields = {} /\ x.has_const = 1

IsEmptyPwd(x, y) ==
  /\ y.const_type = "String" /\ y.str_length = 0 /\ y.fields = {}
  /\ x.const_type = "Undef" /\ \E name \in PwdName : x.fields = {name}

cmp_fn(x, y) ==
  IF Comp(x, y) THEN {"has_tautology"}
  ELSE IF IsEmptyPwd(x, y) THEN {"has_empty_pwd"} ELSE {}

----------------------------------------------------------------------------
(* query_parse.                                                            *)

\* The object of an operand: a simple function counts as the string "fn()".
Object(name) ==
  CASE name \in {"int", "dec"} -> AddConst(Expression)
    [] name = "str" -> AddString(Expression, 1)
    [] name = "empty" -> AddString(Expression, 0)
    [] name \in Function -> AddString(Expression, 4)
    [] OTHER -> AddField(Expression, name)

\* The flags that a condition of a kind sets, x being its expressions.
Found(kind, x) ==
  CASE kind = "alone" -> IF IsTrue(x[1]) THEN {"has_tautology"} ELSE {}
    [] kind = "chain" -> {"has_tautology"}
    [] kind \in {"compare", "in"} -> cmp_fn(x[1], x[2])
    [] kind = "between" -> cmp_fn(x[1], x[2]) \cup cmp_fn(x[1], x[3])

Push(object) ==
  /\ made' = made + 1
  /\ stack' = Append(stack, made')
  /\ expressions' = [i \in DOMAIN expressions \cup {made'} |->
                       IF i = made' THEN object ELSE expressions[i]]

\* What the parser is reading: the list "5, 5" after select, or a condition.
SelectList == [kind |-> "select", exps |-> <<<<"int">>, <<"int">>>>]
Clause == IF clause = 0 THEN SelectList ELSE query.conds[clause]

\* The scanner has no decimals: it reads 5.0 as a number, a dot and a number,
\* and the dot after the first of them is an error, at which the parser stops.
SyntaxError == operand > 0 /\ Clause.exps[exp][operand] = "dec"
Parsing == pc = "query_parse" /\ clause <= Len(query.conds) /\ ~SyntaxError

\* field, and "math_exp BASIC_OP field": the object of an operand but the first
\* is added to that of the expression and deleted.
field ==
  /\ Parsing /\ exp <= Len(Clause.exps) /\ operand < Len(Clause.exps[exp])
  /\ LET name == Clause.exps[exp][operand + 1]
     IN  /\ \/ operand = 0 /\ Push(Object(name))
            \/ /\ operand > 0 /\ made' = made + 1
               /\ expressions' = [expressions EXCEPT ![Last(stack)] = Add(@, Object(name))]
               /\ UNCHANGED stack
         /\ flags' = flags \cup IF name \in Bruteforce
                                THEN {"has_bruteforce_function"} ELSE {}
  /\ operand' = operand + 1
  /\ UNCHANGED <<query, original_query, pattern, pc, clause, exp, risk>>

\* math_exp is read, and the token behind it.  An element of a list is added to
\* the elements before it (fn_args, select_exps).
math_exp ==
  /\ Parsing /\ exp <= Len(Clause.exps) /\ operand = Len(Clause.exps[exp])
  /\ \/ exp <= Parts(Clause.kind) /\ UNCHANGED <<stack, expressions>>
     \/ LET top == Len(stack)
        IN  /\ exp > Parts(Clause.kind)
            /\ expressions' = [i \in DOMAIN expressions \ {stack[top]} |->
                                 IF i = stack[top - 1]
                                 THEN Add(expressions[i], expressions[stack[top]])
                                 ELSE expressions[i]]
            /\ stack' = Front(stack)
  /\ exp' = exp + 1 /\ operand' = 0
  /\ UNCHANGED <<query, original_query, pattern, pc, clause, made, flags, risk>>

\* The parser goes on with the next clause.
NextClause == clause' = clause + 1 /\ exp' = 1 /\ operand' = 0

\* "from t", a comment that the scanner reports, and "where".
simple_table ==
  /\ Parsing /\ clause = 0 /\ exp > Len(Clause.exps)
  /\ Push(AddField(Expression, "t"))
  /\ flags' = flags \cup (IF "t" \in Sensitive THEN {"has_s_table"} ELSE {})
                    \cup (IF query.style.comment # <<>> THEN {"has_comment"} ELSE {})
  /\ NextClause
  /\ UNCHANGED <<query, original_query, pattern, pc, risk>>

\* A condition is reduced when the token behind it is read, an "or" unless it is
\* the last.
logical_exp ==
  /\ Parsing /\ clause > 0 /\ exp > Len(Clause.exps)
  /\ LET n == Parts(Clause.kind)
         below == Len(stack) - n
         x == [i \in 1..n |-> expressions[stack[below + i]]]
     IN  /\ flags' = flags \cup Found(Clause.kind, x)
                      \cup (IF clause < Len(query.conds) THEN {"has_or"} ELSE {})
         /\ stack' = SubSeq(stack, 1, below)
  /\ NextClause
  /\ UNCHANGED <<query, original_query, pattern, pc, expressions, made, risk>>

yyparse == field \/ math_exp \/ simple_table \/ logical_exp

\* The parser accepts, or has given up; the objects that are left are deleted.
free_expressions ==
  /\ pc = "query_parse" /\ (SyntaxError \/ clause > Len(query.conds))
  /\ pc' = "calculateRisk"
  /\ expressions' = <<>> /\ stack' = <<>>
  /\ UNCHANGED <<query, original_query, pattern, clause, exp, operand, made, flags, risk>>

TotalWeight(set) == MapThenSumSet(LAMBDA f : Weight[f], set)

calculateRisk ==
  /\ pc = "calculateRisk" /\ pc' = "done"
  /\ risk' = TotalWeight(flags)
  /\ UNCHANGED <<query, original_query, pattern, parser, flags>>

Next == normalizeQuery \/ yyparse \/ free_expressions \/ calculateRisk

Spec == Init /\ [][Next]_vars

----------------------------------------------------------------------------
(* Properties.                                                             *)

\* Two queries that differ in their literals, their spaces and the words of a
\* comment have the same pattern: the whitelist knows a query again whatever
\* its numbers and strings are.
CanonicalPattern ==
  query # None /\ pc \in {"query_parse", "calculateRisk", "done"}
    => pattern = Pattern(query)

\* removeQuotedText takes for literals what the scanner of the parser takes for
\* literals, doubled and escaped delimiters, literals without an end and comments
\* between them included: a pattern has the tokens of the query whose risk is
\* calculated.  Their readings differ, and nothing is said here, when the scanner
\* passes over a quote or a backslash in a comment, in a name in backticks or,
\* a backslash, outside of both, and when a second "'" stands behind a bit string.
Apart(q) ==
  LET scanned == Scanned(q)
  IN  \/ \E i \in DOMAIN scanned : scanned[i] \in Quote \cup {"\\"}
      \/ \E i \in DOMAIN q : Bits(q, i) /\ At(q, BitsClose(q, i) + 1) = "'"

LiteralsAgree ==
  pc = "removeComments" /\ ~Apart(original_query) => pattern = Scanned(original_query)

\* What the operands of a condition say of it, all at once: those of an
\* expression, or of the expressions of a list.
All(m) == {m[i] : i \in DOMAIN m}
AllOf(list) == UNION {All(list[i]) : i \in DOMAIN list}

AlwaysTrue(left, right) ==
  LET l == AllOf(left)
      r == AllOf(right)
  IN  /\ l \ Constant = r \ Constant
      /\ l \subseteq Constant \/ (l \cap Constant = {} <=> r \cap Constant = {})

\* The list of an expression that is compared with the empty password begins with
\* it and has no longer string, but for one that stands behind a number: Add looks
\* at the type an element has from its first operand.
EmptyPwd(left, right) ==
  /\ left[1][1] \in PwdName /\ AllOf(left) \ Constant = {left[1][1]}
  /\ right[1][1] = "empty" /\ AllOf(right) \subseteq Constant
  /\ \A i \in DOMAIN right :
       right[i][1] \in {"int", "dec"} \/ All(right[i]) \cap ({"str"} \cup Function) = {}

Pairs(c) ==
  LET pair(i) == <<<<c.exps[1]>>, <<c.exps[i]>>>>
  IN  CASE c.kind = "compare" -> {pair(2)}
        [] c.kind = "between" -> {pair(2), pair(3)}
        [] c.kind = "in" -> {<<<<c.exps[1]>>, Tail(c.exps)>>}
        [] OTHER -> {}

Tautology(c) ==
  \/ c.kind = "chain"
  \/ c.kind = "alone" /\ All(c.exps[1]) \subseteq Constant
  \/ \E p \in Pairs(c) : AlwaysTrue(p[1], p[2])

Conditions(q) == {q.conds[i] : i \in DOMAIN q.conds}
Operands(q) == UNION {AllOf(c.exps) : c \in Conditions(q)}

Expected(q) ==
  {f \in Flag :
     CASE f = "has_or" -> Len(q.conds) > 1
       [] f = "has_comment" -> q.style.comment # <<>>
       [] f = "has_s_table" -> "t" \in Sensitive
       [] f = "has_bruteforce_function" -> Operands(q) \cap Bruteforce # {}
       [] f = "has_tautology" -> \E c \in Conditions(q) : Tautology(c)
       [] f = "has_empty_pwd" ->
            \E c \in Conditions(q) : \E p \in Pairs(c) : EmptyPwd(p[1], p[2])}

\* The flags that the parser collects while it merges and deletes objects are
\* those the conditions deserve as a whole, in whatever order their operands
\* come, and the risk adds up the weights of just these.  Where the parser gives
\* up it may miss some, and never invents one.
RiskByReference ==
  query # None /\ pc \in {"calculateRisk", "done"} =>
    /\ flags \subseteq Expected(query)
    /\ "dec" \notin Operands(query) => flags = Expected(query)
    /\ pc = "done" => risk = TotalWeight(flags)
=============================================================================
