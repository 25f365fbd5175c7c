-------------------------- MODULE MCQueryAnalysis --------------------------
(* An instance of QueryAnalysis for TLC. *)
EXTENDS QueryAnalysis

CONSTANTS
  RawLength,   \* longest raw text after "select" and a quote or a "b"
  RawPieces    \* pieces of other raw texts

MCOperand == {"a", "pwd", "int", "str", "empty", "now"}

\* One operand, or two added up.
MCExp == {<<x>> : x \in MCOperand} \cup
         {<<"a", "int">>, <<"int", "a">>, <<"pwd", "int">>, <<"int", "pwd">>, <<"a", "pwd">>,
          <<"empty", "int">>, <<"int", "empty">>, <<"empty", "str">>, <<"int", "str">>, <<"int", "int">>}

Cond(kind, exps) == [kind |-> kind, exps |-> exps]

MCCond ==
  {Cond("alone", <<e>>) : e \in MCExp} \cup
  {Cond("compare", <<e, f>>) : e \in MCExp, f \in MCExp} \cup
  {Cond("in", <<<<"pwd">>, <<x>>, <<y>>>>) : x \in MCOperand, y \in MCOperand} \cup
  {Cond("between", <<e, <<x>>, <<y>>>>) :
     e \in {<<"pwd">>, <<"int">>}, x \in MCOperand, y \in MCOperand} \cup
  {Cond("in", <<<<"pwd">>, e, f>>) : e \in MCExp, f \in MCExp} \cup
  {Cond("chain", <<<<"a">>, <<"int">>, <<"str">>>>),
   Cond("compare", <<<<"a">>, <<"dec">>>>),
   Cond("in", <<<<"a">>, <<"int">>, <<"dec">>>>)}

MCStyle ==
  {[gap |-> g[1], loose |-> g[2], sign |-> sign, spell |-> spell,
    comment |-> c[1], tail |-> c[2]] :
     g \in {<<<<<<" ">>, <<" ">>>>, <<<<>>, <<>>>>>>,
            <<<<<<" ", " ">>, <<"\n">>>>, <<<<" ">>, <<>>>>>>,
            <<<<<<"\n", " ">>, <<" ", " ", " ">>>>, <<<<"\n">>, <<" ", " ">>>>>>},
     sign \in {<<>>, <<"-">>, <<"-", "\n">>},
     spell \in
       {[int |-> <<"5">>, dec |-> <<"5", ".", "5">>, str |-> <<"'", "w", "'">>,
         empty |-> <<"'", "'">>],
        [int |-> <<"0", "x", "5", "f">>, dec |-> <<"0", ".">>,
         str |-> <<"\"", "\\", "\"", " ", "'", "\"">>, empty |-> <<"\"", "\"">>],
        [int |-> <<"5", "0">>, dec |-> <<"5", "0", ".", "0">>,
         str |-> <<"'", "5", "'", "'", ",", " ", "'">>, empty |-> <<"'", "'">>]},
     c \in {<<<<>>, <<>>>>, <<<<"/", "*", "w", " ", "*", "/">>, <<" ">>>>,
            <<<<"-", "-", "w", "\n">>, <<"\n">>>>, <<<<"#", " ", "5", "\n", "\n">>, <<>>>>}}

Derivation(negated, conds, style) == [negated |-> negated, conds |-> conds, style |-> style]

MCPlain == CHOOSE s \in MCStyle : s.sign = <<>> /\ s.comment = <<>> /\ s.gap[1] = <<" ">>

\* Every condition in one style, a few in every style, some lists of two.
MCQuery ==
  {Derivation(FALSE, <<c>>, MCPlain) : c \in MCCond} \cup
  {Derivation(negated, <<c, d>>, s) :
     negated \in BOOLEAN, s \in MCStyle,
     c \in {Cond("compare", <<<<"int">>, <<"a">>>>), Cond("compare", <<<<"pwd">>, <<"str">>>>),
            Cond("in", <<<<"a">>, <<"int">>, <<"empty">>>>)},
     d \in {Cond("between", <<<<"a">>, <<"str">>, <<"int">>>>),
            Cond("compare", <<<<"int", "a">>, <<"dec">>>>),
            Cond("compare", <<<<"now">>, <<"empty", "int">>>>)}}

\* What begins and ends comments, names, literals and runs of operators.
MCPiece == {<<"/", "*">>, <<"*", "/">>, <<"-", "-">>, <<"+">>, <<"#">>, <<"\n">>, <<Backtick>>,
            <<"w">>, <<"'">>, <<"\"">>, <<"'", "w", "'">>}

MCRawText ==
  {<<"select", " ", d>> \o body :
     d \in Quote, body \in BoundedSeq({"'", "\"", "\\", "w"}, RawLength)} \cup
  {<<"select", " ">> \o FlattenSeq(body) : body \in BoundedSeq(MCPiece, RawPieces)} \cup
  {<<"select", " ", "b">> \o body : body \in BoundedSeq({"0", "'", " ", "\n"}, RawLength)}

MCWeight == [has_or |-> 5, has_comment |-> 30, has_tautology |-> 40, has_empty_pwd |-> 30,
             has_s_table |-> 10, has_bruteforce_function |-> 2]
=============================================================================
