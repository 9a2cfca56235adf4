------------------------------ MODULE MCLexer -------------------------------
(* All texts over the characters that one part of the lexer tells apart, and programs *)
(* of two files whose names meet while memory is lacking.                             *)
EXTENDS Lexer

MCKeywords == <<[word |-> <<"f", "n">>, type |-> "FN"], [word |-> <<"i", "f">>, type |-> "IF"],
                [word |-> <<"a", "s">>, type |-> "AS"]>>

Over(S, n) == UNION {[1..k -> S] : k \in 0..n}

NumberTexts  == {h \o t : h \in {<<>>, <<"2", ".", "0">>}, t \in Over({"0", "2", "x", "b", "_", ".", "e", "-"}, 4)}
WordTexts    == Over({"a", "_", "1", "i", "f", "n", " "}, 4)
SignTexts    == Over(Singles \cup {"a", "1", " ", "#"}, 2) \cup Over({"+", "-", "=", ">", "&", "/", "*", "."}, 3)
CommentTexts == Over({"/", "*", "\n", " ", "a", "="}, 5)
QuoteTexts   == Over({"\"", "\\", "n", "'", "\n"}, 5)

Alone(texts) == {[texts |-> <<t>>, failures |-> 0] : t \in texts}

\* words with spaces between
Line(words) == FoldLeft(LAMBDA s, w : s \o <<" ">> \o w, <<>>, words)

Names == {<<"a">>, <<"b">>, <<"\"", "a", "\"">>, <<"\"", "\\", "a", "\"">>}

Shared == {[texts |-> <<Line(v), Line(w)>>, failures |-> n] :
             v \in [1..2 -> Names], w \in [1..2 -> Names], n \in {2}}

\* enough names to fill a table that cannot grow
Many == {[texts |-> <<Line(<<<<"a">>, <<"b">>, <<"c">>, <<"d">>, w, w>>)>>, failures |-> 3] :
           w \in {<<"a">>, <<"d">>, <<"e">>, <<"\"", "\"">>}}

MCPrograms == Alone(NumberTexts \cup WordTexts \cup SignTexts \cup CommentTexts \cup QuoteTexts)
                \cup Shared \cup Many

=============================================================================
