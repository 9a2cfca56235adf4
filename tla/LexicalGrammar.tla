--------------------------- MODULE LexicalGrammar ---------------------------
(***************************************************************************)
(* What the lexemes of newt are, as sets of strings and without a cursor:  *)
(* the reference that Lexer is compared with.  A text is a sequence of     *)
(* characters.                                                             *)
(***************************************************************************)
EXTENDS Naturals, Sequences, SequencesExt, FiniteSets

Quote     == "\""
Blanks    == {" ", "\t", "\n"}
Digits    == {"0", "1", "2", "3", "4", "5", "6", "7", "8", "9"}
HexDigits == Digits \cup {"a", "b", "c", "d", "e", "f"}
Alpha     == {"a", "b", "c", "d", "e", "f", "i", "n", "r", "s", "t", "x", "_"}

Singles == {"+", "-", "=", "!", "<", ">", "&", "|", "(", ")", "{", "}", "[", "]", ",",
            ";", ":", "@", "*", "/", "%", "."}

Doubles ==
  {<<c, "=">> : c \in {"+", "-", "*", "/", "%", "=", "!", "<", ">"}}
    \cup {<<"+", "+">>, <<"-", "-">>, <<"&", "&">>, <<"|", "|">>, <<"-", ">">>}

-----------------------------------------------------------------------------
AllIn(s, S) == \A i \in DOMAIN s : s[i] \in S
From(s, k)  == SubSeq(s, k, Len(s))

IsWord(s) == s # <<>> /\ s[1] \in Alpha /\ AllIn(s, Alpha \cup Digits)

Figures(s) == s # <<>> /\ s[1] \in Digits /\ AllIn(s, Digits \cup {"_"})

IsInteger(s) ==
  \/ Figures(s)
  \/ Len(s) >= 2 /\ s[1] = "0" /\ s[2] = "x" /\ AllIn(From(s, 3), HexDigits \cup {"_"})
  \/ Len(s) >= 2 /\ s[1] = "0" /\ s[2] = "b" /\ AllIn(From(s, 3), {"0", "1", "_"})

\* an exponent belongs to a number that has a fraction
IsExponent(s) ==
  /\ s # <<>> /\ s[1] = "e"
  /\ \/ AllIn(From(s, 2), Digits \cup {"_"})
     \/ Len(s) >= 2 /\ s[2] \in {"+", "-"} /\ AllIn(From(s, 3), Digits \cup {"_"})

IsFraction(s) ==
  \E k \in 1..Len(s) :
    /\ s[k] = "." /\ Figures(SubSeq(s, 1, k - 1))
    /\ \E m \in k + 1..Len(s) :
         Figures(SubSeq(s, k + 1, m)) /\ (m = Len(s) \/ IsExponent(From(s, m + 1)))

\* the character at i is taken literally: an odd number of backslashes before it
Escaped(s, i) ==
  \E k \in 0..i - 1 :
    /\ k % 2 = 1 /\ \A j \in i - k..i - 1 : s[j] = "\\"
    /\ (i - k = 1 \/ s[i - k - 1] # "\\")

IsString(s) ==
  /\ Len(s) >= 2 /\ s[1] = Quote /\ s[Len(s)] = Quote /\ ~Escaped(s, Len(s))
  /\ \A i \in 2..Len(s) - 1 : s[i] = Quote => Escaped(s, i)

IsCharacter(s) ==
  /\ s # <<>> /\ s[1] = "'" /\ s[Len(s)] = "'"
  /\ Len(s) = (IF Len(s) > 1 /\ s[2] = "\\" THEN 4 ELSE 3)

IsOperator(s) == (Len(s) = 1 /\ s[1] \in Singles) \/ s \in Doubles

Kinds == {"WORD", "INT_LIT", "FLOAT_LIT", "STRING_LIT", "CHAR_LIT", "OPERATOR"}

Is(kind, s) ==
  CASE kind = "WORD" -> IsWord(s)           [] kind = "INT_LIT" -> IsInteger(s)
    [] kind = "FLOAT_LIT" -> IsFraction(s)  [] kind = "STRING_LIT" -> IsString(s)
    [] kind = "CHAR_LIT" -> IsCharacter(s)  [] OTHER -> IsOperator(s)

IsLexeme(s) == \E kind \in Kinds : Is(kind, s)

-----------------------------------------------------------------------------
(* What stands between lexemes.                                            *)

Starts(s, a, b) == Len(s) >= 2 /\ s[1] = a /\ s[2] = b

LineComment(s) == Starts(s, "/", "/") /\ \A i \in 1..Len(s) - 1 : s[i] # "\n"

\* ends at its first */
BlockComment(s) ==
  /\ Starts(s, "/", "*") /\ Len(s) >= 4
  /\ {i \in 3..Len(s) - 1 : s[i] = "*" /\ s[i + 1] = "/"} = {Len(s) - 1}

\* one blank, or a finished comment
IsBlankPiece(s) ==
  \/ Len(s) = 1 /\ s[1] \in Blanks
  \/ LineComment(s) /\ s[Len(s)] = "\n"
  \/ BlockComment(s)

\* nothing but such pieces, from each cut to a later one
IsBlank(s) ==
  \E cuts \in SUBSET (1..Len(s) + 1) :
    /\ {1, Len(s) + 1} \subseteq cuts
    /\ \A k \in cuts \ {Len(s) + 1} : \E m \in cuts : m > k /\ IsBlankPiece(SubSeq(s, k, m - 1))

\* the end of the file finishes a comment of either kind
Unfinished(s) ==
  \/ LineComment(s) /\ Last(s) # "\n"
  \/ Starts(s, "/", "*") /\ \A i \in 3..Len(s) - 1 : ~(s[i] = "*" /\ s[i + 1] = "/")

IsTail(s) == IsBlank(s) \/ \E k \in DOMAIN s : IsBlank(SubSeq(s, 1, k - 1)) /\ Unfinished(From(s, k))

=============================================================================
