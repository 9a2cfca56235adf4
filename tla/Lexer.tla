------------------------------- MODULE Lexer --------------------------------
(***************************************************************************)
(* The lexer (src/lexing/lexer.c) on the files of a program, one after the *)
(* other as the module loader reads them, with the interners they share.   *)
(*                                                                         *)
(* A step is one turn of the loop of lexer_lex_all: whitespace and         *)
(* comments are skipped, a token is cut off, its text is interned, and the *)
(* token is pushed.  Positions in a text count from 1; a token is the text *)
(* from start up to, not including, end.                                   *)
(*                                                                         *)
(* Memory may be lacking in any step, at most failures times.              *)
(***************************************************************************)
EXTENDS Interner, LexicalGrammar

CONSTANTS
  Keywords,      \* the keyword table, in its order: [word, type]
  Programs       \* [texts: the files' texts, failures: how often memory may be lacking]

OtherTypes == {"IDENTIFIER", "INT_LIT", "FLOAT_LIT", "STRING_LIT", "CHAR_LIT", "OPERATOR", "UNKNOWN", "EOF"}

\* What an escape denotes is text too.
ASSUME EscapeAssumption == {"\n", "\t", "\r", "NUL"} \subseteq STRING

\* A word stands in the keyword table once, with a type no other token has.
ASSUME LexerAssumption ==
  /\ Keywords \in Seq([word : Seq(STRING), type : STRING \ OtherTypes])
  /\ \A i \in DOMAIN Keywords : IsWord(Keywords[i].word) /\ Keywords[i].type \notin Kinds
  /\ \A i, j \in DOMAIN Keywords : Keywords[i].word = Keywords[j].word => i = j
  /\ \A p \in Programs : p.texts \in Seq(Seq(STRING)) /\ p.texts # <<>> /\ p.failures \in Nat

VARIABLES
  program,
  tokens,        \* file |-> dynamic array of [type, start, end, from, to, record]
  at,            \* the cursor of the last file: [cur, line, col]
  phase,         \* "lexing", "done", or "failed" when tokens could not be pushed
  keywords, identifiers, strings,
  failures       \* failures left

vars == <<program, tokens, at, phase, keywords, identifiers, strings, failures>>

File == Len(tokens)
Text == program.texts[File]
TextLen == Len(Text)

-----------------------------------------------------------------------------
(* The cursor.                                                             *)

Start == [cur |-> 1, line |-> 1, col |-> 1]

Advance(a) ==
  IF a.cur > TextLen THEN a
  ELSE IF Text[a.cur] = "\n" THEN [cur |-> a.cur + 1, line |-> a.line + 1, col |-> 1]
  ELSE [a EXCEPT !.cur = @ + 1, !.col = @ + 1]

\* Mutant: the cursor is moved over a token without looking for its line breaks.
AdvanceToUncounted(a, p) == [a EXCEPT !.cur = p, !.col = @ + p - a.cur]

\* while (cur < p) lexer_advance
AdvanceTo(a, p) ==
  LET after[n \in 0..p - a.cur] == IF n = 0 THEN a ELSE Advance(after[n - 1])
  IN  after[p - a.cur]

At(p, S) == p <= TextLen /\ Text[p] \in S

\* the first position from p on whose character is not in S
PastAll(p, S) == CHOOSE q \in p..TextLen + 1 : ~At(q, S) /\ \A r \in p..q - 1 : At(r, S)

\* the first position from p on whose character is in S, or the end
FirstIn(p, S) ==
  CHOOSE q \in p..TextLen + 1 : (q > TextLen \/ At(q, S)) /\ \A r \in p..q - 1 : ~At(r, S)

\* past the first */ from p on, or the end
PastComment(p) ==
  LET ends == {q \in p..TextLen : At(q, {"*"}) /\ At(q + 1, {"/"})}
  IN  IF ends = {} THEN TextLen + 1 ELSE Min(ends) + 2

\* past the blank or the comment at p, if there is one
PastBlank(p) ==
  IF At(p, Blanks) THEN p + 1
  ELSE IF At(p, {"/"}) /\ At(p + 1, {"/"}) THEN FirstIn(p, {"\n"})
  ELSE IF At(p, {"/"}) /\ At(p + 1, {"*"}) THEN PastComment(p + 2)
  ELSE p

\* position |-> where the next token starts
SkipWhitespace ==
  LET skip[p \in 1..TextLen + 1] == IF PastBlank(p) = p THEN p ELSE skip[PastBlank(p)]
  IN  skip

-----------------------------------------------------------------------------
(* Tokens, as [type, end].                                                 *)

Lexeme(type, end) == [type |-> type, end |-> end]

Mantissa(p) == PastAll(p, Digits \cup {"_"})

\* past an exponent at p, if there is one
Exponent(p) ==
  IF ~At(p, {"e"}) THEN p
  ELSE Mantissa(IF At(p + 1, {"+", "-"}) THEN p + 2 ELSE p + 1)

\* Mutant: a dot belongs to the number whatever follows it.
LexNumberAnyDot(p) ==
  IF At(p, {"0"}) /\ At(p + 1, {"x"}) THEN Lexeme("INT_LIT", PastAll(p + 2, HexDigits \cup {"_"}))
  ELSE IF At(p, {"0"}) /\ At(p + 1, {"b"}) THEN Lexeme("INT_LIT", PastAll(p + 2, {"0", "1", "_"}))
  ELSE LET q == Mantissa(p)
       IN  IF At(q, {"."}) THEN Lexeme("FLOAT_LIT", Exponent(Mantissa(q + 1)))
           ELSE Lexeme("INT_LIT", q)

LexNumber(p) ==
  IF At(p, {"0"}) /\ At(p + 1, {"x"}) THEN Lexeme("INT_LIT", PastAll(p + 2, HexDigits \cup {"_"}))
  ELSE IF At(p, {"0"}) /\ At(p + 1, {"b"}) THEN Lexeme("INT_LIT", PastAll(p + 2, {"0", "1", "_"}))
  ELSE LET q == Mantissa(p)
       IN  IF At(q, {"."}) /\ At(q + 1, Digits)
           THEN Lexeme("FLOAT_LIT", Exponent(Mantissa(q + 1)))
           ELSE Lexeme("INT_LIT", q)

\* past the character of a string at q; a backslash takes the next with it
PastCharacter(q) == IF At(q, {"\\"}) /\ q < TextLen THEN q + 2 ELSE q + 1

\* position in a string |-> its closing quote, or the end
Closing ==
  LET close[q \in 1..TextLen + 1] ==
        IF q > TextLen \/ At(q, {Quote}) THEN q ELSE close[PastCharacter(q)]
  IN  close

LexString(p) ==
  LET q == Closing[p + 1]
  IN  IF q > TextLen THEN Lexeme("UNKNOWN", TextLen + 1) ELSE Lexeme("STRING_LIT", q + 1)

LexChar(p) ==
  LET q == IF At(p + 1, {"\\"}) THEN p + 2 ELSE p + 1   \* the character
  IN  IF q > TextLen THEN Lexeme("UNKNOWN", TextLen + 1)
      ELSE IF ~At(q + 1, {"'"}) THEN Lexeme("UNKNOWN", q + 1)
      ELSE Lexeme("CHAR_LIT", q + 2)

Follows(c) ==    \* what may stand second, for the cases of the switch
  CASE c = "+" -> {"+", "="} [] c = "-" -> {"-", "=", ">"} [] c = "&" -> {"&"} [] c = "|" -> {"|"}
    [] c \in {"=", "!", "<", ">", "*", "/", "%"} -> {"="} [] OTHER -> {}

LexOperator(p) ==
  IF ~At(p, Singles) THEN Lexeme("UNKNOWN", p + 1)
  ELSE Lexeme("OPERATOR", IF At(p + 1, Follows(Text[p])) THEN p + 2 ELSE p + 1)

Lex(p) ==
  IF p > TextLen THEN Lexeme("EOF", p)
  ELSE IF At(p, Alpha) THEN Lexeme("WORD", PastAll(p, Alpha \cup Digits))
  ELSE IF At(p, Digits) THEN LexNumber(p)
  ELSE IF At(p, {Quote}) THEN LexString(p)
  ELSE IF At(p, {"'"}) THEN LexChar(p)
  ELSE LexOperator(p)

-----------------------------------------------------------------------------
(* Records.                                                                *)

Means(c) == CASE c = "n" -> "\n" [] c = "t" -> "\t" [] c = "r" -> "\r" [] c = "0" -> "NUL" [] OTHER -> c

\* unescape_string_into_arena, of a text without its quotes
Unescaped(s) ==
  LET from[k \in 1..Len(s) + 1] ==
        IF k > Len(s) THEN <<>>
        ELSE IF s[k] # "\\" THEN <<s[k]>> \o from[k + 1]
        ELSE IF k = Len(s) THEN <<>>
        ELSE <<Means(s[k + 1])>> \o from[k + 2]
  IN  from[1]

Content(s) == Unescaped(SubSeq(s, 2, Len(s) - 1))

\* the token's type and record, and the interners afterwards
RecordOf(type, s, lacking) ==
  LET none == [type |-> type, record |-> NULL, identifiers |-> identifiers, strings |-> strings]
      name == Intern(identifiers, s, NULL, lacking)
      text == Intern(strings, Content(s), NULL, lacking)
  IN  CASE type = "WORD" /\ Peek(keywords, s) # NULL ->
             [none EXCEPT !.type = Peek(keywords, s).meta, !.record = Peek(keywords, s)]
        [] type = "WORD" /\ Peek(keywords, s) = NULL ->
             [none EXCEPT !.type = IF name.record = NULL THEN "UNKNOWN" ELSE "IDENTIFIER",
                          !.record = name.record, !.identifiers = name.interner]
        [] type = "STRING_LIT" -> [none EXCEPT !.record = text.record, !.strings = text.interner]
        [] OTHER -> none

-----------------------------------------------------------------------------
\* lexer_populate_default_keywords
KeywordTable ==
  LET after[n \in 0..Len(Keywords)] ==
        IF n = 0 THEN NewInterner
        ELSE Intern(after[n - 1], Keywords[n].word, Keywords[n].type, {}).interner
  IN  after[Len(Keywords)]

Init ==
  /\ program \in Programs
  /\ tokens = <<EmptyArray>>
  /\ at = Start /\ phase = "lexing"
  /\ keywords = KeywordTable
  /\ identifiers = NewInterner /\ strings = NewInterner
  /\ failures = program.failures

\* the parser, which stops the load, knows no UNKNOWN token
Readable == \A i \in DOMAIN tokens[File].items : tokens[File].items[i].type # "UNKNOWN"

\* create_token, between two places of the cursor
TokenBetween(from, to, r) ==
  [type |-> r.type, start |-> from.cur, end |-> to.cur,
   from |-> <<from.line, from.col>>, to |-> <<to.line, to.col>>, record |-> r.record]

\* The token is pushed and the cursor is behind it; at the end of a file the loader
\* goes on to the next.
PushToken(token, to, lacking) ==
  IF ~CanPush(tokens[File], "tokens" \notin lacking)
  THEN phase' = "failed" /\ at' = to /\ UNCHANGED tokens
  ELSE IF token.type = "EOF" /\ File < Len(program.texts) /\ Readable
  THEN /\ tokens' = [tokens EXCEPT ![File] = Pushed(@, token)] \o <<EmptyArray>>
       /\ at' = Start /\ UNCHANGED phase
  ELSE /\ tokens' = [tokens EXCEPT ![File] = Pushed(@, token)]
       /\ phase' = IF token.type = "EOF" THEN "done" ELSE "lexing"
       /\ at' = to

\* one turn of the loop
NextToken(lacking) ==
  /\ phase = "lexing"
  /\ \E from \in {AdvanceTo(at, SkipWhitespace[at.cur])} : \E lexeme \in {Lex(from.cur)} :
     \E to \in {AdvanceTo(from, lexeme.end)} :
     \E r \in {RecordOf(lexeme.type, SubSeq(Text, from.cur, lexeme.end - 1), lacking)} :
       /\ identifiers' = r.identifiers /\ strings' = r.strings
       /\ PushToken(TokenBetween(from, to, r), to, lacking)
  /\ failures' = failures - Cardinality(lacking)
  /\ UNCHANGED <<program, keywords>>

Next == \E lacking \in SUBSET Sites : Cardinality(lacking) <= failures /\ NextToken(lacking)

Spec == Init /\ [][Next]_vars

-----------------------------------------------------------------------------
(* Properties.                                                             *)

Pushes(f) == tokens[f].items
TextOf(f) == program.texts[f]
Written(f, t) == SubSeq(TextOf(f), t.start, t.end - 1)

\* the line and column of position p, counted in the text
Position(text, p) ==
  LET breaks == {i \in 1..p - 1 : text[i] = "\n"}
  IN  <<Cardinality(breaks) + 1, IF breaks = {} THEN p ELSE p - Max(breaks)>>

\* Nothing of a file is lost or read twice, and a report points at the right place:
\* the tokens follow each other in the text, what is between them is whitespace and
\* comments, the spans are the lines and columns of their ends, and a file that has
\* been lexed ends with its one EOF.  Every turn takes something, so the loop ends.
TokensTile ==
  \A f \in DOMAIN tokens : \A i \in DOMAIN Pushes(f) :
    LET t == Pushes(f)[i]
        before == IF i = 1 THEN 1 ELSE Pushes(f)[i - 1].end
        gap == SubSeq(TextOf(f), before, t.start - 1)
    IN  /\ before <= t.start
        /\ t.from = Position(TextOf(f), t.start) /\ t.to = Position(TextOf(f), t.end)
        /\ IF t.type = "EOF"
           THEN t.start = Len(TextOf(f)) + 1 /\ i = Len(Pushes(f)) /\ IsTail(gap)
           ELSE t.start < t.end /\ IsBlank(gap)

KindOf(t) == IF t.type \in Kinds THEN t.type ELSE "WORD"

\* Maximal munch: a token is the longest lexeme that starts where it does, and of its
\* kind; only where none starts there is an UNKNOWN, or where a name could not be
\* interned.
LongestMatch ==
  \A f \in DOMAIN tokens : \A i \in DOMAIN Pushes(f) :
    LET t == Pushes(f)[i]
        rest(q) == SubSeq(TextOf(f), t.start, q)
        longer == {q \in t.start..Len(TextOf(f)) : IsLexeme(rest(q))}
    IN  t.type # "EOF" =>
          IF t.type = "UNKNOWN"
          THEN longer = {} \/ (IsWord(Written(f, t)) /\ failures < program.failures)
          ELSE Is(KindOf(t), Written(f, t)) /\ t.end - 1 = Max(longer)

Places == UNION {{f} \X DOMAIN Pushes(f) : f \in DOMAIN tokens}
Token(x) == Pushes(x[1])[x[2]]
Spelling(x) == Written(x[1], Token(x))

Recorded(type) == {x \in Places : Token(x).type = type /\ Token(x).record # NULL}

OneRecordEach(I, type, text) ==
  \A x, y \in Recorded(type) :
    LET r == Token(x).record  s == Token(y).record
    IN  /\ r.id = s.id => text[x] = text[y]
        /\ EveryStringKept(I) /\ text[x] = text[y] => r.id = s.id
        /\ EveryRecordPushed(I) => Result(I, r.index) = r

\* A name is one pointer and one index in the whole program, whichever files it stands
\* in, and no two names share either, as long as no put was refused (pointers) and no
\* push failed (indices).  A keyword is never a name, nor anything else.  Two string literals share a
\* record when they denote the same text.
NamesAgree ==
  /\ OneRecordEach(identifiers, "IDENTIFIER", [x \in Places |-> Spelling(x)])
  /\ OneRecordEach(strings, "STRING_LIT", [x \in Places |-> Content(Spelling(x))])
  /\ \A x \in Places : \A k \in DOMAIN Keywords :
       Spelling(x) = Keywords[k].word => Token(x).type = Keywords[k].type

=============================================================================
