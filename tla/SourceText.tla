----------------------------- MODULE SourceText -----------------------------
(***************************************************************************)
(* How a syntax tree is written down, with the parentheses that precedence *)
(* and the nesting of types ask for and no others.  This is what the       *)
(* parser is compared with: it knows nothing of look-ahead.                *)
(*                                                                         *)
(* Marks are written between the tokens: before a binary operator, after   *)
(* the type of a cast and before the block of a condition.  They tell what *)
(* a token was meant for, and are left out of the text (ProgramText).      *)
(***************************************************************************)
EXTENDS Naturals, Sequences, SequencesExt

None == <<"none">>

Operator  == "[operator]"
CastEnd   == "[cast end]"
BlockMark == "[block]"
Marks == {Operator, CastEnd, BlockMark}

\* Expressions from the loosest to the tightest: assignment 0, the binary
\* operators 1 to 6, casts 7, prefix operators 8, all others 9.
Precedence(op) ==
  CHOOSE p \in 1..6 :
    op \in << {"||"}, {"&&"}, {"==", "!="}, {"<", ">", "<=", ">="},
              {"+", "-"}, {"*", "/", "%"} >>[p]
Tightness(e) ==
  CASE e[1] = "assign" -> 0
    [] e[1] = "binary" -> Precedence(e[2])
    [] e[1] = "cast" -> 7
    [] e[1] = "unary" -> 8
    [] OTHER -> 9

RECURSIVE TypeText(_), ArrayText(_, _), ExprText(_), StatementText(_)

Optional(before, node, Text(_)) == IF node = None THEN <<>> ELSE before \o Text(node)
Parens(text) == <<"(">> \o text \o <<")">>
Listed(texts) ==
  FlattenSeq([i \in DOMAIN texts |-> IF i = 1 THEN texts[i] ELSE <<",">> \o texts[i]])
Word(x) == <<x>>

PathText(p) == ExprText(p)
TypesText(ts) == Listed([i \in DOMAIN ts |-> TypeText(ts[i])])

TypeText(t) ==
  CASE t[1] = "named" -> PathText(t[2])
    [] t[1] = "apply" ->
         (IF t[2][1] = "named" THEN TypeText(t[2]) ELSE Parens(TypeText(t[2])))
           \o <<"<">> \o TypesText(t[3]) \o <<">">>
    [] t[1] = "ptr" -> <<"*">> \o TypeText(t[2])
    [] t[1] = "array" -> ArrayText(t, <<>>)
    [] t[1] = "fntype" ->
         <<"fn">> \o Parens(TypesText(t[2])) \o Optional(<<"->">>, t[3], TypeText)

\* The outermost dimension is written first.
ArrayText(t, brackets) ==
  IF t[1] = "array"
  THEN ArrayText(t[2], brackets \o <<"[">> \o Optional(<<>>, t[3], ExprText) \o <<"]">>)
  ELSE (IF t[1] \in {"ptr", "fntype"} THEN Parens(TypeText(t)) ELSE TypeText(t)) \o brackets

-----------------------------------------------------------------------------
AtLeast(tightness, e) == IF Tightness(e) < tightness THEN Parens(ExprText(e)) ELSE ExprText(e)

IsType(n) == n[1] \in {"named", "apply", "ptr", "array", "fntype"}
ArgumentsText(args) ==
  Listed([i \in DOMAIN args |-> IF IsType(args[i]) THEN TypeText(args[i]) ELSE ExprText(args[i])])

ExprText(e) ==
  CASE e[1] \in {"name", "lit"} -> <<e[2]>>
    [] e[1] = "assign" -> AtLeast(1, e[3]) \o <<e[2]>> \o ExprText(e[4])
    [] e[1] = "binary" ->
         AtLeast(Precedence(e[2]), e[3]) \o <<Operator, e[2]>> \o AtLeast(Precedence(e[2]) + 1, e[4])
    [] e[1] = "cast" -> AtLeast(7, e[2]) \o <<"as">> \o TypeText(e[3]) \o <<CastEnd>>
    [] e[1] = "unary" -> <<e[2]>> \o AtLeast(8, e[3])
    [] e[1] = "postfix" -> AtLeast(9, e[3]) \o <<e[2]>>
    [] e[1] = "inst" -> AtLeast(9, e[2]) \o <<"<">> \o TypesText(e[3]) \o <<">">>
    [] e[1] = "index" -> AtLeast(9, e[2]) \o <<"[">> \o ExprText(e[3]) \o <<"]">>
    [] e[1] = "call" -> AtLeast(9, e[2]) \o Parens(ArgumentsText(e[3]))
    [] e[1] = "member" -> AtLeast(9, e[2]) \o <<".", e[3]>>
    [] e[1] = "structlit" ->
         AtLeast(9, e[2]) \o <<"{">>
           \o Listed([i \in DOMAIN e[3] |-> <<e[3][i][1], ":">> \o ExprText(e[3][i][2])]) \o <<"}">>
    [] e[1] = "intrinsic" -> <<"@", e[2]>> \o Parens(ArgumentsText(e[3]))
    [] e[1] = "init" -> <<"{">> \o ArgumentsText(e[2]) \o <<"}">>

-----------------------------------------------------------------------------
FieldText(f) == <<f[1], ":">> \o TypeText(f[2])
VarText(v) ==
  (IF v[2] THEN <<"const">> ELSE <<>>) \o FieldText(<<v[3], v[4]>>) \o Optional(<<"=">>, v[5], ExprText)

StatementText(s) ==
  CASE s[1] = "block" ->
         <<"{">> \o FlattenSeq([i \in DOMAIN s[2] |-> StatementText(s[2][i])]) \o <<"}">>
    [] s[1] = "if" ->
         <<"if">> \o ExprText(s[2]) \o <<BlockMark>> \o StatementText(s[3]) \o Optional(<<"else">>, s[4], StatementText)
    [] s[1] = "while" -> <<"while">> \o ExprText(s[2]) \o <<BlockMark>> \o StatementText(s[3])
    [] s[1] = "for" ->
         <<"for", "(">> \o (IF s[2] = None THEN <<";">> ELSE StatementText(s[2]))
           \o Optional(<<>>, s[3], ExprText) \o <<";">> \o Optional(<<>>, s[4], ExprText) \o <<")">>
           \o StatementText(s[5])
    [] s[1] = "return" -> <<"return">> \o Optional(<<>>, s[2], ExprText) \o <<";">>
    [] s[1] \in {"break", "continue"} -> <<s[1], ";">>
    [] s[1] = "defer" -> <<"defer">> \o StatementText(s[2])
    [] s[1] = "var" -> VarText(s) \o <<";">>
    [] s[1] = "expr" -> ExprText(s[2]) \o <<";">>

-----------------------------------------------------------------------------
TypeParamsText(names) ==
  IF names = None THEN <<>>
  ELSE <<"<">> \o Listed([i \in DOMAIN names |-> Word(names[i])]) \o <<">">>
AsText(as) == <<"alias", as[2]>>
SymbolText(s) == <<s[1]>> \o Optional(<<>>, s[2], AsText)
VariantText(v) == <<v[1]>> \o Optional(<<"=">>, v[2], ExprText)
BodyText(b) == IF b = None THEN <<";">> ELSE StatementText(b)

FunctionText(f) ==
  <<"fn", f[2]>> \o TypeParamsText(f[3])
    \o Parens(Listed([i \in DOMAIN f[4] |-> FieldText(f[4][i])]))
    \o Optional(<<"->">>, f[5], TypeText) \o BodyText(f[6])
MethodText(m) == (IF m[1] THEN <<"pub">> ELSE <<>>) \o FunctionText(m[2])

ImportedText(names) ==
  CASE names = None -> <<>>
    [] names[1] = "as" -> AsText(names)
    [] OTHER -> <<"{">> \o Listed([i \in DOMAIN names[2] |-> SymbolText(names[2][i])]) \o <<"}">>

BareText(d) ==
  CASE d[1] = "import" ->
         <<"import">> \o [i \in 1..d[2] |-> "."] \o (IF d[3] THEN <<"@">> ELSE <<>>)
           \o PathText(d[4]) \o ImportedText(d[5]) \o <<";">>
    [] d[1] = "alias" ->
         <<"alias", d[2], "=">> \o (IF IsType(d[3]) THEN TypeText(d[3]) ELSE PathText(d[3])) \o <<";">>
    [] d[1] = "fn" -> FunctionText(d)
    [] d[1] = "struct" ->
         <<"struct", d[2]>> \o TypeParamsText(d[3]) \o <<"{">>
           \o FlattenSeq([i \in DOMAIN d[4] |-> FieldText(d[4][i]) \o <<";">>]) \o <<"}">>
    [] d[1] = "enum" ->
         <<"enum", d[2], "{">> \o Listed([i \in DOMAIN d[3] |-> VariantText(d[3][i])]) \o <<"}">>
    [] d[1] = "impl" ->
         <<"impl">> \o TypeParamsText(d[2]) \o TypeText(d[3]) \o <<"{">>
           \o FlattenSeq([i \in DOMAIN d[4] |-> MethodText(d[4][i])]) \o <<"}">>
    [] d[1] = "var" -> VarText(d) \o <<";">>

LinkText(link) == <<"@", "link", "(", link[2], ")">>
DeclText(d) ==
  Optional(<<>>, d[3], LinkText) \o (IF d[2] THEN <<"pub">> ELSE <<>>) \o BareText(d[4])

\* The text of a program: its declarations and the end of the file.
MarkedText(ds) == FlattenSeq([i \in DOMAIN ds |-> DeclText(ds[i])]) \o <<"EOF">>
ProgramText(ds) == SelectSeq(MarkedText(ds), LAMBDA t : t \notin Marks)
=============================================================================
