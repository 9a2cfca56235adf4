------------------------------ MODULE MCParser ------------------------------
(* Texts written from trees two operators deep, texts spelled otherwise than *)
(* SourceText does, and sentences with a token lost, doubled or replaced.    *)
EXTENDS Parser

MCIdents == {"a", "b", "c", "alloc", "link"}
MCTypeNames == {"i32"}
MCStrings == {"str"}
MCLiterals == {"1", "str", "9z"}
MCUnreadable == {"9z"}

A == <<"name", "a">>
B == <<"name", "b">>
C == <<"name", "c">>
One == <<"lit", "1">>
Dot(e, x) == <<"member", e, x>>
Op(op, x, y) == <<"binary", op, x, y>>
Call(f, args) == <<"call", f, args>>
NamedType(x) == <<"named", <<"name", x>>>>
I32 == NamedType("i32")

-----------------------------------------------------------------------------
Types1(ts) ==
  ts \cup UNION {
    {<<"ptr", t>>, <<"array", t, None>>, <<"array", t, One>>, <<"array", t, Op("<", A, B)>>,
     <<"apply", NamedType("b"), <<t>>>>, <<"apply", <<"named", Dot(A, "b")>>, <<I32, t>>>>,
     <<"fntype", <<>>, t>>, <<"fntype", <<t, I32>>, None>>} : t \in ts}
Atoms == {I32, <<"named", Dot(A, "b")>>}
MCTypes == Types1(Types1(Atoms))

Operators == {"||", "&&", "==", "<", ">", "+", "-", "*"}
Binaries(xs, ys) == {Op(op, x, y) : op \in Operators, x \in xs, y \in ys}
Others(xs) ==
  UNION {
    {<<"unary", op, x>> : op \in {"-", "*", "&", "++"}} \cup
    {<<"postfix", "++", x>>, <<"cast", x, I32>>, <<"cast", x, <<"ptr", NamedType("b")>>>>,
     <<"index", A, x>>, <<"index", x, One>>, Call(x, <<>>), Call(A, <<x, B>>), Dot(x, "c"),
     Call(<<"inst", A, <<I32>>>>, <<x>>), <<"structlit", A, <<<<"b", x>>>>>>,
     <<"intrinsic", "alloc", <<I32, x>>>>} : x \in xs}
Assignments(xs, ys) ==
  {<<"assign", op, x, y>> : op \in {"=", "*="}, x \in {e \in xs : IsLvalue(e)}, y \in ys}

Exprs0 == {A, B, One}
Exprs1 == Binaries({A, One}, {B}) \cup Others({A}) \cup Assignments({A}, {B})
            \cup {<<"structlit", Dot(A, "b"), <<>>>>, Call(A, <<<<"init", <<One, <<"init", <<>>>>>>>>>>)}

Operands == Binaries({A}, {B}) \cup
  {<<"cast", A, I32>>, <<"unary", "-", A>>, Call(A, <<B>>), <<"assign", "=", A, B>>}

\* arguments that are comparisons, and look like those of a generic or do not
Compared ==
  {Call(A, <<Op("<", A, x), Op(">", C, y)>>) :
     x \in {B, One, <<"unary", "*", B>>, <<"index", B, One>>}, y \in {C, Op("==", B, C), <<"assign", "=", A, B>>}}

MCExprs ==
  Exprs0 \cup Exprs1 \cup Others(Exprs1) \cup Assignments(Exprs1, Exprs1)
    \cup Binaries(Exprs1, {C}) \cup Binaries({A}, Exprs1) \cup Binaries(Operands, Operands) \cup Compared

-----------------------------------------------------------------------------
Decl(d) == <<"decl", FALSE, None, d>>
Var(t, init) == <<"var", FALSE, "a", t, init>>
Do(e) == <<"expr", e>>
Body(ss) == <<"block", ss>>
FunctionOf(ss) == Decl(<<"fn", "a", None, <<>>, None, Body(ss)>>)

Step == Do(<<"postfix", "++", A>>)
Empty == Body(<<>>)
Leaves == {Step, <<"while", A, Empty>>, <<"if", Call(A, <<>>), Empty, None>>, <<"return", None>>, <<"return", Op("<", A, B)>>, <<"break">>, Body(<<>>),
           Var(I32, None), <<"var", TRUE, "b", I32, One>>}
Nested(ss) ==
  UNION {
    {<<"if", Op("<", A, One), Body(<<s>>), None>>,
     <<"if", Call(A, <<>>), Body(<<Step>>), <<"if", A, Body(<<Step>>), Body(<<s>>)>>>>,
     <<"while", A, Body(<<Step, s>>)>>, <<"while", Dot(A, "b"), Body(<<s>>)>>, <<"defer", s>>, <<"defer", Body(<<s>>)>>,
     <<"for", None, None, None, Body(<<s>>)>>,
     <<"for", Var(I32, One), Op("<", A, B), <<"postfix", "++", A>>, Body(<<s, Step>>)>>} : s \in ss}
MCStatements == Leaves \cup Nested(Leaves) \cup Nested(Nested({Step, <<"break">>}))

Link == <<"link", "str">>
Fun(name, tps, params, ret, body) == <<"fn", name, tps, params, ret, body>>
Plain == Fun("b", None, <<<<"a", I32>>, <<"c", <<"ptr", I32>>>>>>, I32, Body(<<Step>>))
Header == Fun("a", None, <<>>, None, None)
MCDecls ==
  {<<"decl", pub, link, f>> : pub \in BOOLEAN, link \in {None, Link}, f \in {Plain, Header}} \cup
  {<<"decl", pub, None, d>> : pub \in BOOLEAN, d \in
     {<<"import", 0, FALSE, Dot(A, "b"), None>>, <<"import", 0, TRUE, A, <<"as", "c">>>>,
      <<"import", 2, FALSE, A, <<"symbols", <<<<"b", None>>, <<"a", <<"as", "c">>>>>>>>>>,
      <<"struct", "a", None, <<>>>>,
      <<"struct", "a", <<"b", "c">>, <<<<"b", NamedType("c")>>, <<"c", <<"array", I32, One>>>>>>>>,
      <<"enum", "a", <<>>>>, <<"enum", "b", <<<<"a", None>>, <<"c", Op("+", A, One)>>>>>>,
      Var(I32, <<"init", <<One, <<"init", <<A>>>>>>>>)}} \cup
  {Decl(<<"alias", "a", t>>) : t \in {Dot(A, "b"), A, <<"ptr", I32>>, <<"apply", NamedType("b"), <<I32>>>>}} \cup
  {Decl(<<"impl", tps, <<"apply", NamedType("b"), <<NamedType("c")>>>>, ms>>) :
     tps \in {None, <<"c">>}, ms \in {<<>>, <<<<TRUE, Plain>>, <<FALSE, Header>>>>}}

Trees ==
  {<<d>> : d \in MCDecls} \cup {<<d, e>> : d, e \in MCDecls} \cup {<<>>}
    \cup {<<FunctionOf(<<Do(e)>>)>> : e \in MCExprs}
    \cup {<<Decl(Var(t, One))>> : t \in MCTypes}
    \cup {<<FunctionOf(<<Do(Call(<<"inst", A, <<t, I32>>>>, <<>>)), Do(<<"cast", A, t>>)>>)>> : t \in MCTypes}
    \cup {<<FunctionOf(<<s, Step>>)>> : s \in MCStatements}

-----------------------------------------------------------------------------
(* Texts that SourceText spells differently: redundant parentheses, commas   *)
(* before a closing token, stars after a type, an attempt that is taken back.*)
InBody(text) == <<"fn", "a", "(", ")", "{">> \o text \o <<"}", "EOF">>
Spelled ==
  {[tokens |-> InBody(<<"(", "a", ")", "(", "b", ",", ")", ";">>),
    source |-> {<<FunctionOf(<<Do(Call(A, <<B>>))>>)>>}],
   [tokens |-> InBody(<<"a", "{", "b", ":", "1", ",", "}", ".", "c", ";">>),
    source |-> {<<FunctionOf(<<Do(Dot(<<"structlit", A, <<<<"b", One>>>>>>, "c"))>>)>>}],
   [tokens |-> <<"a", ":", "*", "(", "i32", "*", ")", "[", "1", "]", "*", "=", "{", "1", ",", "}", ";", "EOF">>,
    source |-> {<<Decl(Var(<<"ptr", <<"ptr", <<"array", <<"ptr", I32>>, One>>>>>>, <<"init", <<One>>>>))>>}],
   [tokens |-> InBody(<<"a", "(", "a", "<", "b", ",", "c", ">", "1", ",", ")", ";">>),
    source |-> {<<FunctionOf(<<Do(Call(A, <<Op("<", A, B), Op(">", C, One)>>))>>)>>}],
   [tokens |-> InBody(<<"(", "a", "<", "b", ")", ">", "(", "b", "==", "c", ")", ";">>),
    source |-> {<<FunctionOf(<<Do(Op(">", Op("<", A, B), Op("==", B, C)))>>)>>}],
   [tokens |-> InBody(<<"(", "a", "as", "i32", ")", "*", "(", "b", "as", "i32", ")", "<", "c", ";">>),
    source |-> {<<FunctionOf(<<Do(Op("<", Op("*", <<"cast", A, I32>>, <<"cast", B, I32>>), C))>>)>>}],
   [tokens |-> <<"enum", "a", "{", "b", ",", "}", "import", "a", "{", "b", ",", "}", ";", "EOF">>,
    source |-> {<<Decl(<<"enum", "a", <<<<"b", None>>>>>>),
                  Decl(<<"import", 0, FALSE, A, <<"symbols", <<<<"b", None>>>>>>>>)>>}]}

-----------------------------------------------------------------------------
Sentences ==
  {ProgramText(<<d>>) : d \in MCDecls} \cup
  {ProgramText(<<FunctionOf(<<s>>)>>) : s \in Nested({Step})} \cup
  {ProgramText(<<FunctionOf(<<Do(e)>>)>>) : e \in Exprs1} \cup
  {ProgramText(<<FunctionOf(<<Do(e), Step>>)>>) : e \in
     {Op("<", A, Op("-", B, C)), Op(">", Op("<", A, B), C),
      Call(A, <<Op("<", A, B), Op(">", B, C)>>),
      Call(<<"inst", Dot(A, "b"), <<<<"array", I32, <<"structlit", Dot(A, "b"), <<<<"c", One>>>>>>>>, I32>>>>, <<A>>),
      <<"structlit", <<"inst", A, <<I32>>>>, <<<<"b", One>>, <<"c", A>>>>>>,
      <<"assign", "=", <<"unary", "*", A>>, <<"cast", B, <<"ptr", I32>>>>>>}}

Replacements == {"<", ">", "(", "{", "}", ",", ";", ":", ".", "[", "@", "*", "=", "a", "1", "pub"}
Lost(text, i) == RemoveAt(text, i)
Doubled(text, i) == InsertAt(text, i, text[i])
Damages ==
  UNION {UNION {{Lost(text, i), Doubled(text, i)} \cup {ReplaceAt(text, i, t) : t \in Replacements}
                  \cup {InsertAt(text, i, t) : t \in {"@", "pub", ",", "9z"}}
                : i \in 1..(Len(text) - 1)} : text \in Sentences}
    \cup {InsertAt(text, Len(text), "pub") : text \in Sentences}
    \cup {LinkText(Link) \o text : text \in Sentences}

MCTexts ==
  {[tokens |-> ProgramText(tree), source |-> {tree}] : tree \in Trees}
    \cup Spelled \cup {[tokens |-> text, source |-> {}] : text \in Damages}
=============================================================================
