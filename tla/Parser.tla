------------------------------- MODULE Parser -------------------------------
(***************************************************************************)
(* The recursive-descent parser (src/parsing).  A file's tokens become a   *)
(* sequence of declarations; precedence decides how operators group, and   *)
(* two look-aheads decide what `<' and `{' mean after an expression: the   *)
(* arguments of a generic are tried and taken back when they do not fit.   *)
(*                                                                         *)
(* A token is a string and a tree a tuple that starts with its kind.  The  *)
(* parsing operators pass a record along, which is the Parser, its         *)
(* ParseError and the result of the last call in one: at is p->current, ok *)
(* says that the call returned a node (and not NULL), node is that node,   *)
(* err says that err->message is set.  A call on a failed record returns   *)
(* it unchanged, as the callers in the code return NULL.                   *)
(***************************************************************************)
EXTENDS Naturals, Sequences, SequencesExt, FiniteSets, SourceText

CONSTANTS
  Idents,      \* identifier tokens; some have a meaning after an @
  TypeNames,   \* the keywords from i8 to void
  Strings,     \* string literals
  Literals,    \* all literals, the strings included
  Unreadable,  \* number literals that parse_int_lit or parse_float_lit refuses
  Texts        \* [tokens, source]: what the lexer hands over, and the set of the
               \* trees it spells: one, or none when it is not known to spell any

VARIABLES
  source,      \* the source of the text; only properties use it
  tokens,
  current,
  decls,       \* declarations of the program node
  message,     \* an error has been recorded
  phase        \* "declarations", "end", "accepted" (a program was returned), "rejected"

vars == <<source, tokens, current, decls, message, phase>>

-----------------------------------------------------------------------------
(* Looking at tokens and consuming them (parser.c).                        *)

Start(i) == [at |-> i, ok |-> TRUE, node |-> None, err |-> FALSE]
Peek(r, offset) == IF r.at + offset \in DOMAIN tokens THEN tokens[r.at + offset] ELSE "past the end"
Token(r) == Peek(r, 0)
Sees(r, kinds) == r.ok /\ Token(r) \in kinds

Node(r, n) == IF r.ok THEN [r EXCEPT !.node = n] ELSE r
Error(r) == [r EXCEPT !.ok = FALSE, !.err = TRUE]
Advance(r) == [r EXCEPT !.at = @ + 1, !.node = Token(r)]
Consume(r, kinds) ==
  CASE ~r.ok -> r
    [] Sees(r, kinds) -> Advance(r)
    [] OTHER -> Error(r)
Match(r, kind) == IF Sees(r, {kind}) THEN Advance(r) ELSE r
Close(r, kind) == Node(Consume(r, {kind}), r.node)

RECURSIVE Parse(_, _), Stars(_, _), Dimensions(_, _), PathRest(_), Items(_, _, _, _),
          Binary(_, _), BinaryRest(_, _), CastRest(_), Unary(_), Postfix(_),
          Statements(_, _), Fields(_, _), Methods(_, _), Dots(_, _)

\* Constructs that contain each other, and the items of lists, are read
\* through Parse, which is at the end and maps a kind to its parser.
Type(r) == Parse(r, "type")
Expression(r) == Parse(r, "expression")
Statement(r) == Parse(r, "statement")
Function(r) == Parse(r, "function")

-----------------------------------------------------------------------------
(* Lists between separators.                                               *)

\* A list and its closing token, empty or not.
ListUntil(r, kind, closing) ==
  Close(IF Sees(r, {closing}) THEN Node(r, <<>>) ELSE Items(r, kind, closing, <<>>), closing)

MayTrail == {"argument", "field", "parameter", "symbol", "variant"}

InitializerList(r) ==
  LET elements == ListUntil(Consume(r, {"{"}), "argument", "}")
  IN  Node(elements, <<"init", elements.node>>)
Argument(r) == IF Sees(r, {"{"}) THEN InitializerList(r) ELSE Expression(r)

Labelled(r, value) == Node(value, <<r.node, value.node>>)
FieldInit(r) ==
  LET name == Consume(r, Idents) IN Labelled(name, Expression(Consume(name, {":"})))
Parameter(r) ==
  LET name == Consume(r, Idents) IN Labelled(name, Type(Consume(name, {":"})))
Variant(r) ==
  LET name == Consume(r, Idents)
  IN  Labelled(name, IF Sees(name, {"="}) THEN Expression(Advance(name)) ELSE Node(name, None))

OptionalAlias(r) ==
  IF Sees(r, {"alias"})
  THEN LET name == Consume(Advance(r), Idents) IN Node(name, <<"as", name.node>>)
  ELSE Node(r, None)
ImportSymbol(r) == LET name == Consume(r, Idents) IN Labelled(name, OptionalAlias(name))

\* The first argument of @alloc is a type, and so is any that starts like one.
IntrinsicArgument(r) == IF Sees(r, TypeNames) THEN Type(r) ELSE Expression(r)

Items(r, kind, closing, before) ==
  LET item == Parse(r, IF kind = "alloc" /\ before = <<>> THEN "type" ELSE kind)
      items == Append(before, item.node)
  IN  CASE ~Sees(item, {","}) -> Node(item, items)
        [] kind \in MayTrail /\ Sees(Advance(item), {closing}) -> Node(Advance(item), items)
        [] OTHER -> Items(Advance(item), kind, closing, items)

-----------------------------------------------------------------------------
(* Types (parse_types.c).                                                  *)

PathRest(r) ==
  IF ~Sees(r, {"."}) THEN r
  ELSE LET name == Consume(Advance(r), Idents)
       IN  PathRest(Node(name, <<"member", r.node, name.node>>))
Path(r) == LET name == Consume(r, Idents) IN PathRest(Node(name, <<"name", name.node>>))

ReturnType(r) == IF Sees(r, {"->"}) THEN Type(Advance(r)) ELSE Node(r, None)

FunctionType(r) ==
  LET params == ListUntil(Consume(Advance(r), {"("}), "type", ")")
      result == ReturnType(params)
  IN  Node(result, <<"fntype", params.node, result.node>>)

TypeAtom(r) ==
  CASE ~r.ok -> r
    [] Sees(r, {"("}) -> Close(Type(Advance(r)), ")")
    [] Sees(r, {"fn"}) -> FunctionType(r)
    [] Sees(r, TypeNames) -> Node(Advance(r), <<"named", <<"name", Token(r)>>>>)
    [] Sees(r, Idents) -> LET path == Path(r) IN Node(path, <<"named", path.node>>)
    [] OTHER -> Error(r)

TypeArguments(r) ==
  IF ~Sees(r, {"<"}) THEN r
  ELSE LET args == Items(Advance(r), "type", ">", <<>>)
       IN  Node(Close(args, ">"), <<"apply", r.node, args.node>>)

\* The number of stars from here, and the sizes of the brackets from here.
Stars(r, n) == IF Sees(r, {"*"}) THEN Stars(Advance(r), n + 1) ELSE Node(r, n)
Dimensions(r, sizes) ==
  IF ~Sees(r, {"["}) THEN Node(r, sizes)
  ELSE LET size == IF Sees(Advance(r), {"]"}) THEN Node(Advance(r), None) ELSE Expression(Advance(r))
       IN  Dimensions(Close(size, "]"), Append(sizes, size.node))

PointersTo(t, n) == FoldRight(LAMBDA i, to : <<"ptr", to>>, [i \in 1..n |-> i], t)
ArraysOf(t, sizes) == FoldRight(LAMBDA size, elem : <<"array", elem, size>>, sizes, t)

ParseType(r) ==
  LET prefix == Stars(r, 0)
      base == TypeArguments(TypeAtom(prefix))
      dims == Dimensions(base, <<>>)
      suffix == Stars(dims, 0)
  IN  Node(suffix, PointersTo(ArraysOf(base.node, dims.node), suffix.node + prefix.node))

-----------------------------------------------------------------------------
(* Expressions (parse_expressions.c).                                      *)

AssignOps == {"=", "+=", "-=", "*=", "/=", "%="}
Levels == << {"||"}, {"&&"}, {"==", "!="}, {"<", ">", "<=", ">="}, {"+", "-"}, {"*", "/", "%"} >>
PrefixOps == {"+", "-", "!", "*", "&", "++", "--"}
AfterArguments == {"(", "{", ";", ","}     \* what must follow the arguments of a generic

IsLvalue(e) ==
  \/ e[1] \in {"name", "index", "member", "structlit", "init"}
  \/ e[1] = "unary" /\ e[2] = "*"

ParseExpression(r) ==
  LET lhs == Binary(r, 1)
      rhs == Expression(Advance(lhs))
  IN  CASE ~Sees(lhs, AssignOps) -> lhs
        [] ~IsLvalue(lhs.node) -> Error(lhs)
        [] OTHER -> Node(rhs, <<"assign", Token(lhs), lhs.node, rhs.node>>)

BinaryRest(lhs, level) ==
  IF ~Sees(lhs, Levels[level]) THEN lhs
  ELSE LET rhs == Binary(Advance(lhs), level + 1)
       IN  BinaryRest(Node(rhs, <<"binary", Token(lhs), lhs.node, rhs.node>>), level)
Binary(r, level) ==
  IF level > Len(Levels) THEN CastRest(Unary(r)) ELSE BinaryRest(Binary(r, level + 1), level)

CastRest(r) ==
  IF ~Sees(r, {"as"}) THEN r
  ELSE LET type == Type(Advance(r)) IN CastRest(Node(type, <<"cast", r.node, type.node>>))

\* `name {' starts a struct literal only if the brace is closed at once or a field follows.
LiteralAhead(r) ==
  /\ Sees(r, {"{"})
  /\ Peek(r, 1) = "}" \/ (Peek(r, 1) \in Idents /\ Peek(r, 2) = ":")
StructLiteral(r) ==
  LET fields == ListUntil(Advance(r), "field", "}")
  IN  Node(fields, <<"structlit", r.node, fields.node>>)

Intrinsic(r) ==
  LET name == Consume(Advance(r), Idents)
      args == ListUntil(Consume(name, {"("}), name.node, ")")
  IN  IF name.ok /\ name.node \notin {"alloc", "free"} THEN Error(name)
      ELSE Node(args, <<"intrinsic", name.node, args.node>>)

Named(r) ==
  LET name == Node(Advance(r), <<"name", Token(r)>>)
  IN  IF LiteralAhead(name) THEN StructLiteral(name) ELSE name

Literal(r) == IF Sees(r, Unreadable) THEN Error(r) ELSE Node(Advance(r), <<"lit", Token(r)>>)

Primary(r) ==
  CASE ~r.ok -> r
    [] Sees(r, {"@"}) -> Intrinsic(r)
    [] Sees(r, Literals) -> Literal(r)
    [] Sees(r, Idents \cup TypeNames) -> Named(r)
    [] Sees(r, {"("}) -> Close(Expression(Advance(r)), ")")
    [] Sees(r, {"{"}) -> InitializerList(r)
    [] OTHER -> Error(r)

\* Mutants: whatever follows the arguments; the position is not put back.
GenericInstAnywhere(r) ==
  LET args == Items(Advance(r), "type", ">", <<>>)
      close == Close(args, ">")
  IN  IF close.ok THEN [close EXCEPT !.node = <<"inst", r.node, args.node>>, !.err = r.err]
      ELSE [r EXCEPT !.ok = FALSE]
GenericInstNotRestored(r) ==
  LET args == Items(Advance(r), "type", ">", <<>>)
      close == Close(args, ">")
  IN  IF Sees(close, AfterArguments)
      THEN [close EXCEPT !.node = <<"inst", r.node, args.node>>, !.err = r.err]
      ELSE [close EXCEPT !.ok = FALSE, !.err = r.err]

\* Type arguments are tried with an error record of their own; without a `>'
\* and a token that may follow it the parser goes back to the `<'.
GenericInst(r) ==
  LET args == Items(Advance(r), "type", ">", <<>>)
      close == Close(args, ">")
  IN  IF Sees(close, AfterArguments)
      THEN [close EXCEPT !.node = <<"inst", r.node, args.node>>, !.err = r.err]
      ELSE [r EXCEPT !.ok = FALSE]

\* NULL from a generic or a literal ends the loop with the expression so far,
\* wherever the parser stands.
OrSoFar(r, expr) == IF r.ok THEN Postfix(r) ELSE [r EXCEPT !.ok = TRUE, !.node = expr.node]

Postfix(r) ==
  CASE Sees(r, {"++", "--"}) -> Postfix(Node(Advance(r), <<"postfix", Token(r), r.node>>))
    [] Sees(r, {"<"}) -> OrSoFar(GenericInst(r), r)
    [] Sees(r, {"["}) ->
         LET index == Expression(Advance(r))
         IN  Postfix(Node(Consume(index, {"]"}), <<"index", r.node, index.node>>))
    [] Sees(r, {"("}) ->
         LET args == ListUntil(Advance(r), "argument", ")")
         IN  Postfix(Node(args, <<"call", r.node, args.node>>))
    [] Sees(r, {"."}) ->
         LET name == Consume(Advance(r), Idents)
         IN  Postfix(Node(name, <<"member", r.node, name.node>>))
    [] LiteralAhead(r) /\ r.node[1] \in {"name", "member", "inst"} -> OrSoFar(StructLiteral(r), r)
    [] OTHER -> r

Unary(r) ==
  IF Sees(r, PrefixOps)
  THEN LET operand == Unary(Advance(r)) IN Node(operand, <<"unary", Token(r), operand.node>>)
  ELSE Postfix(Primary(r))

-----------------------------------------------------------------------------
(* Statements (parse_statements.c) and variable declarations.              *)

VariableDeclaration(r) ==
  LET name == Consume(Match(r, "const"), Idents)
      type == Type(Consume(name, {":"}))
      init == IF Sees(type, {"="}) THEN Argument(Advance(type)) ELSE Node(type, None)
  IN  Node(init, <<"var", Sees(r, {"const"}), name.node, type.node, init.node>>)
DeclarationStmt(r) == Close(VariableDeclaration(r), ";")

Statements(r, before) ==
  CASE ~r.ok -> r
    [] Sees(r, {"}"}) -> Node(Advance(r), <<"block", before>>)
    [] Sees(r, {"EOF"}) -> Error(r)
    [] OTHER -> LET s == Statement(r) IN Statements(s, Append(before, s.node))
Block(r) == Statements(Consume(r, {"{"}), <<>>)

Else(r) ==
  CASE ~Sees(r, {"else"}) -> Node(r, None)
    [] Sees(Advance(r), {"if"}) -> Statement(Advance(r))
    [] OTHER -> Block(Advance(r))
If(r) ==
  LET condition == Expression(Advance(r))
      then == Block(condition)
      else == Else(then)
  IN  Node(else, <<"if", condition.node, then.node, else.node>>)

While(r) ==
  LET condition == Expression(Advance(r))
      body == Block(condition)
  IN  Node(body, <<"while", condition.node, body.node>>)

For(r) ==
  LET open == Consume(Advance(r), {"("})
      init == IF Sees(open, {";"}) THEN Node(Advance(open), None) ELSE Statement(open)
      condition == IF Sees(init, {";"}) THEN Node(init, None) ELSE Expression(init)
      semicolon == Consume(condition, {";"})
      post == IF Sees(semicolon, {")"}) THEN Node(semicolon, None) ELSE Expression(semicolon)
      body == Block(Consume(post, {")"}))
  IN  Node(body, <<"for", init.node, condition.node, post.node, body.node>>)

Return(r) ==
  LET value == IF Sees(Advance(r), {";"}) THEN Node(Advance(r), None) ELSE Expression(Advance(r))
  IN  Node(Consume(value, {";"}), <<"return", value.node>>)
Jump(r) == Node(Consume(Advance(r), {";"}), <<Token(r)>>)
Defer(r) == LET body == Statement(Advance(r)) IN Node(body, <<"defer", body.node>>)
ExpressionStmt(r) ==
  LET e == Expression(r) IN Node(Consume(e, {";"}), <<"expr", e.node>>)

ParseStatement(r) ==
  CASE ~r.ok -> r
    [] Sees(r, {"if"}) -> If(r)
    [] Sees(r, {"while"}) -> While(r)
    [] Sees(r, {"for"}) -> For(r)
    [] Sees(r, {"return"}) -> Return(r)
    [] Sees(r, {"break", "continue"}) -> Jump(r)
    [] Sees(r, {"defer"}) -> Defer(r)
    [] Sees(r, {"{"}) -> Block(r)
    [] Sees(r, {"fn"}) -> Error(r)
    [] Sees(r, {"const"}) \/ (Sees(r, Idents) /\ Peek(r, 1) = ":") -> DeclarationStmt(r)
    [] OTHER -> ExpressionStmt(r)

-----------------------------------------------------------------------------
(* Declarations (parse_declarations.c).                                    *)

TypeParams(r) ==
  IF Sees(r, {"<"}) THEN Close(Items(Advance(r), "type parameter", ">", <<>>), ">")
  ELSE Node(r, None)

\* An alias of a plain name or path leads to an expression, of anything else to a type.
Alias(r) ==
  LET name == Consume(Advance(r), Idents)
      type == Type(Consume(name, {"="}))
      target == IF type.node[1] = "named" THEN type.node[2] ELSE type.node
  IN  Node(Consume(type, {";"}), <<"alias", name.node, target>>)

Dots(r, n) == IF Sees(r, {"."}) THEN Dots(Advance(r), n + 1) ELSE Node(r, n)
Import(r) ==
  LET dots == Dots(Advance(r), 0)
      at_root == dots.node = 0 /\ Sees(dots, {"@"})
      path == Path(IF at_root THEN Advance(dots) ELSE dots)
      symbols == ListUntil(Advance(path), "symbol", "}")
      names == IF Sees(path, {"{"}) THEN Node(symbols, <<"symbols", symbols.node>>)
               ELSE OptionalAlias(path)
  IN  Node(Consume(names, {";"}), <<"import", dots.node, at_root, path.node, names.node>>)

Fields(r, before) ==
  IF Sees(r, {"}"}) THEN Node(Advance(r), before)
  ELSE LET field == Parameter(r)
           end == Consume(field, {";"})
       IN  IF end.ok THEN Fields(end, Append(before, field.node)) ELSE end
Struct(r) ==
  LET name == Consume(Advance(r), Idents)
      params == TypeParams(name)
      fields == Fields(Consume(params, {"{"}), <<>>)
  IN  Node(fields, <<"struct", name.node, params.node, fields.node>>)

Enum(r) ==
  LET name == Consume(Advance(r), Idents)
      variants == ListUntil(Consume(name, {"{"}), "variant", "}")
  IN  Node(variants, <<"enum", name.node, variants.node>>)

ParseFunction(r) ==
  LET name == Consume(Consume(r, {"fn"}), Idents)
      type_params == TypeParams(name)
      params == ListUntil(Consume(type_params, {"("}), "parameter", ")")
      result == ReturnType(params)
      body == IF Sees(result, {";"}) THEN Node(Advance(result), None) ELSE Block(result)
  IN  Node(body, <<"fn", name.node, type_params.node, params.node, result.node, body.node>>)

Methods(r, before) ==
  IF Sees(r, {"}"}) THEN Node(Advance(r), before)
  ELSE LET method == Function(Match(r, "pub"))
       IN  IF method.ok THEN Methods(method, Append(before, <<Sees(r, {"pub"}), method.node>>))
           ELSE method
Impl(r) ==
  LET params == TypeParams(Advance(r))
      target == Type(params)
      methods == Methods(Consume(target, {"{"}), <<>>)
  IN  Node(methods, <<"impl", params.node, target.node, methods.node>>)

\* An @ that no name follows is passed over.
Attribute(r) ==
  LET name == Advance(Advance(r))
      string == Consume(Consume(name, {"("}), Strings)
  IN  CASE ~Sees(r, {"@"}) -> Node(r, None)
        [] ~Sees(Advance(r), Idents) -> Node(Advance(r), None)
        [] ~Sees(Advance(r), {"link"}) -> Error(name)
        [] OTHER -> Node(Consume(string, {")"}), <<"link", string.node>>)

\* Only functions keep a link name; structs, enums, impls and variables are
\* returned and an error recorded, imports and aliases drop it.
Declaration(r) ==
  LET link == Attribute(r)
      pub == Sees(link, {"pub"})
      first == Match(link, "pub")
      Declared(d, is_pub, name) == Node(d, <<"decl", is_pub, name, d.node>>)
      Unlinked(d) == IF d.ok /\ link.node # None THEN [d EXCEPT !.err = TRUE] ELSE d
  IN  CASE ~first.ok -> first
        [] Sees(first, {"EOF"}) -> [Advance(first) EXCEPT !.ok = FALSE]
        [] Sees(first, {"import"}) -> Declared(Import(first), pub, None)
        [] Sees(first, {"alias"}) -> IF pub THEN Error(first) ELSE Declared(Alias(first), FALSE, None)
        [] Sees(first, {"fn"}) -> Declared(Function(first), pub, link.node)
        [] Sees(first, {"struct"}) -> Unlinked(Declared(Struct(first), pub, None))
        [] Sees(first, {"enum"}) -> Unlinked(Declared(Enum(first), pub, None))
        [] Sees(first, {"impl"}) -> Unlinked(Declared(Impl(first), FALSE, None))
        [] Sees(first, {"const"} \cup Idents) -> Unlinked(Declared(DeclarationStmt(first), pub, None))
        [] OTHER -> Error(first)

Parse(r, kind) ==
  CASE kind = "type" -> ParseType(r)
    [] kind = "expression" -> ParseExpression(r)
    [] kind = "statement" -> ParseStatement(r)
    [] kind = "function" -> ParseFunction(r)
    [] kind = "declaration" -> Declaration(r)
    [] kind = "argument" -> Argument(r)
    [] kind = "type parameter" -> Consume(r, Idents)
    [] kind = "field" -> FieldInit(r)
    [] kind = "parameter" -> Parameter(r)
    [] kind = "symbol" -> ImportSymbol(r)
    [] kind = "variant" -> Variant(r)
    [] OTHER -> IntrinsicArgument(r)
-----------------------------------------------------------------------------
(* The program (parse_program): declarations until one is NULL.            *)

Init ==
  /\ \E text \in Texts : tokens = text.tokens /\ source = text.source
  /\ current = 1
  /\ decls = <<>>
  /\ message = FALSE
  /\ phase = "declarations"

\* Mutant: the loop goes on after a recorded error.
ParseDeclarationDespiteError ==
  /\ phase = "declarations"
  /\ LET d == Parse(Start(current), "declaration")
     IN  /\ current' = d.at
         /\ message' = (message \/ d.err)
         /\ decls' = IF d.ok THEN Append(decls, d.node) ELSE decls
         /\ phase' = IF d.ok THEN phase ELSE "end"
  /\ UNCHANGED <<source, tokens>>

ParseDeclaration ==
  /\ phase = "declarations" /\ ~message
  /\ LET d == Parse(Start(current), "declaration")
     IN  /\ current' = d.at
         /\ message' = (message \/ d.err)
         /\ decls' = IF d.ok THEN Append(decls, d.node) ELSE decls
         /\ phase' = IF d.ok THEN phase ELSE "end"
  /\ UNCHANGED <<source, tokens>>

\* A declaration was returned although an error has been recorded.
StopAtError ==
  /\ phase = "declarations" /\ message
  /\ phase' = "rejected"
  /\ UNCHANGED <<source, tokens, current, decls, message>>

EndProgram ==
  /\ phase = "end"
  /\ LET trailing == current <= Len(tokens)
     IN  /\ message' = (message \/ trailing)
         /\ phase' = IF trailing THEN "rejected" ELSE "accepted"
  /\ UNCHANGED <<source, tokens, current, decls>>

Finished == phase \in {"accepted", "rejected"} /\ UNCHANGED vars

Next == ParseDeclaration \/ StopAtError \/ EndProgram \/ Finished
Spec == Init /\ [][Next]_vars

-----------------------------------------------------------------------------
(* Properties.                                                             *)

\* Declarations come with their visibility and link name, the position stays
\* in the text, and the token at the end of the file is consumed by nothing
\* but the end of the declarations (parse_declaration).
DeclKinds == {"import", "alias", "fn", "struct", "enum", "impl", "var"}
TypeOK ==
  /\ current \in 1..(Len(tokens) + 1)
  /\ message \in BOOLEAN
  /\ phase \in {"declarations", "end", "accepted", "rejected"}
  /\ \A i \in DOMAIN decls :
       /\ decls[i][1] = "decl" /\ decls[i][2] \in BOOLEAN
       /\ decls[i][4][1] \in DeclKinds
       /\ decls[i][3] # None => decls[i][4][1] = "fn"
  /\ phase = "declarations" => current <= Len(tokens)

Occurrences(t, text) == Cardinality({i \in DOMAIN text : text[i] = t})

\* Texts that the parser reads otherwise than they are meant, though lang.bnf
\* gives them (section 3 of the README).  Parentheses around the comparison or the
\* cast help; around a condition they do not.
At(text, i, tokensThere) ==
  i + Len(tokensThere) - 1 <= Len(text) /\ SubSeq(text, i, i + Len(tokensThere) - 1) = tokensThere

\* comparisons that read as the arguments of a generic call, `a < b > (c)' or
\* `f(a < b, c > (d))': between them is what types are made of
TypeTokens == Idents \cup TypeNames \cup {".", "*", ",", "(", ")", "[", "]", "<", ">", "fn", "->"}
LooksGeneric(text) ==
  \E i, j \in DOMAIN text :
    /\ i < j /\ At(text, i, <<Operator, "<">>) /\ At(text, j, <<Operator, ">", "(">>)
    /\ \A k \in (i + 2)..(j - 1) :
         LET before == SubSeq(text, i, k)
         IN  text[k] \in TypeTokens \/ Occurrences("[", before) > Occurrences("]", before)

\* a block that reads as a struct literal, `while x { }' or `if a { b: ... }'
LooksLiteral(text) ==
  \E i \in DOMAIN text :
    /\ At(text, i, <<BlockMark, "{">>) /\ text[i - 1] \in Idents \cup TypeNames
    /\ text[i + 2] = "}" \/ (text[i + 2] \in Idents /\ text[i + 3] = ":")

\* an operator that reads as part of the type of a cast, `a as i32 * b'
LooksLikeType(text) ==
  \E i \in DOMAIN text, op \in {"*", "<"} : At(text, i, <<CastEnd, Operator, op>>)

Misread(tree) ==
  LET text == MarkedText(tree)
  IN  tokens = ProgramText(tree) /\ (LooksGeneric(text) \/ LooksLiteral(text) \/ LooksLikeType(text))

\* A text that spells a tree is accepted and read back as that tree: operators
\* group by precedence and to the left, assignments to the right, brackets and
\* stars of a type nest as written, and what is tried at `<' and looked up at `{'
\* does not change what is meant, but in the texts that are Misread
\* (parse_expression, parse_type, parse_postfix_generic_inst).
RoundTrip ==
  phase \in {"accepted", "rejected"} =>
    \A tree \in source : Misread(tree) \/ (phase = "accepted" /\ decls = tree)

\* The declarations are well formed.  An accepted program returned no error, and a refused one has one to report:
\* nothing fails silently, and no error is recorded and then passed over
\* (parse_program, parse_declaration).
ErrorsDecide ==
  /\ TypeOK
  /\ phase = "accepted" => ~message /\ current = Len(tokens) + 1
  /\ phase = "rejected" => message

\* The texts in which the code is known to pass over tokens: an @ before a
\* declaration with no name behind it, a link name before an import, an alias
\* or the end of the file, `pub' before an impl or the end of the file, and a
\* literal without its brace in the type arguments of a generic.
EveryTokenHasAPlace ==
  /\ Occurrences("{", tokens) = Occurrences("}", tokens)
  /\ \A i \in DOMAIN tokens :
       LET ahead(n) == Peek(Start(i), n)
       IN  /\ tokens[i] = "@" => ahead(1) \in Idents
           /\ tokens[i] = "@" /\ ahead(1) = "link" =>
                "fn" \in {ahead(5)} \cup (IF ahead(5) = "pub" THEN {ahead(6)} ELSE {})
           /\ tokens[i] = "pub" => ahead(1) \notin {"impl", "EOF"}

\* What an accepted text says is in its tree: but for parentheses and commas
\* the tree is written with the same tokens as the text, whatever was tried
\* and taken back on the way (p->current restored in parse_postfix_generic_inst).
NothingDropped ==
  phase = "accepted" /\ EveryTokenHasAPlace =>
    LET written == ProgramText(decls)
    IN  \A t \in (ToSet(tokens) \cup ToSet(written)) \ {"(", ")", ","} :
          Occurrences(t, tokens) = Occurrences(t, written)

=============================================================================
