------------------------- MODULE MCImportResolution -------------------------
(***************************************************************************)
(* Source trees for ImportResolution: an entry, two files a and b beside   *)
(* it, a directory a/ with a file b, and a library with its own a.  All    *)
(* declare a function x, so copies meet; only a declares a private one.    *)
(* The library's x is linked and its y generic, the entry has a linked w   *)
(* and a main; the type y of b's variable v is only there if b imports it. *)
(***************************************************************************)
EXTENDS ImportResolution, TLC

Main == <<"p", "main">>
A    == <<"p", "a">>
B    == <<"p", "b">>
AB   == <<"p", "a", "b">>
LibA == <<"lib", "a">>
Deep == <<"lib", "b", "a", "x">>

Import(form, parts, pub, symbols) ==
  [form |-> form, dots |-> 1, parts |-> parts, pub |-> pub, alias |-> "", symbols |-> symbols]
As(imp, name) == [imp EXCEPT !.alias = name]
Pub(imp)      == [imp EXCEPT !.pub = TRUE]

X    == <<<<"x", "x">>>>
Y    == <<<<"y", "y">>>>
XasY == <<<<"x", "y">>>>
XasA == <<<<"x", "a">>>>
BasB == <<<<"b", "b">>>>
V    == <<<<"v", "v">>>>
XasW == <<<<"x", "w">>>>
XasMain == <<<<"x", "main">>>>

Rel(parts, symbols)  == Import("relative", parts, FALSE, symbols)
Root(parts, symbols) == Import("root", parts, FALSE, symbols)
Lib(parts, symbols)  == Import("library", parts, FALSE, symbols)

UpTo1(S) == {<<>>} \cup {<<s>> : s \in S}
UpTo2(S) == UpTo1(S) \cup {<<s, t>> : s, t \in S}

Decl(kind)    == [kind |-> kind, pub |-> TRUE, sig |-> "", link |-> FALSE, type |-> ""]
Fn(sig, pub)  == [Decl("function") EXCEPT !.sig = sig, !.pub = pub]
Linked(sig)   == [Decl("function") EXCEPT !.sig = sig, !.link = TRUE]
Var(type)     == [Decl("variable") EXCEPT !.type = type]
File(decls, imports) == [fate |-> "ok", decls |-> decls, imports |-> imports]

FromMain == {Rel(<<"a">>, X), Rel(<<"b">>, X), Root(<<"a", "b">>, X),
             Lib(<<"a">>, <<>>), Rel(<<"a">>, Y), As(Rel(<<"b">>, <<>>), "y")}
\* a path through what is no module, through a copied module, and after itself
Paths2   == {<<Rel(<<"b">>, XasA), Root(<<"a", "b">>, <<>>)>>,
             <<Rel(<<"a">>, BasB), Lib(<<"b", "a", "x">>, <<>>)>>,
             <<Rel(<<"b">>, Y), Rel(<<"b">>, XasY)>>,
             <<Root(<<"a", "b">>, X), Root(<<"a", "b">>, XasY)>>}
\* a linked function, main, a generic function and a variable without a type
Untyped  == {<<Lib(<<"a">>, XasY), Rel(<<"b">>, XasY)>>, <<Rel(<<"a">>, XasW)>>,
             <<Rel(<<"b">>, XasMain)>>, <<Lib(<<"a">>, Y)>>, <<Rel(<<"b">>, V)>>}
FromA    == {Rel(<<"b">>, X), Pub(Rel(<<"b">>, XasY)), Root(<<"a", "b">>, <<>>), Root(<<"main">>, X)}
Bare     == {Pub(Rel(<<"b">>, <<>>))}
FromB    == {Rel(<<"a">>, X), Rel(<<"a", "b">>, XasY), Pub(Rel(<<"a">>, Y)), Pub(Rel(<<"b">>, XasY)), Lib(<<"a">>, X)}
FromAB   == {Root(<<"a">>, X), Pub(Root(<<"b">>, X))}

MCNames  == {"p", "lib", "main", "a", "b", "x", "y", "module"}
MCEntry  == Main
MCStdlib == <<"lib">>

MCTrees ==
  {(Main :> File(("x" :> Fn("i32", TRUE)) @@ ("w" :> Linked("i32")) @@ ("main" :> Fn("", FALSE)), m)) @@
   (A    :> File(("x" :> Fn("i64", TRUE)) @@ ("y" :> Fn("i32", FALSE)), a)) @@
   (B    :> File(("x" :> Fn("bool", TRUE)) @@ ("b" :> Var("")) @@ ("v" :> Var("y")), b)) @@
   (AB   :> File(("x" :> Decl("struct")), ab)) @@
   (LibA :> File(("x" :> Linked("i64")) @@ ("y" :> Decl("generic")), <<>>)) @@ (Deep :> File(<<>>, <<>>))
     : m \in UpTo2(FromMain) \cup Paths2 \cup Untyped, a \in UpTo2(FromA) \cup UpTo1(Bare),
       b \in UpTo1(FromB), ab \in UpTo1(FromAB)}
=============================================================================
