--------------------------- MODULE MCModuleLoader ---------------------------
(***************************************************************************)
(* Source trees for ModuleLoader.  The project has an entry file, a file a *)
(* with a directory a/ beside it, a module b that is a file or a directory *)
(* with a module file, and a library with its own a, so one name means     *)
(* several files and one file has several logical paths.                   *)
(***************************************************************************)
EXTENDS ModuleLoader, TLC

Main == <<"p", "main">>
A    == <<"p", "a">>
B    == <<"p", "b">>
BDir == <<"p", "b", "module">>
AB   == <<"p", "a", "b">>
LibA == <<"lib", "a">>

Import(form, dots, parts) == [form |-> form, dots |-> dots, parts |-> parts]
Rel(parts)  == Import("relative", 1, parts)
RelUp(parts) == Import("relative", 2, parts)
Root(parts) == Import("root", 0, parts)
Lib(parts)  == Import("library", 0, parts)

UpTo1(S) == {<<>>} \cup {<<x>> : x \in S}
UpTo2(S) == UpTo1(S) \cup {<<x, y>> : x, y \in S}

Good(imports) == [fate |-> "ok", imports |-> imports]
Bad(fate)     == [fate |-> fate, imports |-> <<>>]

FromMain == {Rel(<<"a">>), Root(<<"b">>), Root(<<"a", "b">>), Lib(<<"a">>)}
FromA    == {Rel(<<"b">>), Rel(<<"a", "b">>), Root(<<"main">>), Rel(<<"none">>)}
FromB    == {Rel(<<"a">>), RelUp(<<"a">>), Root(<<"main">>), Lib(<<"a">>)}
FromAB   == {RelUp(<<"b">>), Rel(<<"b">>), Root(<<"a">>)}

MCNames  == {"p", "lib", "main", "a", "b", "none", "module"}
MCEntry  == Main
MCStdlib == <<"lib">>

\* every way the four project files can import each other within these menus
MCTrees ==
  {(Main :> Good(m)) @@ (A :> Good(a)) @@ (bFile :> Good(b)) @@ (AB :> Good(ab)) @@ (LibA :> l)
     : bFile \in {B, BDir}, m \in UpTo2(FromMain), a \in UpTo2(FromA), b \in UpTo1(FromB),
       ab \in UpTo1(FromAB), l \in {Good(<<>>), Bad("lexError")}}
=============================================================================
