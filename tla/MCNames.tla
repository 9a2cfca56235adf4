------------------------------ MODULE MCNames ------------------------------
(* Bodies of up to six items over one name, of four over two, and the      *)
(* aliases and imports of three units under bodies of one or two items.    *)
EXTENDS Names

MCUnits == <<"low", "middle", "main">>

G(n, pub) == [name |-> n, pub |-> pub]
I(from, n, as, pub) == [from |-> from, name |-> n, as |-> as, pub |-> pub]
A(n, in, target) == [name |-> n, in |-> in, target |-> target]

Empty == [globals |-> <<>>, imports |-> <<>>, aliases |-> <<>>]
Alone(globals) == [u \in Range(MCUnits) |->
                     IF u = "main" THEN [Empty EXCEPT !.globals = globals] ELSE Empty]

Bodies ==
  { [unit |-> Alone(<<G("x", FALSE)>>), params |-> <<>>, names |-> {"x"}, room |-> 6],
    [unit |-> Alone(<<>>), params |-> <<"x">>, names |-> {"x"}, room |-> 5],
    [unit |-> Alone(<<G("x", FALSE)>>), params |-> <<"y">>, names |-> {"x", "y"}, room |-> 4] }

\* `low' has a public x and a y; `middle' may pass x on, under either name
LowUnit == {[Empty EXCEPT !.globals = <<G("x", TRUE), G("y", p)>>] : p \in BOOLEAN}
MiddleUnit ==
  {[Empty EXCEPT !.globals = g, !.imports = i] :
     g \in {<<>>, <<G("y", TRUE)>>},
     i \in {<<>>, <<I("low", "x", "x", TRUE)>>, <<I("low", "x", "x", FALSE)>>}}
MainImports ==
  { <<I("middle", NONE, NONE, FALSE)>>,
    <<I("low", NONE, NONE, FALSE), I("low", "x", "x", FALSE)>>,
    <<I("low", "x", "y", FALSE)>>,
    <<I("low", "y", "y", FALSE), I("middle", "x", "x", FALSE)>> }
Targets(n) == {A(n, NONE, t) : t \in {"x", "a", "b"}} \cup {A(n, m, "x") : m \in {"low", "middle"}}
MainAliases ==
  {<<>>} \cup {<<a>> : a \in Targets("a")} \cup (Targets("a") \X Targets("b"))

Linked ==
  { [unit |-> [u \in Range(MCUnits) |->
                 CASE u = "low" -> l [] u = "middle" -> m
                   [] OTHER -> [Empty EXCEPT !.imports = i, !.aliases = s]],
     params |-> <<>>, names |-> {"x", "a", "y"}, room |-> 1] :
      l \in LowUnit, m \in MiddleUnit, i \in MainImports, s \in MainAliases }

\* a local and an alias of the same names
Shadowed ==
  { [unit |-> [u \in Range(MCUnits) |->
                 CASE u = "low" -> [Empty EXCEPT !.globals = <<G("x", TRUE)>>]
                   [] u = "main" -> [Empty EXCEPT !.imports = <<I("low", "x", "x", FALSE)>>,
                                                  !.aliases = <<A("a", "low", "x")>>]
                   [] OTHER -> Empty],
     params |-> <<>>, names |-> {"x", "a"}, room |-> 3] }

MCPrograms == Bodies \cup Linked \cup Shadowed
=============================================================================
