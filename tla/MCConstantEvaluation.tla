------------------------ MODULE MCConstantEvaluation ------------------------
(* A library unit with one constant and a unit that imports it: three       *)
(* constants that mention each other in every way of the lists below, an    *)
(* array, a struct and a function sized by them, in several orders.         *)
EXTENDS ConstantEvaluation

MCUnits == <<"lib", "main">>
MCNames == {"l", "a", "b", "c", "array", "struct", "fun"}

Global(u, const, uses, literal) ==
  [unit |-> u, kind |-> "global", const |-> const, size |-> NONE, uses |-> uses, literal |-> literal]
Sized(kind, const, size, uses) ==
  [unit |-> "main", kind |-> kind, const |-> const, size |-> size, uses |-> uses, literal |-> 0]

AUses == { <<>>, <<"a">>, <<"b", "c">>, <<"l">>, <<"b", "array">> }
BUses == { <<>>, <<"a">>, <<"c", "c">>, <<"l">> }
CUses == { <<>>, <<"b">> }

\* the library's constant, also in an import cycle that leaves its name unknown
Libraries == { [uses |-> <<>>, imports |-> {}], [uses |-> <<"a">>, imports |-> {"a"}] }
Sizes == {NONE, "a", "c"}
FunUses == { <<"a", "b">>, <<"l">> }
Orders == { <<"l", "a", "b", "c", "array", "struct", "fun">>,
            <<"fun", "array", "c", "b", "struct", "a", "l">>,
            <<"b", "fun", "l", "array", "a", "c", "struct">> }

MCPrograms ==
  {[decls |-> [l |-> Global("lib", TRUE, lib.uses, 5), a |-> Global("main", TRUE, ua, 1),
               b |-> Global("main", cb, ub, 2), c |-> Global("main", TRUE, uc, 3),
               array |-> Sized("global", FALSE, s, <<"a">>),
               struct |-> Sized("struct", FALSE, s, <<>>),
               fun |-> Sized("function", FALSE, s, uf)],
    imports |-> [lib |-> lib.imports, main |-> {"l"}], order |-> o] :
   ua \in AUses, ub \in BUses, uc \in CUses, cb \in BOOLEAN, s \in Sizes,
   uf \in FunUses, lib \in Libraries, o \in Orders}
=============================================================================
