--------------------------- MODULE MCCallChecking ---------------------------
(***************************************************************************)
(* A small library of plain, overloaded and generic functions and methods, *)
(* and the expressions of depth at most two over it, with some chains of   *)
(* depth three.                                                            *)
(***************************************************************************)
EXTENDS CallChecking

Color == Enum("Color")
S == Struct("S")
F(params, result) == [params |-> params, result |-> result]
T == TypeVar

MCFunctions ==
  [plain |-> <<F(<<I64>>, I32)>>,
   point |-> <<F(<<S>>, Pointer(S))>>,
   pick  |-> <<F(<<I64>>, I64), F(<<Color>>, I32), F(<<Pointer(S)>>, S),
               F(<<I32, I64>>, S), F(<<I64, I32>>, I64)>>,
   id    |-> <<F(<<T>>, T)>>,
   pair  |-> <<F(<<T, T>>, T)>>,
   first |-> <<F(<<Pointer(T), I64>>, T)>>]

MCMethods ==
  [grow |-> <<F(<<Pointer(S)>>, I64), F(<<Pointer(S), I64>>, Pointer(S)),
              F(<<Pointer(S), S>>, S)>>,
   put  |-> <<F(<<Pointer(S), I64>>, Pointer(S))>>,
   copy |-> <<F(<<S>>, S)>>]

Atoms == {Integer, Variable(I32), Variable(S), Variable(Pointer(S)),
          Constant(Color), Constant(Usize)}
Receivers == {Variable(S), Variable(Pointer(S))}

\* the calls with one argument or receiver from "inner", the rest from "outer"
Over(inner, outer) ==
  {Call(f, <<a>>) : f \in {"plain", "point", "pick", "id"}, a \in inner}
  \cup {Call(f, <<a, b>>) : f \in {"pick", "pair", "first"}, a \in inner, b \in outer}
  \cup {Call(f, <<b, a>>) : f \in {"pick", "pair", "first"}, a \in inner, b \in outer}
  \cup {MethodCall(r, m, <<>>) : r \in inner, m \in {"grow", "copy"}}
  \cup {MethodCall(r, m, <<a>>) : r \in inner, m \in {"grow", "put"}, a \in outer}
  \cup {MethodCall(r, m, <<a>>) : r \in Receivers, m \in {"grow", "put"}, a \in inner}

Shallow == Over(Atoms, Atoms)
Deep == Over(Shallow, {Integer, Variable(I32), Variable(S)})

\* builders: a receiver that is itself a chain of calls
Chain(r) == MethodCall(MethodCall(r, "put", <<Integer>>), "put", <<Variable(I32)>>)
Chains == Over({Chain(r) : r \in Receivers}, {Integer, Variable(S)})

MCPrograms ==
  [expected : {I32, I64, S, Pointer(S)}, expr : Shallow \cup Deep \cup Chains]
=============================================================================
