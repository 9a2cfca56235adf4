------------------------ MODULE MCExpressionLowering ------------------------
(* Every expression of the shapes below, one and two operators deep, over    *)
(* variables and constants at the ends of their ranges, and the ends of      *)
(* every type assigned to a variable of every type.                          *)
EXTENDS ExpressionLowering

MCWidth == [t \in Ints \cup {"bool", "char"} |->
             CASE t \in {"i8", "u8", "bool", "char"} -> 3
               [] t \in {"i16", "u16"} -> 5
               [] t \in {"i32", "u32"} -> 7
               [] OTHER -> 9]
MCPrecision == [f32 |-> 5, f64 |-> 7]

\* a name is known by what it is declared with
Var(t, v) == [type |-> t, const |-> FALSE, value |-> v]
Const(t, v) == [type |-> t, const |-> TRUE, value |-> v]
Used == {Var("i8", -4), Var("i8", 3), Var("u8", 7), Var("u8", 2), Var("i32", -5), Var("usize", 3),
         Var("f64", 6), Var("bool", 1), Var("char", 2),
         Const("i8", 3), Const("u8", 6), Const("i32", -5), Const("bool", 1), Const("f64", 2)}

\* the least and the greatest integers; a float that needs every bit, and one
\* beyond every integer
Ends(t) == CASE t \in Floats -> {2^MCPrecision[t] - 1, 2^12}
             [] t = "bool" -> {0, 1}
             [] t \in NonNegative -> {0, 2^MCWidth[t] - 1}
             [] OTHER -> {-(2^(MCWidth[t] - 1)), 2^(MCWidth[t] - 1) - 1}
AtEnds == UNION {{Var(t, v) : v \in Ends(t)} : t \in Types}

MCNames == [n \in Used \cup AtEnds |-> n]

Name(n) == [op |-> "name", name |-> n]
Lit(kind, v) == [op |-> "lit", kind |-> kind, value |-> v]
Bin(op, l, r) == [op |-> op, left |-> l, right |-> r]
Un(op, e) == [op |-> op, arg |-> e]
As(e, t) == [op |-> "as", arg |-> e, to |-> t]

Leaves == {Name(n) : n \in Used} \cup {Lit("int", 3), Lit("float", 2), Lit("bool", 1), Lit("char", 1)}
Few    == {Name(Var("i8", 3)), Name(Var("u8", 7)), Name(Const("u8", 6)), Name(Var("i32", -5)), Lit("int", 2)}
Targets == {"i8", "u8", "i32", "u16", "f64", "char"}

Depth1 == {Un(op, e) : op \in {"neg", "not", "plus"} \cup Steps, e \in Leaves}
            \cup {As(e, t) : e \in Leaves, t \in Targets}
            \cup {Bin(op, l, r) : op \in {"add", "div", "lt", "eq", "and"}, l \in Leaves, r \in Leaves}
Inner  == {Bin(op, l, r) : op \in {"sub", "mul", "mod"}, l \in Few, r \in Few}
            \cup {As(e, t) : e \in Few, t \in {"u8", "i32", "f64"}}
            \cup {Un(op, e) : op \in {"neg", "plus", "postinc"}, e \in Few}
Depth2 == {Bin(op, l, r) : op \in {"add", "div", "ge"}, l \in Inner, r \in Few}
            \cup {Bin(op, l, r) : op \in {"add", "neq"}, l \in Few, r \in Inner}
            \cup {As(e, t) : e \in Inner, t \in Targets} \cup {Un(op, e) : op \in {"neg", "not"}, e \in Inner}

MCExprs == {Name(n) : n \in AtEnds} \cup Leaves \cup Depth1 \cup Depth2
MCExpected == Types
=============================================================================
