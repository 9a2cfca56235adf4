------------------------- MODULE ExpressionLowering -------------------------
(***************************************************************************)
(* Scalar expressions from the checker to the generated code: types are    *)
(* inferred with hints, casts inserted, constants folded in 64 bits        *)
(* (src/sema/typecheck_expr.c, type_coerce.c), and what is left becomes    *)
(* LLVM instructions (src/codegen/codegen_ops.c, codegen_expr.c).          *)
(*                                                                         *)
(* A program is the declaration  x: expected = expr  in a function.  The   *)
(* widths and the precisions are constants, so that small ones can be      *)
(* checked.  A float is the number it stands for, an integer rounded to    *)
(* its precision: fractions and infinities are left out.                   *)
(***************************************************************************)
EXTENDS Integers, Sequences, TLC

CONSTANTS
  Width,      \* the width of each integer type, of "bool" and of "char"
  Precision,  \* the number of significant bits of "f32" and "f64"
  Names,      \* name |-> [type, const, value]: the variables and constants in scope
  Exprs,      \* expressions: [op, ...]; ++ and -- are applied to names and literals
  Expected    \* types of the declared variable

VARIABLES
  expr,       \* the initializer, checked in place
  expected,
  phase,      \* "parsed", "checked", "generated", "stopped"
  errors,     \* was an error reported?
  result,     \* the value the generated code stores
  memory      \* name |-> the value in its slot when the code is run

vars == <<expr, expected, phase, errors, result, memory>>

\* f32 holds what i16 and u16 do and not what i32 does, f64 what i32 and u32 do
\* and not what i64 does; isize and usize are of 64 bits
ASSUME SizesAssumption ==
  /\ Width["i8"] < Width["i16"] /\ Width["i16"] <= Precision["f32"]
  /\ Precision["f32"] < Width["i32"] - 1 /\ Width["i32"] <= Precision["f64"]
  /\ Precision["f64"] < Width["i64"] - 1
  /\ Width["u8"] = Width["i8"] /\ Width["u16"] = Width["i16"] /\ Width["u32"] = Width["i32"]
  /\ {Width["u64"], Width["usize"], Width["isize"]} = {Width["i64"]}

-----------------------------------------------------------------------------
(* Types (include/sema/type.h, type_utils.c).                              *)

Signed   == {"i8", "i16", "i32", "i64", "isize"}
Unsigned == {"u8", "u16", "u32", "u64"}          \* usize does not count
Ints     == Signed \cup Unsigned \cup {"usize"}
Floats   == {"f32", "f64"}
Numeric  == Ints \cup Floats
Types    == Numeric \cup {"bool", "char"}
NoType   == "none"

Arithmetic == {"add", "sub", "mul", "div", "mod"}
Comparison == {"eq", "neq", "lt", "gt", "le", "ge"}
Logical    == {"and", "or"}
Binary     == Arithmetic \cup Comparison \cup Logical
Stepping   == [preinc |-> 1, predec |-> -1, postinc |-> 1, postdec |-> -1]
Steps      == DOMAIN Stepping

\* Mutant: i32 may become f32, as i16 may.
WidensI32 == [s \in Types |->
  CASE s \in {"i8", "i16"} -> {"i32", "i64", "f32", "f64", "isize"}
    [] s = "i32" -> {"i64", "f32", "f64", "isize"}
    [] s = "f32" -> {"f64"}
    [] OTHER     -> {}]

\* primitive_coercion_matrix
Widens == [s \in Types |->
  CASE s = "i8"  -> {"i16", "i32", "i64", "f32", "f64", "isize"}
    [] s = "i16" -> {"i32", "i64", "f32", "f64", "isize"}
    [] s = "i32" -> {"i64", "f64", "isize"}
    [] s = "u8"  -> {"i16", "i32", "i64", "u16", "u32", "u64", "f32", "f64", "usize", "isize"}
    [] s = "u16" -> {"i32", "i64", "u32", "u64", "f32", "f64", "usize", "isize"}
    [] s = "u32" -> {"i64", "u64", "f64", "usize", "isize"}
    [] s = "f32" -> {"f64"}
    [] s = "usize" -> {"u64"}
    [] s = "isize" -> {"i64"}
    [] OTHER     -> {}]

CanImplicitCast(to, from) == to = from \/ to \in Widens[from]

CanExplicitCast(to, from) ==
  \/ CanImplicitCast(to, from)
  \/ {to, from} \subseteq Numeric \cup {"char"}
  \/ from = "bool" /\ to \in Numeric \cup {"char"}

-----------------------------------------------------------------------------
(* Numbers.                                                                *)

ToUnsigned(w, v) == v % 2^w
ToSigned(w, v)   == LET u == v % 2^w IN IF u >= 2^(w - 1) THEN u - 2^w ELSE u

Abs(n) == IF n < 0 THEN -n ELSE n

\* to the nearest multiple of the unit in the last place, a tie to the even one
Rounded(t, v) ==
  LET a == Abs(v)
      e == CHOOSE n \in 0..a : /\ a < 2^(Precision[t] + n)
                               /\ \A m \in 0..(n - 1) : a >= 2^(Precision[t] + m)
      unit == 2^e
      q == a \div unit
      rest == 2 * (a % unit)
      r == IF rest > unit \/ (rest = unit /\ q % 2 = 1) THEN q + 1 ELSE q
  IN  IF v < 0 THEN -(r * unit) ELSE r * unit

\* C's / and %, which round towards zero
Quotient(a, b) ==
  LET q == Abs(a) \div Abs(b)
  IN  IF (a < 0) = (b < 0) THEN q ELSE -q
Remainder(a, b) == a - b * Quotient(a, b)

Truth(b) == IF b THEN 1 ELSE 0

Apply(op, a, b) ==
  CASE op = "add" -> a + b       [] op = "sub" -> a - b
    [] op = "mul" -> a * b       [] op = "div" -> Quotient(a, b)
    [] op = "mod" -> Remainder(a, b)
    [] op = "eq"  -> Truth(a = b) [] op = "neq" -> Truth(a # b)
    [] op = "lt"  -> Truth(a < b) [] op = "gt"  -> Truth(a > b)
    [] op = "le"  -> Truth(a <= b) [] op = "ge" -> Truth(a >= b)
    [] op = "and" -> Truth(a = 1 /\ b = 1)
    [] op = "or"  -> Truth(a = 1 \/ b = 1)

-----------------------------------------------------------------------------
(* Constants: <<>> or one [kind, value], kept as int64_t, double, int or   *)
(* char (ConstValue).                                                      *)

Int64(v) == ToSigned(Width["i64"], v)
Char(v)  == ToSigned(Width["char"], v)
Double(v) == Rounded("f64", v)
Constant(kind, v) == <<[kind |-> kind, value |-> v]>>
Folded(e) == e.folded # <<>>
Kind(e)   == e.folded[1].kind
Stored(e) == e.folded[1].value

FoldUnary(op, a) ==
  IF ~Folded(a) THEN <<>>
  ELSE IF op = "not" /\ Kind(a) = "bool" THEN Constant("bool", 1 - Stored(a))
  ELSE IF op = "neg" /\ Kind(a) = "int" THEN Constant("int", Int64(-Stored(a)))
  ELSE IF op = "neg" THEN Constant(Kind(a), IF Kind(a) = "float" THEN -Stored(a) ELSE 0)
  ELSE <<>>

\* only numbers are folded, and not by zero
FoldBinary(op, a, b) ==
  IF ~Folded(a) \/ ~Folded(b) THEN <<>>
  ELSE LET kinds == {Kind(a), Kind(b)} IN
    IF op \in {"div", "mod"} /\ Stored(b) = 0 THEN <<>>
    ELSE IF ("float" \in kinds /\ op \notin Logical) \/ kinds = {"int"} THEN
      IF op \in Comparison \cup Logical THEN Constant("bool", Apply(op, Stored(a), Stored(b)))
      ELSE IF kinds = {"int"} THEN Constant("int", Int64(Apply(op, Stored(a), Stored(b))))
      ELSE Constant("float", Double(Apply(op, Stored(a), Stored(b))))
    ELSE <<>>

\* the value of an integer is not cut to the width of its new type, and a bool
\* that becomes a float stays a bool
FoldCast(a, to) ==
  IF ~Folded(a) THEN <<>>
  ELSE IF a.type = "bool" THEN
    IF to \in Floats \cup {"bool"} THEN a.folded
    ELSE Constant(IF to = "char" THEN "char" ELSE "int", Stored(a))
  ELSE IF to \in Floats THEN
    Constant("float", Double(IF a.type = "char" THEN Char(Stored(a)) ELSE Stored(a)))
  ELSE Constant(IF to = "char" THEN "char" ELSE "int",
                IF a.type \in Floats THEN Int64(Stored(a)) ELSE Stored(a))

-----------------------------------------------------------------------------
(* check_expression: the node with its type and its constant.  A type of   *)
(* "none" is the NULL a checker returns; "failed" says that an error was   *)
(* reported below it or for it.                                            *)

Typed(e, type, folded, failed) ==
  [type |-> type, folded |-> folded, failed |-> failed] @@ e
Failed(e, failed) == Typed(e, NoType, <<>>, failed)

\* a literal takes the type it is asked for; an integer asked to be a float is
\* one from then on
CheckLiteral(e, hint) ==
  LET type == CASE e.kind = "int"   -> IF hint \in Numeric THEN hint ELSE "i64"
                [] e.kind = "float" -> IF hint \in Floats THEN hint ELSE "f64"
                [] OTHER            -> e.kind
      kind == IF e.kind = "int" /\ type \in Floats THEN "float" ELSE e.kind
      value == IF kind = "float" THEN Double(e.value) ELSE e.value
  IN  Typed([op |-> "lit", kind |-> kind, value |-> value], type, Constant(kind, value), FALSE)

CheckIdentifier(e) ==
  LET n == Names[e.name]
      kind == CASE n.type \in Ints -> "int" [] n.type \in Floats -> "float" [] OTHER -> n.type
  IN  Typed(e, n.type, IF n.const THEN Constant(kind, n.value) ELSE <<>>, FALSE)

RECURSIVE Check(_, _)

CheckUnary(e, hint) ==
  LET a == Check(e.arg, IF \/ e.op \in {"neg", "plus"} /\ hint \in Numeric
                           \/ e.op = "not" /\ hint = "bool"
                        THEN hint ELSE NoType)
      f == [e EXCEPT !.arg = a]
  IN  CASE a.type = NoType -> Failed(f, a.failed)
        [] e.op = "not" -> IF a.type = "bool" THEN Typed(f, "bool", FoldUnary("not", a), a.failed)
                           ELSE Failed(f, TRUE)
        [] e.op = "neg" -> IF a.type \in Numeric THEN Typed(f, a.type, FoldUnary("neg", a), a.failed)
                           ELSE Failed(f, TRUE)
        [] OTHER -> Failed(f, a.failed)      \* +, ++ and --: no type, no report

\* a literal whose type differs is asked again for the type of the other side
InferredLeft(l, r)  == IF l.op = "lit" /\ l.type # r.type THEN Check(l, r.type) ELSE l
InferredRight(l, r) == IF l.op # "lit" /\ r.op = "lit" /\ l.type # r.type THEN Check(r, l.type) ELSE r

\* Mutant: what is compared need not have one type.
OperandTypeCompared(op, l, r) ==
  IF \/ op \notin Comparison /\ l.type # r.type
     \/ op \in Arithmetic /\ l.type \notin Numeric
     \/ op \in Logical /\ l.type # "bool"
  THEN NoType ELSE l.type

\* the type both operands have, if the operator accepts it
OperandType(op, l, r) ==
  IF \/ l.type # r.type
     \/ op \in Arithmetic /\ l.type \notin Numeric
     \/ op \in Logical /\ l.type # "bool"
  THEN NoType ELSE l.type

CheckBinary(e, hint) ==
  LET lhint == IF e.op \in Arithmetic /\ hint \in Numeric THEN hint ELSE NoType
      l0 == Check(e.left, lhint)
      r0 == Check(e.right, IF l0.type \in Numeric THEN l0.type ELSE lhint)
      l  == InferredLeft(l0, r0)
      r  == InferredRight(l0, r0)
      f  == [e EXCEPT !.left = l, !.right = r]
      type == OperandType(e.op, l, r)
  IN  IF l0.type = NoType \/ r0.type = NoType
      THEN Failed([e EXCEPT !.left = l0, !.right = r0], l0.failed \/ r0.failed)
      ELSE IF type = NoType THEN Failed(f, TRUE)
      ELSE Typed(f, IF e.op \in Arithmetic THEN type ELSE "bool",
                 FoldBinary(e.op, l, r), l.failed \/ r.failed)

CheckCast(e) ==
  LET a == Check(e.arg, NoType)
      f == [e EXCEPT !.arg = a]
  IN  CASE a.type = NoType -> Failed(f, a.failed)
        [] ~CanExplicitCast(e.to, a.type) -> Failed(f, TRUE)
        [] OTHER -> Typed(f, e.to, FoldCast(a, e.to), a.failed)

Check(e, hint) ==
  CASE e.op = "lit"  -> CheckLiteral(e, hint)
    [] e.op = "name" -> CheckIdentifier(e)
    [] e.op = "as"   -> CheckCast(e)
    [] e.op \in Binary -> CheckBinary(e, hint)
    [] OTHER         -> CheckUnary(e, hint)

\* coerce_or_error: the cast wraps the node
Coerce(e, to) ==
  IF e.type = to THEN e
  ELSE IF CanImplicitCast(to, e.type)
  THEN Typed([op |-> "as", arg |-> e, to |-> to], to, FoldCast(e, to), e.failed)
  ELSE [e EXCEPT !.failed = TRUE]

-----------------------------------------------------------------------------
(* codegen_expr.  A value has an LLVM type, <<"int", width>> or            *)
(* <<"float", type>>, and its bits: an integer in 0..2^width-1, for a      *)
(* float its number.  Poison is some value.  A node without a type is      *)
(* generated too: its operands decide.                                     *)

LLVMType(t) == IF t \in Floats THEN <<"float", t>> ELSE <<"int", Width[t]>>
IsInt(llvm) == llvm[1] = "int"
Value(llvm, v) ==
  [llvm |-> llvm, bits |-> IF IsInt(llvm) THEN ToUnsigned(llvm[2], v) ELSE Rounded(llvm[2], v)]
AsSigned(x) == IF IsInt(x.llvm) THEN ToSigned(x.llvm[2], x.bits) ELSE x.bits

\* Mutant: a cast extends the sign whatever the type.
EmitCastSigned(a, from, to) == Value(LLVMType(to), AsSigned(a))

\* zext for the unsigned types, sext, sitofp, trunc and fptosi otherwise
EmitCast(a, from, to) ==
  LET wider == IsInt(a.llvm) /\ IsInt(LLVMType(to)) /\ a.llvm[2] < Width[to]
  IN  Value(LLVMType(to), IF wider /\ from \in Unsigned THEN a.bits ELSE AsSigned(a))

\* add, sub, mul, sdiv, srem and signed comparisons, whatever the type
EmitBinary(e, a, b) ==
  Value(IF e.op \in Arithmetic THEN a.llvm ELSE LLVMType(e.type),
        IF e.op \in {"div", "mod"} /\ b.bits = 0 THEN 0
        ELSE Apply(e.op, AsSigned(a), AsSigned(b)))

\* codegen_const_value
EmitConstant(e) == Value(LLVMType(e.type), IF Kind(e) = "char" THEN Char(Stored(e)) ELSE Stored(e))

\* neg and fneg; "not" compares with zero
EmitUnary(e, a) == Value(a.llvm, IF e.op = "neg" THEN -AsSigned(a) ELSE Truth(a.bits = 0))

Stepped(op, a) == Value(a.llvm, AsSigned(a) + Stepping[op])

\* the value of e when the names hold mem, and what they hold after it
RECURSIVE Emit(_, _), After(_, _)

\* codegen_lvalue and a load: a name's slot, even that of a constant, or a new
\* one for a literal
Loaded(e, mem) == IF e.op = "name" THEN mem[e.name] ELSE Emit(e, mem)

Emit(e, mem) ==
  CASE Folded(e)       -> EmitConstant(e)
    [] e.op = "name"   -> mem[e.name]
    [] e.op \in {"neg", "not"} -> EmitUnary(e, Emit(e.arg, mem))
    [] e.op \in Steps  -> LET a == Loaded(e.arg, mem)
                          IN  IF e.op \in {"preinc", "predec"} THEN Stepped(e.op, a) ELSE a
    [] e.op = "as"     -> EmitCast(Emit(e.arg, mem), e.arg.type, e.to)
    [] e.op \in Binary -> EmitBinary(e, Emit(e.left, mem), Emit(e.right, After(e.left, mem)))

After(e, mem) ==
  CASE Folded(e) \/ e.op = "name" -> mem
    [] e.op \in Steps  -> IF e.arg.op = "name"
                          THEN [mem EXCEPT ![e.arg.name] = Stepped(e.op, @)] ELSE After(e.arg, mem)
    [] e.op \in Binary -> After(e.right, After(e.left, mem))
    [] OTHER           -> After(e.arg, mem)

Parts(e) == CASE e.op \in {"lit", "name"} -> {}
              [] e.op \in Binary -> {e.left, e.right}
              [] OTHER -> {e.arg}

\* The generator stops at e: at an ICE (no code for +; an operand to step, or a
\* truth value, without a type), at the type of an operand that has none (a cast
\* between integer and float), or at instructions LLVMVerifyModule refuses.
StopsAt(e, mem) ==
  LET llvm(part) == Emit(part, mem).llvm
  IN  CASE e.op = "plus" -> TRUE
        [] e.op \in Steps -> e.arg.type = NoType
        [] e.op = "not" -> ~IsInt(llvm(e.arg))
        [] e.op = "as" -> /\ e.arg.type = NoType
                          /\ ~(IsInt(llvm(e.arg)) /\ IsInt(LLVMType(e.to)))
                          /\ llvm(e.arg) # LLVMType(e.to)
        [] e.op \in Binary -> \/ e.op \notin Arithmetic /\ e.type = NoType
                              \/ llvm(e.left) # llvm(e.right)
                              \/ IsInt(llvm(e.left)) = (e.left.type \in Floats)
        [] OTHER -> FALSE
RECURSIVE Stops(_, _)
Stops(e, mem) == (\E part \in Parts(e) : Stops(part, mem)) \/ StopsAt(e, mem)

-----------------------------------------------------------------------------
Init ==
  /\ expr \in Exprs
  /\ expected \in Expected
  /\ phase = "parsed"
  /\ errors = FALSE
  /\ result = <<>>
  /\ memory = [n \in DOMAIN Names |-> Value(LLVMType(Names[n].type), Names[n].value)]

\* check_initializer: an initializer without a type is not coerced
CheckInitializer ==
  /\ phase = "parsed"
  /\ LET e == Check(expr, expected)
         c == IF e.type = NoType THEN e ELSE Coerce(e, expected)
     IN  expr' = c /\ errors' = c.failed
  /\ phase' = "checked"
  /\ UNCHANGED <<expected, result, memory>>

\* only a program without errors is generated, an initializer without a type
\* like any other
Generate ==
  /\ phase = "checked" /\ ~errors
  /\ IF Stops(expr, memory)
     THEN phase' = "stopped" /\ UNCHANGED <<result, memory>>
     ELSE /\ phase' = "generated"
          /\ result' = <<Emit(expr, memory)>>
          /\ memory' = After(expr, memory)
  /\ UNCHANGED <<expr, expected, errors>>

Finished ==
  /\ phase \in {"generated", "stopped"} \/ (phase = "checked" /\ errors)
  /\ UNCHANGED vars

Next == CheckInitializer \/ Generate \/ Finished
Spec == Init /\ [][Next]_vars

-----------------------------------------------------------------------------
(* What an expression means: the numbers of its types, modulo their width  *)
(* (docs/lang/types.md, conversions.md), whatever is folded.               *)

NonNegative == Unsigned \cup {"usize", "char", "bool"}
Wrapped(t, v) == CASE t \in Floats -> Rounded(t, v)
                   [] t = "bool" -> v % 2
                   [] t \in NonNegative -> ToUnsigned(Width[t], v)
                   [] OTHER -> ToSigned(Width[t], v)
Fits(t, v) == Wrapped(t, v) = v

RECURSIVE Meaning(_), Nodes(_)
Meaning(e) ==
  CASE e.op = "lit"  -> Wrapped(e.type, e.value)
    [] e.op = "name" -> Names[e.name].value
    [] e.op = "neg"  -> Wrapped(e.type, -Meaning(e.arg))
    [] e.op = "not"  -> 1 - Meaning(e.arg)
    [] e.op \in {"preinc", "predec"} -> Wrapped(e.arg.type, Meaning(e.arg) + Stepping[e.op])
    [] e.op \in {"postinc", "postdec"} -> Meaning(e.arg)
    [] e.op = "as"   -> Wrapped(e.to, Meaning(e.arg))
    [] OTHER -> Wrapped(e.type, Apply(e.op, Meaning(e.left), Meaning(e.right)))

Nodes(e) == {e} \cup UNION {Nodes(part) : part \in Parts(e)}

\* e steps a name of the number type t
StepOf(e, t) == t \in Numeric /\ e.op \in Steps /\ e.arg.op = "name" /\ Names[e.arg.name].type = t

\* The checker gives +, ++ and -- no type and reports nothing, so that nothing is
\* converted: only  x: T = j++  with j a T, a number, is in order.
Typeless ==
  \E n \in Nodes(expr) : n.op \in {"plus"} \cup Steps /\ ~(n = expr /\ StepOf(n, expected))

\* no division by zero, no inexact one of floats, no float outside the integers
\* it becomes
DefinedAt(n) ==
  /\ n.op \in {"div", "mod"} =>
       /\ Meaning(n.right) # 0
       /\ n.type \in Signed => Fits(n.type, Quotient(Meaning(n.left), Meaning(n.right)))
       /\ n.type \in Floats => Remainder(Meaning(n.left), Meaning(n.right)) = 0
  /\ n.op = "as" /\ n.arg.type \in Floats /\ n.to \notin Floats => Fits(n.to, Meaning(n.arg))
RECURSIVE Defined(_)
Defined(e) == (\A part \in Parts(e) : Defined(part)) /\ DefinedAt(e)

\* every constant has a value of its type
ConstantsFit ==
  \A n \in Nodes(expr) : Folded(n) /\ n.type \in Numeric \cup {"char"} => Fits(n.type, Stored(n))

\* what is not negative is divided, ordered, widened or made a float only below
\* the half of its range
SmallWhenSigned ==
  \A n \in Nodes(expr) :
    n.op \in {"div", "mod", "as"} \cup Comparison =>
      \A part \in Parts(n) : part.type \in NonNegative \cap DOMAIN Width =>
        \/ Meaning(part) < 2^(Width[part.type] - 1)
        \/ n.op = "as" /\ n.to \in Ints /\ part.type # "char"

BoolAsFloat == \E n \in Nodes(expr) : n.op = "as" /\ n.arg.type = "bool" /\ n.to \in Floats

Generated == phase = "generated"
Outcome(t) == IF t \in NonNegative THEN result[1].bits ELSE AsSigned(result[1])

-----------------------------------------------------------------------------
(* Properties.                                                             *)

TypeOK ==
  /\ phase \in {"parsed", "checked", "generated", "stopped"} /\ errors \in BOOLEAN
  /\ DOMAIN memory = DOMAIN Names
  /\ IF Generated THEN Len(result) = 1 ELSE result = <<>>

\* What passes the checker is generated, as well typed code: the generator does
\* not stop, what is stored is of the type of the variable it is stored in, and a
\* constant is of the kind of its type.  An initializer that has no type, and a
\* constant bool that is made a float, are the exceptions.
WellTypedCode ==
  /\ TypeOK
  /\ phase \in {"generated", "stopped"} /\ ~Typeless /\ ~BoolAsFloat =>
       /\ Generated
       /\ result[1].llvm = LLVMType(expected)
       /\ \A n \in Nodes(expr) : Folded(n) => (Kind(n) = "float" <=> n.type \in Floats)

\* The variable gets the value the expression means, folded or not, and a name
\* that is stepped its next one, when the constants fit their types, nothing
\* beyond the signed range is treated as signed and the initializer has a type.
MeaningPreserved ==
  Generated /\ ~Typeless /\ Defined(expr) /\ ConstantsFit /\ SmallWhenSigned /\ ~BoolAsFloat
    => /\ Outcome(expected) = Meaning(expr)
       /\ StepOf(expr, expected) =>
            memory[expr.arg.name] = Value(LLVMType(expected), Meaning(expr.arg) + Stepping[expr.op])

\* A conversion the checker makes unasked loses nothing: the widened integer, and
\* the integer that is made a float, is the same number.
PromotionsLossless ==
  Generated /\ ~Typeless /\ expr.op = "as" /\ CanImplicitCast(expr.to, expr.arg.type)
    => Meaning(expr) = Meaning(expr.arg)
=============================================================================
