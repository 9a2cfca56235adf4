---------------------------- MODULE CallChecking ----------------------------
(***************************************************************************)
(* Checking a call: src/src/sema/typecheck_expr.c (check_call_expr,        *)
(* resolve_overload_candidate, infer_type_args) and type_coerce.c.         *)
(*                                                                         *)
(* The checker works on the tree in place.  It checks an argument to learn *)
(* its type, chooses the function, puts the receiver in front of the       *)
(* arguments, and checks every argument again against its parameter,       *)
(* wrapping it in a cast where the types differ.  An argument is therefore *)
(* checked several times, each time as the check before left it: calls     *)
(* that hold their receiver already, casts, members that have become       *)
(* literals.  The question is whether the tree still means what was        *)
(* written.                                                                *)
(*                                                                         *)
(* One declaration  v: expected = expr  is checked.  An error anywhere     *)
(* rejects the program, so a check answers NoType as soon as one has been  *)
(* reported; which errors are reported, and what is checked after the      *)
(* first, is left out.  So are intrinsics, calls of values of a function   *)
(* type, explicit type arguments, float and null literals.                 *)
(***************************************************************************)
EXTENDS Sequences, Naturals, FiniteSets

CONSTANTS
  Functions,   \* name -> its overloads, each [params |-> Seq(type), result |-> type]
  Methods,     \* name -> the overloads of the method of that name, receiver first
  Programs     \* set of [expected |-> type, expr |-> written tree]

VARIABLES
  program,     \* the declaration that is checked
  tree,        \* its initializer, as the checks have left it
  type,        \* the type the last step answered
  phase        \* "written", "checked" or "coerced"

vars == <<program, tree, type, phase>>

-----------------------------------------------------------------------------
(* Types. *)

NoType == [k |-> "none"]
Primitive(name) == [k |-> "primitive", name |-> name]
Pointer(base) == [k |-> "pointer", base |-> base]
Enum(name) == [k |-> "enum", name |-> name]
Struct(name) == [k |-> "struct", name |-> name]
TypeVar == [k |-> "typevar"]

I32 == Primitive("i32")
I64 == Primitive("i64")
Usize == Primitive("usize")

Widening == {<<"i32", "i64">>}   \* the coercion matrix, for the three primitives

\* type_can_implicit_cast
Converts(target, source) ==
  \/ target = source
  \/ /\ source.k = "primitive" /\ target.k = "primitive"
     /\ <<source.name, target.name>> \in Widening
  \/ source.k = "enum" /\ target.k = "primitive"

HasTypeVar(t) == t = TypeVar \/ (t.k = "pointer" /\ t.base = TypeVar)

Substituted(t, T) ==
  IF T = NoType THEN t
  ELSE IF t = TypeVar THEN T
  ELSE IF t = Pointer(TypeVar) THEN Pointer(T)
  ELSE t

\* infer_type_args for a parameter without structure: it binds the variable
\* or agrees with it; of two other types it compares the kinds only
InferHere(param, provided, T) ==
  IF param = TypeVar
  THEN IF T = NoType THEN [ok |-> TRUE, T |-> provided]
                     ELSE [ok |-> T = provided, T |-> T]
  ELSE [ok |-> param.k = provided.k, T |-> T]

InferTypeArgs(param, provided, T) ==
  IF provided = NoType THEN [ok |-> FALSE, T |-> T]
  ELSE IF param.k = "pointer" /\ provided.k = "pointer"
       THEN InferHere(param.base, provided.base, T)
       ELSE InferHere(param, provided, T)

-----------------------------------------------------------------------------
(* The tree.  A call holds its receiver in "on" (none or one), and in      *)
(* "self" how the receiver was put in front of the arguments: not yet, as  *)
(* it is, by its address, or dereferenced.  The receiver and the first     *)
(* argument are one and the same node of the tree, so "on" stands for both.*)

Integer == [k |-> "integer", type |-> NoType]
Variable(t) == [k |-> "variable", type |-> t]
Constant(t) == [k |-> "constant", type |-> t]   \* a variant, or the length of an array
Cast(t, n) == [k |-> "cast", type |-> t, of |-> n]
Address(n) == [k |-> "address", of |-> n]
Deref(n) == [k |-> "deref", of |-> n]
NoFunction == [params |-> <<>>, result |-> NoType]
Written(name, on, args) ==
  [k |-> "call", name |-> name, on |-> on, args |-> args, self |-> "absent",
   chosen |-> NoFunction]
Call(name, args) == Written(name, <<>>, args)
MethodCall(on, name, args) == Written(name, <<on>>, args)

IsInstanceMethod(n) == n.on # <<>>
Injected(n) == n.self # "absent"

Receiver(n) ==
  CASE n.self = "address" -> Address(n.on[1])
    [] n.self = "deref" -> Deref(n.on[1])
    [] OTHER -> n.on[1]

\* call->args, the receiver included once it is there
Arguments(n) == IF Injected(n) THEN <<Receiver(n)>> \o n.args ELSE n.args

WithArguments(n, args) ==
  IF ~Injected(n) THEN [n EXCEPT !.args = args]
  ELSE LET self == args[1]
       IN  [n EXCEPT !.args = Tail(args),
                     !.on = IF n.self = "plain" THEN <<self>> ELSE <<self.of>>]

IsLvalue(n) == n.k \in {"variable", "deref"}

-----------------------------------------------------------------------------
(* Choosing the function. *)

\* find_struct_method, through any number of pointers; scope_lookup_symbol
RECURSIVE Underlying(_)
Underlying(t) == IF t.k = "pointer" THEN Underlying(t.base) ELSE t

Candidates(n, on) ==
  IF ~IsInstanceMethod(n) THEN Functions[n.name]
  ELSE IF Underlying(on).k = "struct" THEN Methods[n.name]
  ELSE <<>>

\* resolve_overload_candidate: the parameters compared with the arguments
\* leave out the receiver of an instance method
Compared(f, n) == IF IsInstanceMethod(n) THEN Tail(f.params) ELSE f.params

MatchKind(param, arg) == IF arg = param THEN 2 ELSE IF Converts(param, arg) THEN 1 ELSE 0

Viable(f, n, types) ==
  /\ Len(Compared(f, n)) = Len(types)
  /\ \A p \in DOMAIN types : MatchKind(Compared(f, n)[p], types[p]) > 0

Dominates(b, a, n, types) ==
  LET kind(f, p) == MatchKind(Compared(f, n)[p], types[p])
  IN  /\ \A p \in DOMAIN types : kind(b, p) >= kind(a, p)
      /\ \E p \in DOMAIN types : kind(b, p) > kind(a, p)

ResolveOverload(candidates, n, types) ==
  LET viable == {i \in DOMAIN candidates : Viable(candidates[i], n, types)}
      best == {a \in viable : \A b \in viable :
                 ~Dominates(candidates[b], candidates[a], n, types)}
  IN  IF Cardinality(best) = 1 THEN candidates[CHOOSE i \in best : TRUE] ELSE NoFunction

IsGeneric(f) == \E p \in DOMAIN f.params : HasTypeVar(f.params[p])

\* instantiate_generic_function, as far as the signature goes
Instance(f, T) ==
  [params |-> [p \in DOMAIN f.params |-> Substituted(f.params[p], T)],
   result |-> Substituted(f.result, T)]

-----------------------------------------------------------------------------
(* coerce_or_error and insert_cast, on a node that has just been checked. *)

Checked(node, t) == [node |-> node, type |-> t]
Rejected(node) == Checked(node, NoType)

\* Mutant: the cast is not inserted
CoerceUncast(r, target) ==
  IF r.type # NoType /\ Converts(target, r.type) THEN Checked(r.node, target)
  ELSE Rejected(r.node)

Coerce(r, target) ==
  IF r.type = NoType \/ r.type = target THEN r
  ELSE IF Converts(target, r.type) THEN Checked(Cast(target, r.node), target)
  ELSE Rejected(r.node)

-----------------------------------------------------------------------------
(* check_expression.  Everything below it goes through Check. *)

RECURSIVE Check(_, _)

\* check_literal; the type stays on the node
CheckInteger(n, hint) ==
  LET t == IF hint.k = "enum" \/ hint.k = "primitive" THEN hint ELSE I64
  IN  Checked([n EXCEPT !.type = t], t)

\* check_member_expr on an enum or an array: the node becomes a literal that
\* has its own type this once
CheckConstant(n) == Checked([k |-> "integer", type |-> n.type], n.type)

CheckCast(n) ==
  LET r == Check(n.of, NoType)
  IN  Checked([n EXCEPT !.of = r.node], IF r.type = NoType THEN NoType ELSE n.type)

\* check_unary, on the two nodes the receiver is wrapped in
CheckAddress(n) ==
  LET r == Check(n.of, NoType)
  IN  IF r.type # NoType /\ IsLvalue(r.node)
      THEN Checked(Address(r.node), Pointer(r.type)) ELSE Rejected(Address(r.node))

CheckDeref(n) ==
  LET r == Check(n.of, NoType)
  IN  IF r.type.k = "pointer"
      THEN Checked(Deref(r.node), r.type.base) ELSE Rejected(Deref(r.node))

\* the arguments of n, each checked against its hint
CheckArguments(n, hints) ==
  [i \in DOMAIN Arguments(n) |-> Check(Arguments(n)[i], hints[i])]

Nodes(results) == [i \in DOMAIN results |-> results[i].node]
Types(results) == [i \in DOMAIN results |-> results[i].type]
AllTyped(results) == \A i \in DOMAIN results : results[i].type # NoType

\* a call whose function is chosen, or is not
Chosen(n, f) == [node |-> [n EXCEPT !.chosen = f], function |-> f]

\* the overload set: the arguments are checked without a hint
ChooseOverload(n, candidates) ==
  LET results == CheckArguments(n, [i \in DOMAIN Arguments(n) |-> NoType])
      checked == WithArguments(n, Nodes(results))
  IN  IF AllTyped(results)
      THEN Chosen(checked, ResolveOverload(candidates, n, Types(results)))
      ELSE Chosen(checked, NoFunction)

\* a generic function: the expected type first, then the arguments in order,
\* each checked with what is known of its parameter by then
ChooseInstance(n, f, hint) ==
  LET given == Arguments(n)
      first == IF IsInstanceMethod(n) THEN 1 ELSE 0
      step[i \in 0 .. Len(given)] ==
        IF i = 0
        THEN [ok |-> TRUE, T |-> InferTypeArgs(f.result, hint, NoType).T, nodes |-> <<>>]
        ELSE LET before == step[i - 1]
                 known == first + i <= Len(f.params)
                 param == IF known THEN f.params[first + i] ELSE NoType
                 wanted == Substituted(param, before.T)
                 r == Check(given[i], IF HasTypeVar(wanted) THEN NoType ELSE wanted)
                 inferred == IF known THEN InferTypeArgs(param, r.type, before.T)
                             ELSE [ok |-> r.type # NoType, T |-> before.T]
             IN  [ok |-> before.ok /\ inferred.ok, T |-> inferred.T,
                  nodes |-> Append(before.nodes, r.node)]
      last == step[Len(given)]
  IN  Chosen(WithArguments(n, last.nodes),
             IF last.ok /\ last.T # NoType THEN Instance(f, last.T) ELSE NoFunction)

Choose(n, on, hint) ==
  LET candidates == Candidates(n, on)
  IN  IF Len(candidates) > 1 THEN ChooseOverload(n, candidates)
      ELSE IF Len(candidates) = 0 THEN Chosen(n, NoFunction)
      ELSE IF IsGeneric(candidates[1]) THEN ChooseInstance(n, candidates[1], hint)
      ELSE Chosen(n, candidates[1])

\* self injection, once for a node
Adjustment(on, param) ==
  IF on.k # "pointer" /\ param.k = "pointer" THEN "address"
  ELSE IF on.k = "pointer" /\ param.k # "pointer" THEN "deref"
  ELSE "plain"

\* Mutant: the receiver is put in front on every check, so a second check
\* finds the one before among the arguments
InjectSelfAgain(n, on) ==
  IF IsInstanceMethod(n) /\ n.chosen.params # <<>>
  THEN [n EXCEPT !.self = Adjustment(on, n.chosen.params[1]),
                 !.args = IF Injected(n) THEN <<Receiver(n)>> \o n.args ELSE n.args]
  ELSE n

InjectSelf(n, on) ==
  IF IsInstanceMethod(n) /\ ~Injected(n) /\ n.chosen.params # <<>>
  THEN [n EXCEPT !.self = Adjustment(on, n.chosen.params[1])]
  ELSE n

\* the last pass: every argument against its parameter
PassArguments(n) ==
  LET params == n.chosen.params
      passed == [i \in DOMAIN Arguments(n) |->
                   Coerce(Check(Arguments(n)[i], params[i]), params[i])]
  IN  IF Len(Arguments(n)) # Len(params) THEN Rejected(n)
      ELSE Checked(WithArguments(n, Nodes(passed)),
                   IF AllTyped(passed) THEN n.chosen.result ELSE NoType)

\* check_call_expr
CheckCall(n, hint) ==
  LET on == IF IsInstanceMethod(n) THEN Check(n.on[1], NoType) ELSE Checked(n, NoType)
      reached == IF IsInstanceMethod(n) THEN [n EXCEPT !.on = <<on.node>>] ELSE n
      choice == Choose(reached, on.type, hint)
  IN  IF choice.function = NoFunction THEN Rejected(choice.node)
      ELSE PassArguments(InjectSelf(choice.node, on.type))

Check(n, hint) ==
  CASE n.k = "integer" -> CheckInteger(n, hint)
    [] n.k = "variable" -> Checked(n, n.type)
    [] n.k = "constant" -> CheckConstant(n)
    [] n.k = "cast" -> CheckCast(n)
    [] n.k = "address" -> CheckAddress(n)
    [] n.k = "deref" -> CheckDeref(n)
    [] n.k = "call" -> CheckCall(n, hint)

-----------------------------------------------------------------------------
(* check_initializer. *)

Init ==
  /\ program \in Programs
  /\ tree = program.expr
  /\ type = NoType
  /\ phase = "written"

CheckInitializer ==
  /\ phase = "written"
  /\ \E r \in {Check(tree, program.expected)} : tree' = r.node /\ type' = r.type
  /\ phase' = "checked"
  /\ UNCHANGED program

CoerceInitializer ==
  /\ phase = "checked"
  /\ type # NoType
  /\ \E r \in {Coerce(Checked(tree, type), program.expected)} :
       tree' = r.node /\ type' = r.type
  /\ phase' = "coerced"
  /\ UNCHANGED program

Next == CheckInitializer \/ CoerceInitializer

Spec == Init /\ [][Next]_vars

Accepted == phase = "coerced" /\ type # NoType
Refused == (phase = "checked" \/ phase = "coerced") /\ type = NoType

-----------------------------------------------------------------------------
(* What was written: the types and the functions of a tree that nothing    *)
(* changes.  A call means the one best candidate for the types its         *)
(* arguments have on their own, or the instance that the expected type and *)
(* the arguments determine; then each argument is read as a value of its   *)
(* parameter.                                                              *)

RECURSIVE TypeAs(_, _), MeansAs(_, _), Sound(_, _)

\* the type of expression e where a value of type "wanted" is wanted
TypeAs(e, wanted) ==
  CASE e.k = "integer" -> IF wanted.k \in {"enum", "primitive"} THEN wanted ELSE I64
    [] e.k = "variable" \/ e.k = "constant" -> e.type
    [] e.k = "call" -> MeansAs(e, wanted).result

\* the type variable of a generic call: the first thing that determines it
Determined(e, f, wanted) ==
  LET T0 == IF wanted # NoType /\ f.result = TypeVar THEN wanted
            ELSE IF wanted.k = "pointer" /\ f.result = Pointer(TypeVar) THEN wanted.base
            ELSE NoType
      fixing(i) == HasTypeVar(f.params[i])
      early == {i \in DOMAIN e.args : i <= Len(f.params) /\ fixing(i)}
      first == CHOOSE i \in early : \A j \in early : i <= j
      alone == TypeAs(e.args[first], NoType)
  IN  IF T0 # NoType \/ early = {} THEN T0
      ELSE IF f.params[first] = TypeVar THEN alone
      ELSE IF alone.k = "pointer" THEN alone.base
      ELSE NoType

\* every argument of the generic call agrees with the variable, and has the
\* kind of a parameter that does not mention it
Agrees(e, f, T) ==
  \A i \in DOMAIN e.args \cap DOMAIN f.params :
    LET param == Substituted(f.params[i], T)
        given == TypeAs(e.args[i], param)
    IN  IF HasTypeVar(f.params[i]) THEN given = param ELSE given.k = param.k

BestFor(candidates, e) ==
  LET types == [i \in DOMAIN e.args |-> TypeAs(e.args[i], NoType)]
      viable == {f \in candidates : Viable(f, e, types)}
      best == {f \in viable : \A g \in viable : ~Dominates(g, f, e, types)}
  IN  IF \E f \in viable : best = {f} THEN CHOOSE f \in best : TRUE ELSE NoFunction

MeansAs(e, wanted) ==
  LET on == IF IsInstanceMethod(e) THEN TypeAs(e.on[1], NoType) ELSE NoType
      named == Candidates(e, on)
      candidates == {named[i] : i \in DOMAIN named}
      f == CHOOSE g \in candidates : TRUE
      T == Determined(e, f, wanted)
  IN  IF candidates = {} THEN NoFunction
      ELSE IF Cardinality(candidates) > 1
           THEN IF \A i \in DOMAIN e.args : Sound(e.args[i], NoType)
                THEN BestFor(candidates, e) ELSE NoFunction
      ELSE IF ~IsGeneric(f) THEN f
      ELSE IF T # NoType /\ Agrees(e, f, T) THEN Instance(f, T)
      ELSE NoFunction

\* the receiver fits: as it is, dereferenced, or by the address of a place
Receives(e, param) ==
  LET on == TypeAs(e.on[1], NoType)
  IN  \/ on = param
      \/ on = Pointer(param)
      \/ Pointer(on) = param /\ IsLvalue(e.on[1])

\* e is well typed where a value of type "wanted" is wanted
Sound(e, wanted) ==
  e.k = "call" =>
    LET f == MeansAs(e, wanted)
        params == Compared(f, e)
    IN  /\ f # NoFunction
        /\ Len(params) = Len(e.args)
        /\ IsInstanceMethod(e) => Sound(e.on[1], NoType) /\ Receives(e, f.params[1])
        /\ \A i \in DOMAIN e.args : /\ Sound(e.args[i], params[i])
                                    /\ Converts(params[i], TypeAs(e.args[i], params[i]))

WellTyped ==
  /\ Sound(program.expr, program.expected)
  /\ Converts(program.expected, TypeAs(program.expr, program.expected))

-----------------------------------------------------------------------------
(* The trees the checker is known to lose (README, Known disagreements): a *)
(* call of an overloaded method, or a constant handed to an overload set   *)
(* or a generic function, where it is checked from the start once more.    *)

Parts(e) == {e.on[i] : i \in DOMAIN e.on} \cup {e.args[i] : i \in DOMAIN e.args}
Named(e) == IF IsInstanceMethod(e) THEN Methods[e.name] ELSE Functions[e.name]
Overloaded(e) == Len(Named(e)) > 1
Generic(e) == ~Overloaded(e) /\ IsGeneric(Named(e)[1])
ByType(e) == Overloaded(e) \/ Generic(e)

\* the calls of e with whether they are checked more than once, which they
\* are below a receiver or below an argument that chooses the function
RECURSIVE Visits(_, _)
Visits(e, again) ==
  IF e.k # "call" THEN {}
  ELSE {<<e, again>>}
       \cup UNION {Visits(e.on[i], TRUE) : i \in DOMAIN e.on}
       \cup UNION {Visits(e.args[i], again \/ ByType(e)) : i \in DOMAIN e.args}

\* a generic call checks a constant twice by itself where the parameter does
\* not mention the type variable
SurvivesRecheck(e) ==
  \A v \in Visits(e, FALSE) :
    LET c == v[1]
        constants == {i \in DOMAIN c.args : c.args[i].k = "constant"}
    IN  /\ v[2] /\ ByType(c) => ~IsInstanceMethod(c) /\ constants = {}
        /\ Generic(c) => \A i \in constants \cap DOMAIN Named(c)[1].params :
                            HasTypeVar(Named(c)[1].params[i])

\* the functions of the checked tree are those of the written one
RECURSIVE SameFunctions(_, _, _)
SameFunctions(e, n, wanted) ==
  IF n.k = "cast" THEN SameFunctions(e, n.of, wanted)
  ELSE e.k = "call" =>
    LET f == MeansAs(e, wanted)
        params == Compared(f, e)
    IN  /\ n.chosen = f
        /\ \A i \in DOMAIN e.on : SameFunctions(e.on[i], n.on[i], NoType)
        /\ \A i \in DOMAIN e.args : SameFunctions(e.args[i], n.args[i], params[i])

(* However often its parts were checked on the way, a program is accepted  *)
(* exactly when it is well typed as it was written, and every call of it   *)
(* calls the function it meant (check_call_expr's second check of every    *)
(* argument, on a tree the first one has changed).                         *)
CheckedAsWritten ==
  SurvivesRecheck(program.expr) =>
    /\ Accepted => WellTyped /\ SameFunctions(program.expr, tree, program.expected)
    /\ Refused => ~WellTyped

\* the type a checked node stores
TypeIn(n) ==
  CASE n.k = "call" -> n.chosen.result
    [] n.k = "address" -> Pointer(IF n.of.k = "call" THEN n.of.chosen.result ELSE n.of.type)
    [] n.k = "deref" -> (IF n.of.k = "call" THEN n.of.chosen.result ELSE n.of.type).base
    [] OTHER -> n.type

RECURSIVE Calls(_)
Calls(n) ==
  CASE n.k \in {"cast", "address", "deref"} -> Calls(n.of)
    [] n.k = "call" -> {n} \cup UNION {Calls(m) : m \in Parts(n)}
    [] OTHER -> {}

(* In an accepted program every call has exactly the arguments its function*)
(* takes, the receiver once and in front, each of the very type of its     *)
(* parameter, casts included: what the code generator relies on when it    *)
(* emits the call.                                                         *)
CallsWellTyped ==
  Accepted =>
    /\ TypeIn(tree) = program.expected
    /\ \A c \in Calls(tree) :
         LET given == Arguments(c)
         IN  /\ IsInstanceMethod(c) <=> Injected(c)
             /\ [i \in DOMAIN given |-> TypeIn(given[i])] = c.chosen.params
=============================================================================
