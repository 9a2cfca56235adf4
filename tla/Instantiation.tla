--------------------------- MODULE Instantiation ---------------------------
(***************************************************************************)
(* Monomorphisation in the type checker (src/sema/typecheck.c): generic    *)
(* structs are queued and made concrete when the queue is drained, generic *)
(* functions and methods are cloned and checked by recursion, and one      *)
(* depth counter, shared by both, is what stops a program that             *)
(* instantiates itself with ever larger types.                             *)
(*                                                                         *)
(* A type is the sequence of its constructors, outermost first, over one   *)
(* plain type <<>>: <<"Box", "ptr">> is Box<*i32>.  Templates have one     *)
(* type parameter.  What a declaration mentions is a sequence of uses: a   *)
(* type, a call of a generic function, or a call of a method.              *)
(***************************************************************************)
EXTENDS Integers, Sequences, FiniteSets, Functions

CONSTANTS
  Constructors,       \* what types are built with: pointers, arrays, structs
  Structs,            \* generic struct templates, constructors of types
  Arrays,             \* array constructors, one per length
  FunctionSymbols,    \* symbols of generic functions
  Declaration,        \* symbol |-> template: an imported symbol is a copy
  Methods,            \* methods of the generic structs
  MaxMonoDepth,       \* 64 in the code
  Programs            \* the programs that may be checked

FunctionTemplates == {Declaration[s] : s \in FunctionSymbols}
Templates == FunctionTemplates \cup Methods

ASSUME TemplatesAssumption ==
  /\ Structs \subseteq Constructors
  /\ DOMAIN Declaration = FunctionSymbols
  /\ FunctionTemplates \cap Methods = {}
  /\ MaxMonoDepth \in Nat

\* what a declaration mentions: of are the constructors around the type
\* parameter if it is open, around the plain type if not
Types      == Seq(Constructors)
TypeUses   == [what : {"type"}, of : Types, open : BOOLEAN, arity : Nat]
CallUses   == [what : {"call"}, of : Types, open : BOOLEAN, arity : Nat, name : FunctionSymbols]
MethodUses == [what : {"method"}, of : Types, open : BOOLEAN, arity : Nat, name : Methods]
Uses       == TypeUses \cup CallUses \cup MethodUses

\* a field and a parameter have a type and nothing else; calls are in bodies, for
\* an array's size that calls a function is refused as not constant
ASSUME ProgramsAssumption ==
  \A p \in Programs :
    /\ p.signatures \in Seq(TypeUses) /\ p.bodies \in Seq(Uses)
    /\ DOMAIN p.fields = Structs      /\ \A s \in Structs : p.fields[s] \in Seq(TypeUses)
    /\ DOMAIN p.signature = Templates /\ \A t \in Templates : p.signature[t] \in Seq(TypeUses)
    /\ DOMAIN p.body = Templates      /\ \A t \in Templates : p.body[t] \in Seq(Uses)

VARIABLES
  program,            \* the declarations of the program
  pass,               \* current_pass: 0 signatures, 1 bodies
  mono_queue,         \* jobs: [inst, depth]
  concrete,           \* the instances with a concrete_type
  is_draining,
  current_mono_depth,
  overloads,          \* symbol |-> the instances cached at it
  methods,            \* the methods monomorphised: [inst, method]
  mono_instances,     \* what is handed to code generation, in order
  bound,              \* calls that were bound: [wanted, got]
  errors,
  stack               \* the C call stack: frames [role, inst, symbol, todo]

structVars == <<mono_queue, concrete>>
funVars    == <<overloads, methods, mono_instances, bound>>
vars == <<program, pass, structVars, is_draining, current_mono_depth, funVars,
          errors, stack>>

-----------------------------------------------------------------------------
(* What a use asks for.                                                    *)

\* the type or instance a use names where the type parameter is arg
Named(use, arg) == use.of \o (IF use.open THEN arg ELSE <<>>)

\* the requests of one use: generic structs inside out, then the call
Requests(use, arg) ==
  LET full == Named(use, arg)
      inst(i) == [what |-> "struct", inst |-> SubSeq(full, i, Len(full)), arity |-> use.arity]
      structs == {i \in 1..Len(use.of) : use.of[i] \in Structs}
  IN  [n \in 1..Cardinality(structs) |->
        inst(CHOOSE i \in structs : Cardinality({j \in structs : j >= i}) = n)]
      \o IF use.what = "type" THEN <<>>
         ELSE << [what |-> use.what, inst |-> full, arity |-> use.arity,
                  name |-> use.name] >>

\* uses one after the other: a failed request gives up the rest of its use
Groups(uses, arg) == [i \in DOMAIN uses |-> Requests(uses[i], arg)]

\* type_to_mangled_str_append: an array's length is not part of its name
Mangled(type) == [i \in DOMAIN type |-> IF type[i] \in Arrays THEN "arr" ELSE type[i]]

-----------------------------------------------------------------------------
Frame(role, symbol, inst, todo) ==
  [role |-> role, symbol |-> symbol, inst |-> inst, todo |-> todo]

Top == Head(stack)
Request == Head(Head(Top.todo))

\* the next request is w, made while checking something
Asked(w) == stack # <<>> /\ Top.todo # <<>> /\ Head(Top.todo) # <<>> /\ Request.what = w

Advanced == [Top EXCEPT !.todo[1] = Tail(@)]
GivenUp  == [Top EXCEPT !.todo = Tail(@)]

Return(frame) == stack' = <<frame>> \o Tail(stack)
Call(frame)   == stack' = <<frame, Advanced>> \o Tail(stack)

Fail(e) == errors' = errors \cup {e} /\ Return(GivenUp)

Init ==
  /\ program \in Programs
  /\ pass = 0
  /\ mono_queue = <<>> /\ concrete = {}
  /\ is_draining = FALSE
  /\ current_mono_depth = 0
  /\ overloads = [s \in FunctionSymbols |-> <<>>]
  /\ methods = {} /\ mono_instances = <<>> /\ bound = {}
  /\ errors = {}
  /\ stack = <<Frame("program", "none", <<>>, Groups(program.signatures, <<>>))>>

\* all that a use asks for is there: the walk goes on to the next one
NextUse ==
  /\ stack # <<>> /\ Top.todo # <<>> /\ Head(Top.todo) = <<>>
  /\ Return(GivenUp)
  /\ UNCHANGED <<program, pass, structVars, is_draining, current_mono_depth, funVars, errors>>

-----------------------------------------------------------------------------
(* instantiate_generic_struct, with the drain_mono_queue after it.         *)

\* the checks at the head of both instantiate_generic_struct and _function
Refused(w) ==
  /\ Asked(w)
  /\ \/ Request.arity # 1 /\ Fail("arity")
     \/ Request.arity = 1 /\ current_mono_depth > MaxMonoDepth /\ Fail("depth")
  /\ UNCHANGED <<program, pass, structVars, is_draining, current_mono_depth, funVars>>

RefuseStruct == Refused("struct")

Queued(inst) == \E i \in DOMAIN mono_queue : mono_queue[i].inst = inst

\* Mutant: bodies rely on the drain after the signatures
StartDrainNever == is_draining' = is_draining /\ Return(Advanced)

\* drain_mono_queue as called after a request: nothing to do if it is running
StartDrain ==
  IF pass > 0 /\ ~is_draining
  THEN is_draining' = TRUE /\ Call(Frame("drain", "none", <<>>, <<>>))
  ELSE is_draining' = is_draining /\ Return(Advanced)

RequestStruct ==
  /\ Asked("struct")
  /\ Request.arity = 1 /\ current_mono_depth <= MaxMonoDepth
  /\ mono_queue' =
       IF Request.inst \in concrete \/ Queued(Request.inst) THEN mono_queue
       ELSE Append(mono_queue, [inst |-> Request.inst, depth |-> current_mono_depth + 1])
  /\ StartDrain
  /\ UNCHANGED <<program, pass, concrete, current_mono_depth, funVars, errors>>

Pending == {i \in DOMAIN mono_queue : mono_queue[i].inst \notin concrete}
Draining == stack # <<>> /\ Top.role = "drain" /\ Top.todo = <<>>

\* Mutant: a template without fields is skipped before its concrete type is recorded
StartJobUnrecorded ==
  /\ Draining
  /\ \E i \in Pending :
       LET job == mono_queue[i]
           fields == program.fields[Head(job.inst)]
       IN  /\ \A j \in Pending : i <= j
           /\ current_mono_depth' = job.depth
           /\ concrete' = IF fields = <<>> THEN concrete ELSE concrete \cup {job.inst}
           /\ Return(Frame("drain", "none", job.inst, Groups(fields, Tail(job.inst))))
  /\ UNCHANGED <<program, pass, mono_queue, is_draining, funVars, errors>>

\* the loop of drain_mono_queue takes the next job that is not concrete yet;
\* SYMBOL_FLAG_COMPUTING is set for one job at a time and drains do not nest,
\* so the job is never refused for it
StartJob ==
  /\ Draining
  /\ \E i \in Pending :
       LET job == mono_queue[i]
       IN  /\ \A j \in Pending : i <= j
           /\ current_mono_depth' = job.depth
           /\ concrete' = concrete \cup {job.inst}
           /\ Return(Frame("drain", "none", job.inst,
                           Groups(program.fields[Head(job.inst)], Tail(job.inst))))
  /\ UNCHANGED <<program, pass, mono_queue, is_draining, funVars, errors>>

FinishDrain ==
  /\ Draining
  /\ Pending = {}
  /\ is_draining' = FALSE
  /\ stack' = Tail(stack)
  /\ UNCHANGED <<program, pass, structVars, current_mono_depth, funVars, errors>>

-----------------------------------------------------------------------------
(* instantiate_generic_function.                                           *)

RefuseFunction == Refused("call")

Mono(request) == <<Declaration[request.name]>> \o request.inst
\* Mutant: the cache is searched by template only
CachedByTemplate(request) == DOMAIN overloads[request.name]

Cached(request) ==
  {i \in DOMAIN overloads[request.name] :
     Mangled(overloads[request.name][i]) = Mangled(Mono(request))}

CallCached ==
  /\ Asked("call")
  /\ Request.arity = 1 /\ current_mono_depth <= MaxMonoDepth
  /\ \E i \in Cached(Request) :
       /\ \A j \in Cached(Request) : i <= j
       /\ bound' = bound \cup {[wanted |-> Mono(Request), got |-> overloads[Request.name][i]]}
  /\ Return(Advanced)
  /\ UNCHANGED <<program, pass, structVars, is_draining, current_mono_depth, overloads,
                 methods, mono_instances, errors>>

\* clone, count the nesting, resolve the signature
CallNew ==
  /\ Asked("call")
  /\ Request.arity = 1 /\ current_mono_depth <= MaxMonoDepth
  /\ Cached(Request) = {}
  /\ current_mono_depth' = current_mono_depth + 1
  /\ Call(Frame("signature", Request.name, Mono(Request),
               Groups(program.signature[Declaration[Request.name]], Request.inst)))
  /\ UNCHANGED <<program, pass, structVars, is_draining, funVars, errors>>

\* define_symbol_or_error: the first two of a name make a set unseen, a third
\* one must differ from them
Redeclared(inst) ==
  LET same == {i \in DOMAIN mono_instances : Mangled(mono_instances[i]) = Mangled(inst)}
  IN  Cardinality(same) >= 2 /\ \E i \in same : mono_instances[i] = inst

Register(inst) ==
  /\ mono_instances' = Append(mono_instances, inst)
  /\ errors' = IF Redeclared(inst) THEN errors \cup {"redeclared"} ELSE errors

\* Mutant: the instance does not enter the cache of its symbol
CheckBodyUncached ==
  /\ stack # <<>> /\ Top.role = "signature" /\ Top.todo = <<>>
  /\ Register(Top.inst)
  /\ Return(Frame("body", Top.symbol, Top.inst,
                  Groups(program.body[Declaration[Top.symbol]], Tail(Top.inst))))
  /\ UNCHANGED <<program, pass, structVars, is_draining, current_mono_depth, overloads,
                 methods, bound>>

\* the instance enters the cache and the module's scope, then its body is checked
CheckBody ==
  /\ stack # <<>> /\ Top.role = "signature" /\ Top.todo = <<>>
  /\ overloads' = [overloads EXCEPT ![Top.symbol] = Append(@, Top.inst)]
  /\ Register(Top.inst)
  /\ Return(Frame("body", Top.symbol, Top.inst,
                  Groups(program.body[Declaration[Top.symbol]], Tail(Top.inst))))
  /\ UNCHANGED <<program, pass, structVars, is_draining, current_mono_depth, methods, bound>>

\* Mutant: the nesting is not counted down
FinishFunctionDeeper ==
  /\ stack # <<>> /\ Top.role = "body" /\ Top.todo = <<>>
  /\ bound' = bound \cup {[wanted |-> Top.inst, got |-> Top.inst]}
  /\ stack' = Tail(stack)
  /\ UNCHANGED <<program, pass, structVars, is_draining, current_mono_depth, overloads,
                 methods, mono_instances, errors>>

FinishFunction ==
  /\ stack # <<>> /\ Top.role = "body" /\ Top.todo = <<>>
  /\ current_mono_depth' = current_mono_depth - 1
  /\ bound' = bound \cup {[wanted |-> Top.inst, got |-> Top.inst]}
  /\ stack' = Tail(stack)
  /\ UNCHANGED <<program, pass, structVars, is_draining, overloads, methods,
                 mono_instances, errors>>

-----------------------------------------------------------------------------
(* instantiate_generic_method, by way of find_struct_method: no depth.     *)

Method(request) == [inst |-> request.inst, method |-> request.name]

\* find_struct_method finds nothing while the receiver has no concrete type
MethodKnown ==
  /\ Asked("method")
  /\ Request.inst \in concrete /\ Method(Request) \in methods
  /\ Return(Advanced)
  /\ UNCHANGED <<program, pass, structVars, is_draining, current_mono_depth, funVars, errors>>

MethodNew ==
  /\ Asked("method")
  /\ Request.inst \in concrete /\ Method(Request) \notin methods
  /\ Call(Frame("method_signature", Request.name, Request.inst,
               Groups(program.signature[Request.name], Tail(Request.inst))))
  /\ UNCHANGED <<program, pass, structVars, is_draining, current_mono_depth, funVars, errors>>

CheckMethodBody ==
  /\ stack # <<>> /\ Top.role = "method_signature" /\ Top.todo = <<>>
  /\ methods' = methods \cup {[inst |-> Top.inst, method |-> Top.symbol]}
  /\ Register(<<Top.symbol>> \o Top.inst)
  /\ Return(Frame("method_body", Top.symbol, Top.inst,
                  Groups(program.body[Top.symbol], Tail(Top.inst))))
  /\ UNCHANGED <<program, pass, structVars, is_draining, current_mono_depth, overloads, bound>>

FinishMethod ==
  /\ stack # <<>> /\ Top.role = "method_body" /\ Top.todo = <<>>
  /\ stack' = Tail(stack)
  /\ UNCHANGED <<program, pass, structVars, is_draining, current_mono_depth, funVars, errors>>

-----------------------------------------------------------------------------
(* typecheck_program: signatures, one drain, bodies.                       *)

AtProgram == stack # <<>> /\ Top.role = "program" /\ Top.todo = <<>>

CheckBodies ==
  /\ AtProgram /\ pass = 0
  /\ pass' = 1
  /\ is_draining' = TRUE
  /\ stack' = << Frame("drain", "none", <<>>, <<>>),
                 Frame("program", "none", <<>>, Groups(program.bodies, <<>>)) >>
  /\ UNCHANGED <<program, structVars, current_mono_depth, funVars, errors>>

FinishProgram ==
  /\ AtProgram /\ pass = 1
  /\ stack' = <<>>
  /\ UNCHANGED <<program, pass, structVars, is_draining, current_mono_depth, funVars, errors>>

Done == stack = <<>>
Finished == Done /\ UNCHANGED vars

Next ==
  \/ NextUse
  \/ RefuseStruct \/ RequestStruct
  \/ StartJob \/ FinishDrain
  \/ RefuseFunction \/ CallCached \/ CallNew \/ CheckBody \/ FinishFunction
  \/ MethodKnown \/ MethodNew \/ CheckMethodBody \/ FinishMethod
  \/ CheckBodies \/ FinishProgram \/ Finished

Spec == Init /\ [][Next]_vars /\ WF_vars(Next)

-----------------------------------------------------------------------------
(* Properties.                                                             *)

Roles == {"program", "drain", "signature", "body", "method_signature", "method_body"}
Nested == Cardinality({i \in DOMAIN stack : stack[i].role \in {"signature", "body"}})

\* Well-typed state.  Every instance is queued once, only queued instances are
\* made concrete, and the flag is set exactly while one drain is on the C stack.
TypeOK ==
  /\ pass \in {0, 1}
  /\ IsInjective([i \in DOMAIN mono_queue |-> mono_queue[i].inst])
  /\ \A i \in DOMAIN mono_queue : Head(mono_queue[i].inst) \in Structs
  /\ concrete \subseteq {mono_queue[i].inst : i \in DOMAIN mono_queue}
  /\ current_mono_depth \in 0..MaxMonoDepth + 1
  /\ errors \subseteq {"arity", "depth", "redeclared"}
  /\ \A i \in DOMAIN stack : stack[i].role \in Roles
  /\ Cardinality({i \in DOMAIN stack : stack[i].role = "drain"}) = IF is_draining THEN 1 ELSE 0

\* While bodies are checked and no drain is under way, every struct instance
\* asked for so far is concrete: member accesses and method lookups rely on it,
\* although a request made inside a drain returns before its own job has run.
SettledOutsideDrain == pass = 1 /\ ~is_draining => Pending = {}

\* The counter is at least the number of instantiations in progress (so that the
\* limit stops every runaway), and exceeds it by at most the structs queued.
DepthAccountsForNesting ==
  Nested <= current_mono_depth /\ current_mono_depth <= Nested + Len(mono_queue)

\* Nothing is done twice: an instance is queued once, one drain is under way at
\* most, and a function or method is not entered again for an instance that is
\* being checked.
NoReentry ==
  /\ TypeOK
  /\ \A i, j \in DOMAIN stack :
       i # j /\ stack[i].role \notin {"program", "drain"} /\ stack[j].role = stack[i].role
         => stack[i].inst # stack[j].inst \/ stack[i].symbol # stack[j].symbol

Satisfied(request) ==
  CASE request.what = "struct" -> request.inst \in concrete
    [] request.what = "method" -> Method(request) \in methods
    [] OTHER -> \E i \in DOMAIN mono_instances :
                  Mangled(mono_instances[i]) = Mangled(Mono(request))

AllSatisfied(uses, arg) ==
  \A i \in DOMAIN uses : \A n \in DOMAIN Requests(uses[i], arg) : Satisfied(Requests(uses[i], arg)[n])

\* Nothing is forgotten: when checking ends without an error, whatever the
\* program and each of the instances mention has itself been instantiated.
InstancesAreClosed ==
  Done /\ errors = {} =>
    /\ AllSatisfied(program.signatures, <<>>)
    /\ AllSatisfied(program.bodies, <<>>)
    /\ \A inst \in concrete : AllSatisfied(program.fields[Head(inst)], Tail(inst))
    /\ \A i \in DOMAIN mono_instances :
         LET inst == mono_instances[i]
             arg  == IF Head(inst) \in Methods THEN Tail(Tail(inst)) ELSE Tail(inst)
         IN  AllSatisfied(program.signature[Head(inst)] \o program.body[Head(inst)], arg)

\* Type checking ends for every program, also one that asks for ever larger types.
CheckingEnds == <>Done

-----------------------------------------------------------------------------
(* What the documents say of the same code and does not hold of it.        *)

\* A call is bound to the instance for its own type arguments.
CallsGetTheirInstance == \A b \in bound : b.wanted = b.got
=============================================================================
