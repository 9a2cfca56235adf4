# A verification project for the newt compiler

newt is a small ahead-of-time compiled language; its compiler is a C program of
about 14,000 lines that loads a tree of source modules, checks them and hands
them to LLVM. This directory holds TLA+ modules that model the parts of the
compiler whose correctness depends on *order*: recursion through cyclic import
graphs, passes that see half-built state, caches and queues that are re-entered,
generated control flow. TLC checks them on small instances; for some properties
TLAPS proves them for every instance.

Paths below are relative to the repository.

## 1. The system

One process, one thread, no persistence. `main.c` runs the phases in order and
turns the first failure into an exit code:

    cli options -> load modules -> semantic pass -> code generation -> object, link, run
                   (lexer, parser)  (scopes, types)   (LLVM builder)

All phases share one arena, three interners (keywords, identifiers, strings) and
the `ModuleLoader`'s table of compilation units. Nothing is ever freed from the
arena, so what one phase leaves behind every later phase sees; what goes wrong
is that it is seen too early, too late, or under another name.

| component | state it keeps | operations | what makes it correct |
|---|---|---|---|
| **Module loader** `core/module_loader.c` | `units` (by file), `units_by_logical_path`, `units_ordered`, `project_root`, each unit's `logical_path`, each import's `resolved_logical_path`, the C stack | `load_module_recursive`, `module_loader_get_unit` | each file once, through import cycles too; nothing half-loaded survives a failure; dependencies before importers; it ends |
| **Import resolution, signature pass** `sema/typecheck.c` 432-600, 1379-1563, `datastructures/scope.c` | one global scope per unit, namespace scopes, overload sets, `ctx->errors` | `register_program_*`, `resolve_imports`, `resolve_program_*`, `scope_define_symbol`, `scope_overload_set_add` | an import binds to the file it names; errors only for what is wrong; privacy; copies carry a type |
| **Scope lookup, aliases** `scope.c` 164-219, `resolve_program_aliases` | scope chain, alias targets | `scope_lookup_symbol` | innermost visible definition; alias chains end |
| **Generic instantiation** `typecheck.c` 1713-2090 | `mono_queue`, `is_draining`, `current_mono_depth`, per-symbol caches, `mono_instances`, `SYMBOL_FLAG_COMPUTING` | `instantiate_generic_struct/function/method`, `drain_mono_queue` | each instance once; the depth limit bounds every recursion and nothing else |
| **Global constants** `check_variable_declaration`, `check_identifier` | symbol flags, cached values, `last_checked_pass` | demand-driven evaluation | evaluated once, order-independent; cycles reported |
| **Expressions, overloads** `typecheck_expr.c` | annotations on the AST | `check_expression`, call and overload resolution | one best candidate or a report |
| **Types, coercion** `type.c`, `type_coerce.c` | interned types, registries | `intern_type`, `check_assignable`, folding | equal types are one pointer; folded values are what the program would compute |
| **Statement code generation** `codegen_stmt.c`, `codegen_decl.c` | insert block, `current_cleanup_bb`, `exit_dest_var`, `loop_*_bb`, `deferred_actions` | `codegen_statement`, `codegen_func_body` | every block ends once; every run of the code is a run of the statement |
| **Expression code generation** `codegen_expr/call/ops/lvalue/types` | locals map | builder calls | one-to-one with the checked tree |
| **Hash map** `datastructures/hash_map.c` | slots, `capacity`, `size`, `tombstones` | put, get, remove, rehash | a finite map, also when growth fails |
| **Interner** `dense_arena_interner.c` | map and dense array | `intern` | one pointer and one index per string |
| **Arena, dynamic array** | blocks, offsets; buffer | alloc, reset, push | disjoint allocations |
| **Lexer** `lexer.c`; **parser** `parsing/*` | cursor; token position | tokenise; recursive descent with look-ahead | consumes every token once |
| **Driver, CLI, metrics, backend** `main.c`, `cli/*`, `codegen_emit.c` | options, exit code | phases | first failure decides |
| **Diagnostics, files, runtime** `type_report.c`, `type_print.c`, `core/*` | none | formatting and I/O | - |
| **Standard library** `lib/std/*.nt` | containers written in newt | - | - |

How they interact: the loader calls the lexer and the parser for each file and
fills `units_ordered`; the semantic pass walks that array twice and reads the
loader's logical-path table for every import; lookups and instantiation find the
defining unit again through `module_loader_get_unit`; code generation reads the
annotations and `mono_instances`. Every table is a `HashMap`; its keys are mostly
interned pointers.

### Behaviours that are hard to test

There is no concurrency and nothing is persisted, so there is no interleaving of
threads and no recovery to get wrong. What is hard is

* **re-entrance**: the loader calls itself through cycles; draining the
  instantiation queue checks types that instantiate; evaluating a constant
  evaluates others; generating a deferred body generates blocks with defers;
* **order**: post-order is a dependency order only for acyclic imports, and a
  symbol copied at import time freezes what was known then;
* **a tree that changes while it is read**: a call's arguments are checked to
  choose the function and checked again against its parameters, each time as the
  check before left them;
* **two tables of the same names**: the checker binds a name to a symbol, the code
  generator finds the storage by the name again, in maps of its own;
* **partial failure**: unwinding out of a failed import; ignored results of
  `hashmap_put`, `scope_define_symbol` and `dynarray_push_value`;
* **shared variables of the code generator** (`current_cleanup_bb`,
  `exit_dest_var`), saved and restored around each construct;
* **boundaries**: load factor and wrap-around of the hash map, depth limits.

`PROJECT.json` lists each at its line, with the properties that cover it.

## 2. Modules

| module | models | role |
|---|---|---|
| `ModuleLoader` | `load_module_recursive` | the loader with an explicit stack |
| `DependencyOrder` | - | what a load promises, over the import graph alone |
| `ModuleLoader_proofs` | - | TLAPS proofs about `ModuleLoader`, refinement included |
| `ImportResolution` | `typecheck_program` up to the end of its first pass | EXTENDS `ModuleLoader`: both run one after the other in one behaviour |
| `ImportResolution_proofs` | - | TLAPS proofs about `ImportResolution` |
| `StatementLowering` | `codegen_statement`, `codegen_func_body` | generates code, then runs it |
| `DeferSemantics` | - | what a function body means, without blocks |
| `HashMap` | `hash_map.c` | the table, growing one entry at a time |
| `KeyValueStore` | - | what a map promises |
| `HashMap_proofs` | - | TLAPS proofs about `HashMap`, refinement included |
| `Instantiation` | `instantiate_generic_struct/function/method`, `drain_mono_queue` | monomorphisation with its queue, recursion and depth counter |
| `Instantiation_proofs` | - | TLAPS proofs about `Instantiation` |
| `ConstantEvaluation` | `check_variable_declaration`, `check_identifier`, array sizes, the two passes | constants evaluated on demand |
| `ConstantEvaluation_proofs` | - | TLAPS proofs about `ConstantEvaluation` |
| `LeastNumber` | - | a set of numbers has a least one: the induction the proofs use, and why recursive functions over positions exist |
| `ExpressionLowering` | `check_expression` for scalars, `type_coerce.c`, `codegen_expr_ops` | inference, folding and instructions, against what an expression means |
| `Parser` | `src/parsing/*` | recursive descent over a file's tokens, with its trials |
| `SourceText` | - | how a syntax tree is written down: precedence and parentheses |
| `Lexer` | `lexer.c` | the files of a program lexed one after the other, with the interners they share |
| `LexicalGrammar` | - | the lexemes of the language as sets of strings |
| `Interner` | `dense_arena_interner.c`, growth of `dynamic_array.c` | a value that `Lexer` keeps three of |
| `Lexer_proofs` | - | TLAPS proofs about `Lexer`, `Interner` and the grammar |
| `Names` | name lookup in `scope.c`, `typecheck.c`, and the maps of `codegen_*.c` | a body is checked, then generated |
| `Names_proofs` | - | TLAPS proofs about `Names` |
| `CallChecking` | `check_call_expr` and what it calls | overloads, inference, receivers and coercions on a tree that is changed in place |
| `MC*` | - | finite instances for TLC |

### ModuleLoader

`stack` is the C call stack: one record per activation of
`load_module_recursive` that has created its unit, with the file, the logical
path it was called with, the next import declaration and the logical path being
passed to the callee. `ctl` is where the thread is: about to call, running the
import loop, or returning with an exit code. Each early return of the function
is an action (`TooDeep`, `Unresolved`, `AlreadyLoaded`, `Rejected`), then
`CreateUnit`, and for the loop `FollowImport`, `ImportLoaded`, `ImportFailed`,
`FinishUnit`. `units`, `byLogical`, `ordered`, `projectRoot` are the loader's
fields; `logicalOf` and `resolved` the fields of units and import declarations.

A path is a sequence of names, `<file>.nt` and `<dir>/module.nt` are told apart
by the last name, and `tree` maps the files that exist to their imports and
whether they can be read, lexed and parsed. The path arithmetic (leading dots,
project root, library directory, the probe for `module.nt`) is modelled, because
which file an import reaches is what the properties are about. Symbolic links
are not: `realpath` is the identity on files that exist. A NULL logical path is
the empty sequence.

### ImportResolution

Continues the same behaviour with `typecheck_program`: `CreateScopes`, and then
per unit in `ordered` the steps A, B, C as `RegisterNames`, `ResolveImports`,
`ResolveSignatures`. `scopes` maps a scope identifier to its symbols; `<<f,<<>>>>`
is the global scope of f, `<<f, path>>` a namespace scope created while f's
imports were bound. A symbol has a kind, `is_pub`, the scope it leads to and its
candidates; a function's type is abstracted to whether it has been resolved and
to the class of its parameter types, a variable's to the name of a type, which its
unit finds or not (`TypeFound`). A generic function never gets a type, nor does a
variable whose type is not found; the pass goes on after that report. `main`
and functions declared with `@link` have no overloads (`NoOverload`).

`resolve_imports` takes one step for each turn of one of its loops. `current` is
the import declaration it is at, `at` its `current_bind_scope`, `item` the
component of the path or the symbol that is next. `FindModule` looks the target
up; while `phase = "path"`, a component is entered (`EnterScope`), created
(`CreateNamespace`), in the way (`PathConflict`), or the last one (`BindModule`);
then each name in the braces is copied (`CopySymbol`) or missing
(`SymbolUndeclared`), and `NextImport` binds the alias. The ignored failures of
`scope_define_symbol` are there (`Defined` leaves the scope as it is), and so are
the dereferences of NULL (`NullScope`, `DefinesInNull`: `phase = "crashed"`).

### StatementLowering

`Init` chooses a function body and generates its code the way
`codegen_func_body` does; the actions run the code one instruction at a time,
with the conditions of `if` and loops chosen freely. The record `st` that the
`Gen*` operators pass along is the part of `CodegenContext` that statements use.
Blocks are labelled by the statement that appends them, so that a label means the
same in the code and in the properties. Expressions are events (`"do"`, `"test"`)
and locals are left out. `DeferSemantics` gives the meaning of a body as a
recursive function; `MeaningPreserved` compares the two for every finished run.

### HashMap

`PutWithRoom`, `PutWithoutMemory` (the rehash could not allocate), `PutGrows`
followed by `MoveEntry` for each slot, `SwapTables` and `InsertPending`; `Get`,
`Remove`. The hash is a constant, and the model instance makes keys collide and
wrap around. `starved` remembers that a growth failed for lack of memory; only a
property uses it.

### Instantiation

`stack` is again the C call stack. A frame has a role (the program, a drain, a
function's or method's signature or body), the instance it works for, and the
uses it has still to do: types, calls of generic functions, calls of methods.
`NextUse` goes on when all that one use asks for is there. A request of `instantiate_generic_struct` is `RefuseStruct` (wrong arity or too
deep) or `RequestStruct`, which queues a job unless the type is known and, in the
second pass outside a drain, starts one: `StartDrain`, `StartJob` for each job in
the order of the queue, jobs appended meanwhile included, `FinishDrain`. A call
is `RefuseFunction`, `CallCached` or `CallNew`, then `CheckBody` and
`FinishFunction`; a method `MethodKnown` or `MethodNew`, `CheckMethodBody`,
`FinishMethod`. `mono_queue`, `is_draining`, `current_mono_depth`,
`mono_instances` are the fields of the context; `overloads` is the per-symbol
list in which instances are cached, under their mangled names, and a symbol
copied by an import has its own. Templates have one type parameter, types are
built with the `Constructors` of the instance of the model (pointers, and the
structs themselves). Fields and signatures mention types only: the one other thing
that could stand there, a call in an array's size, is refused as not constant
(`typecheck.c:257`).

### ConstantEvaluation

`unit`, `loop` and `at` are the place of `typecheck_program`: in the first pass it
goes through each unit's names (`RegisterNames`), then the types of its structs,
globals and functions (`ResolveType`, `NextLoop`, `NextUnit`); in the second
(`StartPass`) through all declarations (`CheckDeclaration`, `CheckFunction`) until it
returns. `stack` holds the expressions being checked, as frames with the names still
to be read. A mention of a constant without a value is a `Demand`, which pushes
the constant's initializer, once for the mention (`asked`); `UseName` then reads what
the symbol has. A name that is not in scope is reported and leaves the expression
without a type (`UseUndeclared`). `check_variable_declaration` returns early when the
declaration was checked in this pass or is being computed (`Skipped`,
`ReturnEarly`); its ends are `FinishType`, `FinishInitializer` and, for an array in a
body, `FinishLocalSize`. `symbols` gives each unit its own symbols, since an
import copies the type and not the flags. An initializer's value is its literal
plus the constants it mentions: enough to tell any two orders of evaluation and
any stale value apart.

### ExpressionLowering

A state is one declaration `x: expected = expr`. `CheckInitializer` is the whole
of the checking, with the tree rewritten in place as the code does: literals
take the type they are asked for, an operand that is a literal is asked again,
casts are inserted, constants folded in the width of `int64_t`. `Generate` turns
the tree into a value, one operator for each instruction, or stops. Integers have the
bits of their width, floats the bits of their precision, both scaled: 8, 16, 32
and 64 bits are 3, 5, 7 and 9 in the run, the 24 and 53 bits of `f32` and `f64` are
5 and 7, which keeps their order (`SizesAssumption`). A float is an integer,
rounded to the nearest, ties to even (`Rounded`); fractions and infinities are left
out, so division is compared only where it is exact. Calls, subscripts, members,
assignments and pointers are left out; `++` and `--` are applied to names and
literals.

An initializer without a type (unary `+`, `++`, `--`, and all that is built on
them) is not reported and is generated as any other: `Emit` takes the LLVM type
from the operands there, `memory` holds what the names contain after each step,
and `StopsAt` says where the generator ends in an ICE, follows the missing type of
an operand or builds what `LLVMVerifyModule` refuses. With a debug build of LLVM
the last comes earlier, as a failed assertion.

`Meaning` is the reference: the numbers of the types modulo their width, with no
folding and no hints. The properties have named hypotheses, each of which is a
place where the code does something else and which section 3 lists:
`ConstantsFit` (folding does not truncate), `SmallWhenSigned` (division, order
and conversion are signed), `BoolAsFloat` (a constant bool keeps its kind) and
`Typeless` (`+`, `++` or `--` anywhere but in `x: T = j++` with `j` of the number type `T`).

### Parser

The parsing operators have the names of the constructs they read and pass along
one record: the position, whether the last call returned a node, that node, and
whether an error has been recorded. A failed record goes through every later call
unchanged, as a NULL goes up through the callers. What contains each other (types,
expressions, statements, functions, the items of lists) calls through `Parse`,
so that there is one recursive operator for all of them. Two things are *not* that way
and are modelled as they are: `GenericInst` tries the arguments of a generic,
clears the error and goes back when they do not fit, and `Postfix` keeps what it
has when a suffix cannot be read (`OrSoFar`). The machine is `parse_program`: one
declaration for each `ParseDeclaration`, then `StopAtError` or `EndProgram`.
Tokens are strings, trees are tuples. Memory exhaustion, positions in the file,
the wording of messages and the digits of numbers are left out; a number that
`parse_int_lit` or `parse_float_lit` refuses is a literal in `Unreadable`.

`SourceText` is the reference: it writes a tree with the parentheses that
precedence asks for and no others, and knows nothing of look-ahead. The texts
are written from trees, written in other ways than `SourceText` does (trailing
commas, superfluous parentheses), and damaged: one token lost, doubled or
replaced. It writes marks between the tokens that tell what a token is meant for;
they are not part of the text, but let `Misread` name the texts that the
look-ahead takes for something else. `EveryTokenHasAPlace` names the texts in
which the code passes over tokens.

### Lexer, LexicalGrammar and Interner

A step of `Lexer` is one turn of the loop of `lexer_lex_all`: whitespace and
comments are skipped, `Lex` cuts a token off (the longest operator first, numbers
with their prefixes and exponents, words, strings and characters with escapes),
its text is interned or its content unescaped and interned, the token is pushed.
`at` is the cursor with its line and column; it moves one character at a time, as
`lexer_advance` does. When a file has its `EOF` the loader goes on to the next
one with a new cursor and the same interners. Characters stand for their class:
one letter of each kind that the code tells apart, and three keywords.

`Interner` is the record of a map and a dense array that `intern` reads and
writes, not a machine of its own, because there are three. `lacking` names the
places at which memory is refused in one call: the record, a larger table, a
larger array. Growth of the array is that of `dynamic_array.c`; the map is used
through what `HashMap` shows of it (a put is refused only when it is full, and it
is full only after growth failed). Results of the two are ignored as in the code.

`LexicalGrammar` says which strings are lexemes and of which kind, with no cursor
and no order of cases; `LongestMatch` compares.

### Names

The units declare variables, imports and aliases; `Signatures` takes the passes
over a unit in the order of `typecheck_program` (`names`, `imports`, `aliases`),
one name lookup step at a time where an alias leads to another (`look`), since
that is where a lookup may not end. The body of a function in the last unit is
then read item by item (`CheckBody`: declarations, uses, blocks, defers, a
return), with the chain of `scopes` and the symbol each use is `bound` to; then
the same items are generated (`Generate`), with the generator's own maps
(`locals`), each deferred body moved to the end of its block, the last one first
(`frames`), and items after a return passed over (`dead`). A declaration and
its storage are both written `<<p>>`, the item that declares it, or
`<<unit, name>>`, so that the two answers can be compared. Star imports, overload
sets, aliases of types and qualified uses in bodies are left out; which file an
import reaches is `ImportResolution`'s question.

### CallChecking

One declaration `v: expected = expr` is checked. `Check` follows
`check_call_expr`: it checks the receiver and decides whether the call is a
method call, collects the candidates, checks the arguments without a hint when
there are several and chooses (`resolve_overload_candidate`), or infers the type
variable of a generic one (`infer_type_args`), puts the receiver in front, by its
address or dereferenced, checks every argument again against its parameter and
wraps it in a cast where the types differ. Each of these steps works on the tree
the one before left: calls that hold their receiver already, casts, and variants
that have become integer literals. The reference (`Sound`, `MeansAs`) gives the
written tree its meaning without ever changing it. Hypothesis `SurvivesRecheck`
excludes the trees that the second check is known to lose (below).
Intrinsics, values of a function type, explicit type arguments, float and null
literals, and what is reported after the first error are left out.

## 3. What the runs check

| run | states | question |
|---|---|---|
| `ModuleLoader` | 365,554 | `LoaderTypeOK`, `UnitsAccounted`, refinement of `DependencyOrder`, termination |
| `ImportResolution` | 900,224 | `UnambiguousImportsBind`, `UndeclaredOnlyInCycle`, `CopiesAreTyped`, `PrivateStaysPrivate` |
| `StatementLowering` | 235,893 | `WellFormed`, `MeaningPreserved`, `DefersNest`, `Returns` |
| `HashMap` | 516,037 | `KeysFindable`, `CountersExact`, `RefusedOnlyWhenStarved`, `GrowthEnds`, refinement of `KeyValueStore` |
| `Instantiation` | 95,268 | `SettledOutsideDrain`, `DepthAccountsForNesting`, `NoReentry`, `InstancesAreClosed`, `CheckingEnds` |
| `ConstantEvaluation` | 135,188 | `ConstantsFold`, `CyclesReported`, `EvaluatedOnce`, `CheckingEnds` |
| `ExpressionLowering` | 164,480 | `WellTypedCode`, `MeaningPreserved`, `PromotionsLossless` |
| `Parser` | 83,013 | `RoundTrip`, `ErrorsDecide`, `NothingDropped` |
| `Lexer` | 144,143 | `TokensTile`, `LongestMatch`, `NamesAgree` |
| `Names` | 277,604 | `BoundAsWritten`, `GeneratedAsBound`, `LookupsEnd` |
| `CallChecking` | 62,127 | `CheckedAsWritten`, `CallsWellTyped` |

Where a module has a `TypeOK` that no run lists, it is the first conjunct of one
of the invariants listed (`CopiesAreTyped`, `WellFormed`, `NoReentry`,
`CyclesReported`, `WellTypedCode`, `ErrorsDecide`).

What they show:

* **Loading.** Whatever the files import, the unit table is exactly the finished
  units plus those on the call stack; the units come out after everything they
  import unless those import them back, the entry last; a load fails only for an
  unreadable or malformed reachable file or where more imports in a row than the
  limit, each of another file, lead down from the entry, however many files lie
  beside each other; it always ends.
* **Imports.** An import whose logical path names one file binds to that file. An
  import of a public name is reported as undeclared only inside an import cycle.
  A symbol copied from another unit has its type from the start, unless it is a
  generic function, a variable whose own unit does not find its type, or that unit
  imports itself (below). A private symbol never gets into another unit's scope.
* **Statements.** Every block ends with exactly one terminator. Unless an exit
  crosses a loop that stands below a defer of an enclosing block, or a deferred
  body holds a block with defers of its own, every run of the code is a run of
  the body. Deferred bodies run last-registered first, each once. Code with
  terminating loops returns.
* **Hash map.** The table implements a key-value store. A put is refused only
  after a growth has failed for lack of memory; counters are exact; moving
  entries to the larger table ends.
* **Instantiation.** Outside a drain every queued struct of the second pass is
  concrete. The depth counter is never below the number of nested instantiations,
  so it bounds the recursion. A body is never checked while it is being checked.
  In a program without errors everything that an instance mentions is an
  instance too. Checking ends, for programs that instantiate themselves with
  ever larger types as well.
* **Constants.** A constant that mentions only constants of its own unit, and
  leads to no cycle, gets the value its declarations determine, whatever their
  order, and no other gets one; a recursion is reported exactly when there is
  one; what was evaluated is not evaluated again; checking ends.
* **Expressions.** Under the hypotheses above, the variable gets the value the
  expression means, whether it was folded or computed, and what is stepped its
  next value. What the checker accepts is generated, and what is stored is of the
  variable's type. A conversion that is made unasked loses nothing: every pair of
  types the matrix allows is tried at both ends of its range, and every pair it
  refuses that would lose a value would be found there if it were allowed.
* **Parsing.** A text written from a tree is accepted and read back as that tree,
  but for the three kinds of text that `Misread` names: comparisons that look like
  the arguments of a generic, a block that looks like a struct literal, an operator
  that looks like part of the type of a cast. The instance holds such texts; each
  of those that `Misread` excludes there is in fact misread.
  A program is accepted exactly when no error was recorded, also when one was
  recorded during a trial. Nothing of an accepted text is lost, on whatever paths
  the parser went and came back, but in the places that are listed.
* **Lexing.** The tokens of a file follow each other with nothing but whitespace
  and comments between them, at the lines and columns where they stand, up to one
  `EOF`. Each is the longest lexeme that starts there, of its kind. A name is one
  pointer in the whole program as long as no put was refused, and one index as
  long as no push failed, whatever memory was lacking for; no keyword is a name.
* **Names.** A use is accepted exactly when a visible declaration precedes it, and
  is bound to the nearest; a name declared twice in a scope is reported. The code
  generator then finds the storage of that very declaration, through shadowing,
  blocks, deferred bodies and returns, but in the three cases that the property
  names. Every lookup ends unless an alias leads back to itself.
* **Calls.** A declaration is accepted exactly when it is well typed as written,
  and then every call in it calls the function that was meant, however often its
  parts were checked on the way, under `SurvivesRecheck`. Without any hypothesis:
  in an accepted program every call has the receiver once and in front, and
  arguments of exactly the types of its parameters.

One run is *expected to be violated*: it states what a document of the repository
says, and TLC's counterexample is a program on which the compiler does something
else.

| run | statement | what the code does |
|---|---|---|
| `CallsGetTheirInstance` | generics.md:51, instances have unique names | the name leaves out array lengths, so `f<[4]i32>` may call the instance for `[3]i32` |

### Known disagreements

Met while modelling, and read in the code; no run is spent on them.

* `main.c:178` says the root unit is at position 0; units are appended in
  post-order, so it is last.
* `typecheck.c:1551` says the names of all dependencies are registered; inside an
  import cycle they are not.
* `typecheck.c:1435` says bindings are private to the importer; a path through a
  bound module is bound inside that module. Below a module that was itself
  imported by name, whose copy leads to no scope, an inner component dereferences
  the namespace that could not be defined (`typecheck.c:1460`, `NullScope`).
* `typecheck.c:764` looks a function up by its own name to give it its type. A unit
  one of whose imports is bound to itself can have a copy of its own function under
  another name from before that: the copy stays without a type.
* `docs/lang/basics.md:72`: overloads have different parameter types. The first
  two of a set are never compared.
* `docs/lang/basics.md:85`: an imported overload set is visible whole. The copy is
  made when it is still empty.
* `docs/lang/memory.md:236`: the function returns the return slot. A block with
  defers inside a deferred body overwrites `exit_dest`, so that the pending return
  goes on as the end of that block.
* `docs/lang/generics.md:138`: the limit is on nesting. `drain_mono_queue` leaves
  the depth of its last job behind.
* `docs/lang/generics.md:7`: one instance for each combination. Each importer has
  a cache, and an instance, of its own.
* `docs/lang/generics.md:121`: a struct cannot hold itself. The check looks at
  plain structs only.
* `docs/lang/basics.md:36`: constants fold. An imported one has lost its flags.
* `docs/lang/conversions.md:152`: an explicit narrowing truncates. A folded cast
  keeps all of the value, and later folding uses it.
* `typecheck_expr.c:1390`: unary `+`, `++` and `--` get no type and no report,
  so nothing is converted or refused: `x: i32 = j++` with `j` an `i8` stores 8 bits
  in a slot of 32, `+a` ends in an internal error (`codegen_ops.c:264`), and so
  does a comparison of what has no type (`codegen_types.c:60`).
* `type_coerce.c:150`: `true as f64` on a constant builds an integer constant for
  a floating-point type.
* `docs/hashmap.md` describes chaining; the table uses open addressing.
* `docs/lang/basics.md:172`: modules map directly to the file system. Two files
  with the same components under different bases share a logical path, and the
  one registered last answers for both (`module_loader.c:230`).
* `lang.bnf` against the parser: `a < b > (c)` and the arguments of
  `f(a < b, c > (d))` are read as generic instances, the block of `while x { }`
  and of an `if a { b: ... }` as a struct literal, in parentheses (`while (x) { }`)
  too, and the star of `a as i32 * b` as part of the type.
* `parse_declarations.c` passes over tokens without a report: an `@` that no name
  follows, `@link` before an import, an alias or the end of the file, `pub` before
  an `impl` or the end of the file.
* `parse_expressions.c:504`: a struct literal that breaks off inside an array size
  of type arguments being tried, as in `a.b<i32[a.b{c: 1], i32>(a)`, is accepted,
  and lost.
* `lang.bnf` further differs in the `const` of parameters, symbols and alias of
  one import, the semicolon of a `for`, and `pub` on methods.

In statements and types:

* `docs/lang/memory.md:188`: an exit runs the defers of the scope that exits. A
  `break` or `continue` of a loop that stands below a pending defer also runs that
  defer (`codegen_stmt.c:292`).
* `docs/lang/types.md:71`: the size of an array may be a `const` expression. In a
  field, a global or a parameter it may not: no constant has a value in the first
  pass (`typecheck.c:1146`).
* `docs/lang/types.md:19`: `u8` is 0 to 255. Division, remainder and order are
  signed for every type (`codegen_ops.c:142`).

In the lexer and the interner:

* `lexer.c:454` says an empty string is interned. `intern` refuses it, so `""` has
  no record, which `codegen_expr.c:288` and `:328` follow.
* `dense_arena_interner.c:100`: after a push that failed, the next string gets the
  same index; after a put that was refused, the same string gets a second record.
* A number may end in `1.5e` or `0x` without a digit; an exponent needs a fraction
  before it. A block comment that is not closed ends the file without a report.
  `'''` is a character.

In names (section 2, the exceptions of `GeneratedAsBound`):

* `x: T = x + 1` in an inner block: the checker binds the initializer's `x` to the
  outer variable (`typecheck.c:1228`), the generator has entered the new one
  already (`codegen_stmt.c:322`) and reads it before it has a value.
* A deferred body is generated with the names declared after it in its block
  (`codegen_stmt.c:87`), and so may use another variable than it was bound to.
* `import m { x as y }` of a variable: the generator looks for `y` in `m`
  (`codegen_lvalue.c:34`), finds nothing, or `m`'s own `y`, a private one too. A
  variable that is imported and passed on is not found.
* Aliases that lead back to themselves: the next lookup of one does not end
  (`scope.c:182`).
* An alias whose name is taken gives its target to the symbol that has the name
  (`typecheck.c:1056`). `defer x: T = 1;` without a block declares `x` in the
  block around it. Neither occurs in the modelled bodies.

In calls (the exceptions of `SurvivesRecheck`):

* A call of an overloaded or generic method that is checked again, as the receiver
  of the next call of a chain or an argument that chooses a function, counts the
  receiver it was given the first time as an argument and is rejected
  (`typecheck_expr.c:541`, `:690`).
* A variant or a `.len` is an integer literal when it is checked again, so that
  `pick(pick(Color.Red))` calls `pick(i64)` inside where `docs/lang/basics.md:72`
  chooses by the argument's type. For the same reason a generic call accepts a
  `.len` for an `i64` parameter, which a plain call refuses.
* `x: i64 = id(v)` for an `i32` v is refused (the expected type is inferred
  first), and so is a variant for an integer parameter of a generic function, both
  of which the plain function takes. `Agrees` says what the code does.
* `docs/lang/basics.md:101`: a method is an instance method if its first parameter
  is `self`. The code asks whether the target names a type
  (`typecheck_expr.c:523`).

### Bounds

* Loader: five files in two directories and the library, of which one may be a
  directory module; each file has at most two imports, out of all three forms.
  That gives cycles of length one to three, diamonds, a directory module, missing
  files and climbing above the root. `MaxDepth` is 2 instead of 256, so that the
  bound is met; the run `ImportResolution` uses 256, so that it is not. There the
  declarations are few (a function `x` in each of four units, one of them linked, a
  generic one, a `main`, a variable whose type is there or not), and the imports are
  the ones that make them meet.
* Statements: bodies up to the nesting at which all the constructs interact (a
  defer holding a block, a loop inside a block with a defer, a block inside a
  loop); at most `MaxTrue` = 2 conditions are true in one run, which is what
  distinguishes leaving a loop from repeating it, and ends the runs.
* Hash map: capacities 2, 4 and 8, four keys of which three collide, two values.
  The code starts at 8 and doubles; starting at 2 reaches full tables, two
  growths and wrap-around with four keys.

* Instantiation: `MaxMonoDepth` is 2 instead of 64, so that runaway programs meet
  it in a few steps; 3072 programs combine two struct templates, two functions
  one of which is also called through two imported copies, and a method.
* Constants: 2880 programs of a library unit and a unit that imports it; three
  constants that mention each other in chains, cycles and through an array's
  size, in three orders of declaration. The library may import back, so that its
  constant is not known yet when its importer asks for it.
* Expressions: all expressions of the listed shapes one and two operators deep;
  variables and constants stand at the ends of their ranges. Variables of all 14
  types hold the least and the greatest value (for a float, one that needs every
  bit and one beyond all integers) and are assigned to variables of all 14. The
  scaled widths and precisions keep the order of the real ones, and two that are
  equal in the code are equal.
* Parser: expressions two operators deep, so that every pair of operators meets on
  either side; types nested twice; statements in statements; pairs of
  declarations; and every one-token damage of about sixty sentences that between
  them use all the constructs.
* Lexer: every text of up to four or five characters over the characters that one
  part of the lexer tells apart (numbers, words, operators, comments, quotes), so
  that each loop of `Lex` is entered, repeated and left on every character; and
  programs of two files, or of one with more names than the table has room for, in
  which memory is lacking two or three times at any place. A table starts with 2
  slots instead of 64 and an array with 1 instead of 8, so that both are full
  within four names. In the larger tables of the compiler the same steps happen
  later.
* Names: bodies of up to six items over one name (a shadowing in a block in a
  block, a defer and a later declaration, a `for`) and of four over two; three
  units with every choice of imports and one or two aliases, circular ones
  included, under a body of one to three items.
* Calls: a library of plain, overloaded and generic functions and methods, with
  overloads that tie, every expression of depth two over it and chains of three
  method calls, for four expected types.

### Fairness

The compiler is one thread that runs until it returns, so each specification has
weak fairness on its whole next-state relation (`ModuleLoader`,
`ImportResolution`, `StatementLowering`, `Instantiation`, `ConstantEvaluation`,
`Names`; in the last it forces a body to be written to its end, which every source
text does). `ExpressionLowering`, `Parser`, `Lexer` and `CallChecking` state no
liveness and assume none. In `HashMap`
nobody is obliged to call an operation, and fairness is only on the steps of a growth that has begun.
`CHECK_DEADLOCK` is off where the modelled function returns and the model stops;
in the modules with an action `Finished` it is on, so that being stuck anywhere
else is an error.

## 4. What is proved

Each of the theorems below holds for every value of the constants, and states a
property that a run checks on its small instance, or the part of one that is named. They are all proved the
same way: an inductive invariant, first checked with TLC, one step for each
action and under it one for each conjunct the action can disturb.

### ModuleLoader

For every set of file trees, entry, library directory and depth bound:

* `LoaderTyped`: `LoaderTypeOK` holds in every reachable state;
* `UnitsAlwaysAccounted`: so does `UnitsAccounted`.

Neither is inductive alone. That an import can be followed needs the unit on top
of the stack to have a logical path, which is so because files on the stack are
units (accounting) and units have logical paths (typing); that a unit is not
finished twice needs the files on the stack to be different from each other and
from the finished ones. `IInv` is their conjunction with `tree \in Trees`, and
`LoaderInvariant` shows it inductive.

* `LoaderImplements`: the loader implements `DependencyOrder`.

A step maps to `Complete`, `Fail` or a stutter. What this needs is in `Provenance`
(`ProvenanceHolds`): each frame was called for an import of the frame below it
(`Chained`), so that every file on the stack reaches all those above it and the
entry reaches them all; each resolved and each registered path was asked for by
an import that names that very file (`ResolvedOK`, `SourcesOK`, `Provided`); a
finished unit comes after what it imports unless that leads back to it
(`Postorder`); a failing load has met a bad file or a chain of imports too long
(`Justified`): the files of the call stack are that chain, since they differ from
each other and each is an import of the one below (`DepthIsChain`). `Reach` is a smallest closed set; the proof needs that it is
closed and inside any other (`ReachIsLeast`). When the entry is finished the set
of finished files is closed, so everything the entry reaches is in it
(`FinishCompletes`). Assumed: a file's imports are a finite list, a parsed import names at least one component.

### ImportResolution

For every set of trees with their declarations and imports:

* `ImportsBind`: an import is bound to the file it names, unless another import asks
  for the same logical path for another file;
* `UndeclaredInCycle`: a public declaration is undeclared only to a unit it is in an
  import cycle with, or one that asks under such a path;
* `CopiesTyped`: the scopes are well formed, and a symbol of another unit has its
  type, unless it is a generic function, a variable whose unit does not find its
  type, or that unit imports itself;
* `PrivateStays`: a declaration that is not pub is in no other unit's scope.

`PassInv` carries the loader's `Provenance` on to the pass (`LoadGives`: what a load
that succeeded leaves), and says where the pass is (`Placed`: the signed units are
the ones before `pos`), what imports are bound to (`Targets`), and what each
symbol of each scope may be (`ScopesOK`). A scope of a unit that has not registered
its names yet, or one inside a path, holds public modules only (`Bare`): a unit
finds nothing but modules of other units where its own names go. In the others
(`Held`) each candidate is the unit's own declaration under its own name, or a
public one of a unit whose signatures are resolved. Whether that unit finds a type
does not change afterwards (`TypesSettled`): others define nothing but modules in
its scope (`TypeFoundBefore`). Overload sets are why
`PrivateStays` is not obvious: a set is public if one member is, private members
with it, and these stay where they are because a copy of a set has no members.
`UndeclaredInCycle` comes from the post-order of the load (`LaterIsInCycle`).
Assumed besides: declarations are functions, generic functions, variables or structs.

### HashMap

For every set of keys and values, every hash and every initial capacity:

* `KeysAlwaysFindable`: no empty slot lies before a stored key on its way from
  home, in the table and in the larger one a growth is filling;
* `CountersAlwaysExact`: `size` and `tombstones` count what they say;
* `NeverRefusedWithMemory`: a put is refused only after memory was lacking;
* `TableImplementsStore`: every step is a step of `KeyValueStore`, or a stutter.

A probe goes round the table, so its slots are ordered by their distance from the
key's home and not by number; `FirstOnPath` picks the first slot of a kind on
that way (`LeastNumber`), which is the one the code finds. The invariant adds that
an entry pending during a growth is not in either table and that the larger table
has room for all that is still to be moved (`Moving`). Assumed: capacities are
positive numbers, the hash of a key is a number, and the marks `NULL` and the
tombstone are no keys, values or answers.

### Instantiation

For every set of templates and programs over them, and every depth limit:

* `QueueAlwaysSettled`: while bodies are checked and nothing is being drained,
  every struct asked for is concrete;
* `DepthAlwaysAccounts`: the depth counter is between the number of instances in
  progress and that number with the queued structs;
* `NeverReentered`: an instance is queued once, there is at most one drain, no
  body is entered while it is being checked;
* `InstancesAlwaysClosed`: after a check without errors, whatever a declaration
  or an instance mentions is an instance.

`IInv` consists of the shape of the stack (a drain is started by a use, and the
frames above it are its jobs and their calls), the caches against the frames (what
is cached is finished or on the stack, `Distinct`), the queue (`QueueOK`), the
depths (`DepthOK`: jobs queued later may be deeper, so it counts what is under way)
and `ClosedOK`: each use that has been passed is *covered*, that is answered by an
instance, or by one being made, in which case the frame that makes it has not ended.
Assumed: templates mention types that can be written, programs consist of
declarations of the templates.

### ConstantEvaluation

For every list of units and every set of programs:

* `ConstantsFoldHolds`: a constant with a value has the one its declarations
  determine, whichever mention evaluated it; at the end all that can fold have;
* `CyclesReportedHolds`: `COMPUTING` is on exactly the constants being evaluated,
  and at the end a recursion was reported exactly if there is one;
* `EvaluatedOnceHolds`: no step begins an evaluation that was done.

The flags are tied to the frames (`FlagsOK`, `StackOK`): frames wait in a chain, each
for a name it mentions, so that a mention of something that is on the stack
closes a cycle, and what is on a cycle neither folds nor passes unreported.
What a frame has read of another symbol is final (`ReadsOK`): a constant without a
value after it was demanded will get none. `Foldable` and `Recursive` are smallest
closed sets; what the proof needs is that they are closed and contained in
any other (`FoldableComplete`, `NoChainFolds`). The sum of an initializer
is a recursive function, so the proof builds it one value at a time
(`SumsExist`, `SumsUnique`). Assumed: each unit occurs once, each declaration stands
somewhere, only variables are constants. TLC checked this invariant on 1152 of the
run's programs.

### Lexer and Interner

For every keyword table, all programs of files of any texts, and whatever memory is
lacking for in whichever turns:

* `TokensTileAlways`: the tokens of a file follow each other with nothing but
  whitespace and comments between them, each turn but the last takes something, the
  spans are the lines and columns of the text, and a finished file ends with `EOF`;
* `LongestMatchAlways`: a token is the longest lexeme of `LexicalGrammar` that starts
  where it does, and of its kind;
* `NamesAgreeAlways`: two names are one pointer only if they are equal, and if they
  are equal as long as no put was refused; an index leads back to its record as long
  as no push failed; a keyword is never anything else; the same of the texts that
  string literals denote.

The loops of the lexer are recursive functions over positions. Each exists because
its argument grows (`Climbs`, `ClimbingFunction` of `LeastNumber`) and is then reasoned
about one turn at a time (`SkipWhitespaceTurn`, `ClosingTurn`), with the loop's own
invariant and an induction over the position (`SkipWhitespaceWorks`,
`ClosingWorks`). That the cursor has the line and column of the text is
`PositionNext` for a character and `AdvanceFar` for a token. For the grammar each kind
of lexeme has a lemma that what the code cuts off is of the kind, and that nothing
longer from there is a lexeme of any kind (`WordLongest`, `DecimalLongest`,
`RadixLongest`, `StringLongest`, `CharacterLongest`, `OperatorLongest`, joined in
`LexLongest`): the grammar tells by its first character what a lexeme can be
(`FirstTells`), and the quote that ends a string is the first with an even number
of backslashes before it (`Escaped`, `EscapedNext`).

`LexInv` says that the cursor is behind the last token (`OnCursor`), that every
token is good for its place (`AllGood`), and that for each interner there is a set
of records it is `Consistent` with, which holds the records of the tokens. That set
is needed because the interner forgets: a record whose put was refused is in no
table and yet in tokens, so neither `known` nor `dense` says what has been given
out; what does is that ids count the records made. Assumed (`LexerAssumption`): a
keyword is a word and stands in the table once, with a token type no other token has;
that texts are sequences of characters; and capacities are positive.

### Names

For every list of units, whatever they declare and import, every function body of any
length and depth, and every order its blocks, deferred bodies and returns come in:

* `StorageAsBound`: every use that is generated finds the storage of the declaration
  the checker bound it to, except in the three cases `GeneratedAsBound` lists;
* `LocalsBoundAsWritten`: in an accepted body no scope declares a name twice, and every
  use that declarations of the body reach is bound to the nearest of them, or to the
  parameter (`Written`); any other is bound to a variable that its unit can see. This
  is what `BoundAsWritten` says of accepted bodies, up to which variable of
  which unit a name leads to.

The checker and the generator read the same items but share no table, so the proof
needs something both can be compared with. It is the history of the body: for each
item, the blocks `h` that were open and the scopes `s` that were visible when the
checker came to it. `CheckInv` says that what has been checked has a history
(`History`); it exists because each item the checker takes adds one place to it and
changes no earlier one (`HistoryGoesOn`). Everything the generator asks of the list is
then read off the history: how deep an item is (`DepthIs`), what opened its block
(`OpenerIs`), where a block ends (`EndOfIs`), what it stands in (`AroundIs`); the
model computes these by counting items, and the counts agree by an induction over
positions of `LeastNumber`.

`GenInv` says where the generator is in that history (`Placed`): its frames are the
open blocks, those of the deferred bodies being run included (`GoodFrames`); each of its
maps holds what the scope of the checker at that depth held (`GoodMaps`), every
declaration passed on the way is in one of them (`Covered`), and each deferred body that
waits belongs to the block it waits in (`GoodWaits`). There is one lemma for each kind of
move (`MoveAlong`, `MoveDeclare`, `MoveIn`, `MoveDefer`, `MoveRun`, `MoveOut`). Two
places make it harder than that reads. A deferred body runs when its block is
complete, so its maps may hold declarations the checker had not seen when it bound the
body's uses: this is where the exception `DeclaredLater` comes from (`FoundInMaps`).
And after a return the generator passes over items that the checker did bind, so the
maps hold what was visible only as long as the code is live.

What is not local is found by the file and the name in a unit's symbol. `UnitInv` says
that each symbol is of its unit and sound for what the unit declares, or is a copy that
an import brought, before, during and after the passes (`SymbolsSound`), also while a
lookup follows an alias; `StorageIs` concludes from it. Assumed (`NamesAssumption`):
units are distinct, `NONE` is no name, and an import of a symbol gives it a local
name. The invariant, with the history as a witness, was checked with TLC on
the run's 277,604 states before it was proved.

The text is compared with the same history. What stands in the scopes at an item is a
declaration that reaches it, an outer one before an inner one (`ScopesAsWritten`);
every declaration that reaches it stands there (`ReachedIsVisible`); so the innermost
is the last in the text (`MeaningAsWritten`), which is what shadowing means. That the
blocks around two items are the same set only if they are the same list
(`SameAround`) is what lets the text speak of sets.

### Only model-checked

* Everything temporal: termination, `CheckingEnds`, `GrowthEnds`, `Returns`,
  `LookupsEnd`.
* `StatementLowering`, `ExpressionLowering`, `Parser` and `CallChecking`, whose tree
  walks and descents are recursive operators.
* Of `BoundAsWritten` of `Names`, what `LocalsBoundAsWritten` leaves: that every
  well-formed program is accepted, and which unit's variable a name that is not local
  leads to. The written side follows aliases and imports to their ends, so both need
  that there are no cycles among the imports and no collisions of names among units,
  which the code does not guarantee and the run's programs satisfy; an assumption
  would say less than is meant.

## 5. Plan

Done: the eleven modules of the compiler above, with their references. Next, in
this order:

1. Proofs: the rest of `BoundAsWritten` of `Names`. Done: `ModuleLoader` and `HashMap` with their
   refinements, `ImportResolution`, `Instantiation`, `ConstantEvaluation`, `Lexer`
   with `Interner`, and `GeneratedAsBound` of `Names`.
2. `StructLayout`: the value-cycle check; the containers of `lib/std` (`map.nt`
   against `KeyValueStore`, `vec.nt`, `list.nt`); the driver's exit codes.

Not planned: formatting of diagnostics, file and process I/O, LLVM's passes and
linking; calls and aggregates in code generation, which map one to one to library
calls.
