------------------------- MODULE ConstantEvaluation -------------------------
(***************************************************************************)
(* Global declarations and their constants (src/sema/typecheck.c,          *)
(* check_variable_declaration, and check_identifier in typecheck_expr.c).  *)
(* A constant is evaluated when its declaration is reached or when an      *)
(* expression first mentions it, whichever comes first, so evaluation      *)
(* recurses through declarations in an order the program decides.          *)
(*                                                                         *)
(* A declaration mentions names; the value of a constant is its own        *)
(* literal plus the constants it mentions.  Each symbol has the flags of   *)
(* the code: CONST, COMPUTED (has a value), INITIALIZED, COMPUTING.        *)
(***************************************************************************)
EXTENDS Integers, Sequences, FiniteSets

CONSTANTS
  Units,       \* the units in the order of the loader
  Names,       \* global names, each declared in one unit
  NONE,        \* no size
  Programs     \* [decls, imports, order]: the declarations, the names each unit
               \* imports, and the order in which they are declared

UnitSet == {Units[i] : i \in DOMAIN Units}
Kinds == {"struct", "global", "function"}

\* uses are the names an initializer, or the array sizes in a body, mention
Declaration ==
  [unit : UnitSet, kind : Kinds, const : BOOLEAN, size : Names \cup {NONE},
   uses : Seq(Names), literal : Int]

\* a load has at least the root unit, and each unit once
ASSUME UnitsAssumption ==
  /\ Units \in Seq(UnitSet) /\ Len(Units) > 0
  /\ \A i, j \in DOMAIN Units : Units[i] = Units[j] => i = j

\* what is declared once stands somewhere; only variables are constant
ASSUME ProgramsAssumption ==
  /\ NONE \notin Names
  /\ \A p \in Programs :
       /\ p.decls \in [Names -> Declaration]
       /\ p.imports \in [UnitSet -> SUBSET Names]
       /\ p.order \in Seq(Names)
       /\ \A n \in Names : \E i \in DOMAIN p.order : p.order[i] = n
       /\ \A n \in Names : p.decls[n].const => p.decls[n].kind = "global"

VARIABLES
  program,
  unit, loop, at,  \* typecheck_program's place: the unit, the loop over its
                   \* declarations, and the position reached in them
  pass,            \* current_pass
  symbols,         \* unit |-> name |-> [decl, typed, flags, value]; a struct or function
                   \* is typed when its field or parameter is
  last_checked_pass,
  stack,           \* C calls in progress: [job, decl, scope, uses, next, asked, foldable,
                   \* typed, value]; next is the position of the next name in uses
  errors           \* reported errors: [kind, decl]

place == <<unit, loop, at>>
vars == <<program, unit, loop, at, pass, symbols, last_checked_pass, stack, errors>>

Decl(n) == program.decls[n]
Home(n) == Decl(n).unit

-----------------------------------------------------------------------------
Flags == {"CONST", "COMPUTED", "INITIALIZED", "COMPUTING"}
Symbol(n, typed) == [decl |-> n, typed |-> typed, flags |-> {}, value |-> 0]

\* a global has no type until it is resolved
Registered(n) == Symbol(n, Decl(n).kind # "global")

Idle == stack = <<>>
Top  == Head(stack)
Replace(frame) == stack' = <<frame>> \o Tail(stack)

Init ==
  /\ program \in Programs
  /\ unit = 1 /\ loop = "names" /\ at = 0
  /\ pass = 0
  /\ symbols = [u \in UnitSet |-> <<>>]
  /\ last_checked_pass = [n \in Names |-> 0]
  /\ stack = <<>>
  /\ errors = {}

-----------------------------------------------------------------------------
(* The loops of typecheck_program over the units and their declarations.   *)

LoopOver == IF loop = "check" THEN {"global", "function"} ELSE {loop}
Selected(i) ==
  LET n == program.order[i]
  IN  Home(n) = Units[unit] /\ Decl(n).kind \in LoopOver

\* i is the declaration that the loop comes to next
Reaches(i) ==
  /\ i > at /\ Selected(i)
  /\ \A j \in DOMAIN program.order : at < j /\ j < i => ~Selected(j)

LoopEnds ==
  /\ Idle /\ loop \in Kinds \cup {"check"}
  /\ \A i \in DOMAIN program.order : i > at => ~Selected(i)

\* names are registered, then imported symbols copied: type only, no flags;
\* a name that its unit has not registered is an error
RegisterNames ==
  /\ Idle /\ loop = "names"
  /\ LET u == Units[unit]
         own == {n \in Names : Home(n) = u}
         imported == program.imports[u] \ own
         copied == {n \in imported : n \in DOMAIN symbols[Home(n)]}
     IN  /\ symbols' = [symbols EXCEPT ![u] = [n \in own \cup copied |->
                          IF n \in own THEN Registered(n) ELSE Symbol(n, symbols[Home(n)][n].typed)]]
         /\ errors' = errors \cup {[kind |-> "undeclared", decl |-> n] : n \in imported \ copied}
  /\ loop' = "struct"
  /\ UNCHANGED <<program, unit, at, pass, last_checked_pass, stack>>

NextLoop ==
  /\ LoopEnds /\ loop \in {"struct", "global"}
  /\ loop' = IF loop = "struct" THEN "global" ELSE "function"
  /\ at' = 0
  /\ UNCHANGED <<program, unit, pass, symbols, last_checked_pass, stack, errors>>

NextUnit ==
  /\ LoopEnds /\ loop \in {"function", "check"} /\ unit < Len(Units)
  /\ unit' = unit + 1
  /\ loop' = IF loop = "function" THEN "names" ELSE "check"
  /\ at' = 0
  /\ UNCHANGED <<program, pass, symbols, last_checked_pass, stack, errors>>

StartPass ==
  /\ LoopEnds /\ loop = "function" /\ unit = Len(Units)
  /\ pass' = 1
  /\ unit' = 1 /\ loop' = "check" /\ at' = 0
  /\ UNCHANGED <<program, symbols, last_checked_pass, stack, errors>>

Return ==
  /\ LoopEnds /\ loop = "check" /\ unit = Len(Units)
  /\ loop' = "done"
  /\ UNCHANGED <<program, unit, at, pass, symbols, last_checked_pass, stack, errors>>

Frame(job, n, uses) ==
  [job |-> job, decl |-> n, scope |-> Home(n), uses |-> uses, next |-> 1, asked |-> FALSE,
   foldable |-> TRUE, typed |-> TRUE, value |-> Decl(n).literal]

\* the type of a field, a global or a parameter; its array size is an expression
ResolveType ==
  /\ Idle /\ loop \in Kinds
  /\ \E i \in DOMAIN program.order :
       LET n == program.order[i]
       IN  /\ Reaches(i)
           /\ stack' = <<Frame("size", n, IF Decl(n).size = NONE THEN <<>> ELSE <<Decl(n).size>>)>>
           /\ at' = i
  /\ UNCHANGED <<program, unit, loop, pass, symbols, last_checked_pass, errors>>

-----------------------------------------------------------------------------
(* check_variable_declaration(scope, n), called at the declaration or on   *)
(* demand.                                                                 *)

\* Mutant: a declaration is skipped only while it is being computed.
SkippedWhileComputing(scope, n) ==
  \/ pass = 0
  \/ symbols[scope][n].decl = n /\ "COMPUTING" \in symbols[scope][n].flags
  \/ ~symbols[scope][n].typed

Skipped(scope, n) ==
  \/ last_checked_pass[n] = pass
  \/ symbols[scope][n].decl = n /\ "INITIALIZED" \in symbols[scope][n].flags
  \/ symbols[scope][n].decl = n /\ "COMPUTING" \in symbols[scope][n].flags
  \/ ~symbols[scope][n].typed

\* Mutant: a recursion is left without a report.
ReturnEarlySilently(scope, n) ==
  /\ last_checked_pass' = IF "INITIALIZED" \in symbols[scope][n].flags
                          THEN [last_checked_pass EXCEPT ![n] = pass] ELSE last_checked_pass
  /\ UNCHANGED errors

\* what a call that returns early leaves behind
ReturnEarly(scope, n) ==
  LET flags == symbols[scope][n].flags
      first == last_checked_pass[n] # pass
  IN  /\ last_checked_pass' = IF "INITIALIZED" \in flags
                              THEN [last_checked_pass EXCEPT ![n] = pass] ELSE last_checked_pass
      /\ errors' = IF first /\ "COMPUTING" \in flags /\ "INITIALIZED" \notin flags
                   THEN errors \cup {[kind |-> "recursive", decl |-> n]} ELSE errors

Enter(scope, n, caller) ==
  /\ symbols' = [symbols EXCEPT ![scope][n].flags = @ \cup {"COMPUTING"}]
  /\ stack' = <<Frame("initializer", n, Decl(n).uses)>> \o caller

CheckDeclaration ==
  /\ Idle /\ loop = "check"
  /\ \E i \in DOMAIN program.order :
       LET n == program.order[i]
       IN  /\ Reaches(i) /\ Decl(n).kind = "global"
           /\ IF Skipped(Home(n), n)
              THEN ReturnEarly(Home(n), n) /\ UNCHANGED <<symbols, stack>>
              ELSE Enter(Home(n), n, <<>>) /\ UNCHANGED <<last_checked_pass, errors>>
           /\ at' = i
  /\ UNCHANGED <<program, unit, loop, pass>>

\* each name a body mentions is the size of a local array
CheckFunction ==
  /\ Idle /\ loop = "check"
  /\ \E i \in DOMAIN program.order :
       LET n == program.order[i]
       IN  /\ Reaches(i) /\ Decl(n).kind = "function"
           /\ stack' = [k \in DOMAIN Decl(n).uses |-> Frame("local_size", n, <<Decl(n).uses[k]>>)]
           /\ at' = i
  /\ UNCHANGED <<program, unit, loop, pass, symbols, last_checked_pass, errors>>

-----------------------------------------------------------------------------
(* check_identifier.                                                       *)

Mention == stack # <<>> /\ Top.next <= Len(Top.uses)
Name    == Top.uses[Top.next]
Visible == Name \in DOMAIN symbols[Top.scope]
Mentioned == symbols[Top.scope][Name]

\* a name that is not found is reported, and the expression has no type
UseUndeclared ==
  /\ Mention /\ ~Visible
  /\ Replace([Top EXCEPT !.next = @ + 1, !.typed = FALSE, !.foldable = FALSE])
  /\ errors' = errors \cup {[kind |-> "undeclared", decl |-> Name]}
  /\ UNCHANGED <<program, place, pass, symbols, last_checked_pass>>

\* Mutant: constants are evaluated in the order of their declarations only.
UnresolvedNever(sym) == FALSE

Unresolved(sym) == "CONST" \in sym.flags /\ "COMPUTED" \notin sym.flags

\* Mutant: a mention asks for its constant until it has a value.
DemandAgain ==
  /\ Mention /\ Visible /\ ~Top.asked
  /\ Unresolved(Mentioned)
  /\ LET n == Mentioned.decl
     IN  IF Skipped(Top.scope, n)
         THEN ReturnEarly(Top.scope, n) /\ UNCHANGED <<stack, symbols>>
         ELSE Enter(Top.scope, n, stack) /\ UNCHANGED <<last_checked_pass, errors>>
  /\ UNCHANGED <<program, place, pass>>

\* a constant without a value is checked first, in the scope of the mention
Demand ==
  /\ Mention /\ Visible /\ ~Top.asked
  /\ Unresolved(Mentioned)
  /\ LET n == Mentioned.decl
         here == [Top EXCEPT !.asked = TRUE]
     IN  IF Skipped(Top.scope, n)
         THEN ReturnEarly(Top.scope, n) /\ Replace(here) /\ UNCHANGED symbols
         ELSE Enter(Top.scope, n, <<here>> \o Tail(stack)) /\ UNCHANGED <<last_checked_pass, errors>>
  /\ UNCHANGED <<program, place, pass>>

\* then the mention is a constant or not, and typed or not
UseName ==
  /\ Mention /\ Visible
  /\ Top.asked \/ ~Unresolved(Mentioned)
  /\ Replace([Top EXCEPT
       !.next = @ + 1, !.asked = FALSE,
       !.typed = @ /\ Mentioned.typed,
       !.foldable = @ /\ Mentioned.typed /\ {"CONST", "COMPUTED"} \subseteq Mentioned.flags,
       !.value = @ + Mentioned.value])
  /\ UNCHANGED <<program, place, pass, symbols, last_checked_pass, errors>>

-----------------------------------------------------------------------------
(* The ends of what was begun.                                             *)

Ended(job) == stack # <<>> /\ Top.next > Len(Top.uses) /\ Top.job = job

\* a size of unknown type is given up without a report, one that does not fold
\* is reported; a parameter without a type becomes void, which is reported too
SizeError ==
  LET of(kind, when) == IF when THEN {[kind |-> kind, decl |-> Top.decl]} ELSE {}
  IN  errors' = errors
        \cup of("not_const", Top.typed /\ ~Top.foldable)
        \cup of("void_parameter", Top.job = "size" /\ Decl(Top.decl).kind = "function" /\ ~Top.foldable)

FinishLocalSize ==
  /\ Ended("local_size")
  /\ SizeError
  /\ stack' = Tail(stack)
  /\ UNCHANGED <<program, place, pass, symbols, last_checked_pass>>

\* resolve_program_globals marks the constants it could type
FinishType ==
  /\ Ended("size")
  /\ SizeError
  /\ LET n == Top.decl
         old == symbols[Home(n)][n]
     IN  symbols' = [symbols EXCEPT ![Home(n)][n] =
           [old EXCEPT !.typed = Top.foldable,
                       !.flags = IF Top.foldable /\ Decl(n).const THEN @ \cup {"CONST"} ELSE @]]
  /\ stack' = Tail(stack)
  /\ UNCHANGED <<program, place, pass, last_checked_pass>>

FinishInitializer ==
  /\ Ended("initializer")
  /\ LET n == Top.decl
         old == symbols[Top.scope][n]
         computed == Decl(n).const /\ Top.foldable
     IN  /\ symbols' = [symbols EXCEPT ![Top.scope][n] =
              [old EXCEPT !.flags = (@ \ {"COMPUTING"}) \cup {"INITIALIZED"}
                                      \cup IF computed THEN {"CONST", "COMPUTED"} ELSE {},
                          !.value = IF computed THEN Top.value ELSE @]]
         /\ last_checked_pass' = [last_checked_pass EXCEPT ![n] = pass]
  /\ stack' = Tail(stack)
  /\ UNCHANGED <<program, place, pass, errors>>

Done == loop = "done" /\ stack = <<>>
Finished == Done /\ UNCHANGED vars

Next ==
  \/ RegisterNames \/ NextLoop \/ NextUnit \/ StartPass \/ Return
  \/ ResolveType \/ CheckDeclaration \/ CheckFunction
  \/ Demand \/ UseName \/ UseUndeclared
  \/ FinishLocalSize \/ FinishType \/ FinishInitializer
  \/ Finished

Spec == Init /\ [][Next]_vars /\ WF_vars(Next)

-----------------------------------------------------------------------------
(* Properties.                                                             *)

Globals == {n \in Names : Decl(n).kind = "global"}
Uses(n) == {Decl(n).uses[i] : i \in DOMAIN Decl(n).uses}
HasFlag(n, flag) == n \in DOMAIN symbols[Home(n)] /\ flag \in symbols[Home(n)][n].flags

\* Well-typed state.  COMPUTING marks exactly the declarations whose initializer
\* is being checked, and none is being checked twice.
Evaluating == {i \in DOMAIN stack : stack[i].job = "initializer"}
TypeOK ==
  /\ pass \in {0, 1}
  /\ \A u \in UnitSet, n \in Names : n \in DOMAIN symbols[u] =>
       /\ symbols[u][n].flags \subseteq Flags
       /\ "COMPUTING" \in symbols[u][n].flags
            <=> \E i \in Evaluating : stack[i].decl = n /\ stack[i].scope = u
       /\ "COMPUTED" \in symbols[u][n].flags => {"CONST", "INITIALIZED"} \subseteq symbols[u][n].flags
  /\ \A i, j \in Evaluating : i # j => stack[i].decl # stack[j].decl
  /\ last_checked_pass \in [Names -> {0, 1}]

\* constants whose type is resolved: no constant has a value when types are
\* resolved, so an array with a size has none
Constant(n) == Decl(n).kind = "global" /\ Decl(n).const /\ Decl(n).size = NONE

\* the constants of its unit that n mentions
Constants(n) == {m \in Uses(n) : Constant(m) /\ Home(m) = Home(n)}

(* The constants that mention only such constants of their own unit: the   *)
(* smallest set that has each constant all of whose mentions it has.       *)
Complete(known) ==
  \A n \in Globals :
    Constant(n) /\ (\A m \in Uses(n) : m \in known /\ Home(m) = Home(n)) => n \in known
Foldable == {n \in Globals : \A known \in SUBSET Globals : Complete(known) => n \in known}

\* n is in every set that has what its members mention, and what n mentions
Recursive(n) ==
  \A found \in SUBSET Globals :
    (\A m \in found \cup {n} : Constants(m) \subseteq found) => n \in found

SumOf(base, values) ==
  LET sum[i \in 0..Len(values)] == IF i = 0 THEN base ELSE sum[i - 1] + values[i]
  IN  sum[Len(values)]
MentionedValues(n) ==
  [i \in DOMAIN Decl(n).uses |-> symbols[Home(n)][Decl(n).uses[i]].value]

Computed == {n \in Globals : HasFlag(n, "COMPUTED")}

\* A constant gets the value its declarations determine, its literal plus what
\* it mentions, whichever mention evaluates it and in whatever order they are
\* declared; and at the end all that have such a value have got it.
ConstantsFold ==
  /\ \A n \in Computed :
       /\ n \in Foldable
       /\ symbols[Home(n)][n].value = SumOf(Decl(n).literal, MentionedValues(n))
  /\ Done => Foldable \subseteq Computed

\* A recursion of constants is reported, and nothing else is reported as one:
\* the mark that tells is on exactly the declarations being evaluated.
CyclesReported ==
  /\ TypeOK
  /\ Done => ((\E e \in errors : e.kind = "recursive")
                <=> \E n \in Globals : Constant(n) /\ Recursive(n))

\* A declaration that was evaluated is never entered again.
EvaluatedOnce ==
  [][\A n \in Globals : HasFlag(n, "INITIALIZED") => ~HasFlag(n, "COMPUTING")']_vars

\* Type checking ends, whatever the constants mention.
CheckingEnds == <>Done

=============================================================================
