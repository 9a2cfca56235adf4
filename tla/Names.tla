------------------------------- MODULE Names -------------------------------
(***************************************************************************)
(* What a name stands for: the scopes of the units and of one function     *)
(* body as the checker builds them (src/sema/typecheck.c,                  *)
(* src/sema/typecheck_expr.c, src/datastructures/scope.c), and the storage *)
(* the code generator finds for the same names afterwards, in maps of its  *)
(* own (src/codegen/codegen_stmt.c, codegen_decl.c, codegen_lvalue.c).     *)
(*                                                                         *)
(* The two do not share a table.  The checker leaves a symbol in each      *)
(* identifier; the generator looks at the name first, in the maps of the   *)
(* blocks it is in, and at the symbol only for what is not local, by its   *)
(* file and its name.                                                      *)
(*                                                                         *)
(* A body is a list of items, read one after the other as the checker      *)
(* comes to them; it is then generated from the same list.  <<p>> stands   *)
(* for what item p declares, and for its storage, <<0>> for a parameter.   *)
(***************************************************************************)
EXTENDS Naturals, Sequences, FiniteSets, SequencesExt, FiniteSetsExt

CONSTANTS
  NONE,     \* no symbol, no name, no declaration
  Names,    \* identifiers
  Units,    \* the units in the order of the loader; the body is in the last
  Programs  \* [unit, params, names, room]: declarations of the units, parameters,
            \* the names the body may use, and how many items it may have

\* what a unit declares
Declared ==
  [globals : Seq([name : Names, pub : BOOLEAN]),
   imports : Seq([from : Range(Units), name : Names \cup {NONE}, as : Names \cup {NONE}, pub : BOOLEAN]),
   aliases : Seq([name : Names, in : Range(Units) \cup {NONE}, target : Names])]

Pointers == Range(Units) \X Names

Symbols ==
  [kind : {"variable", "alias"}, name : Names, file : Range(Units), pub : BOOLEAN,
   target : Pointers \cup {NONE}, decl : Pointers]

ASSUME NamesAssumption ==
  /\ Units \in Seq(Range(Units)) /\ Len(Units) > 0
  /\ \A i, j \in DOMAIN Units : Units[i] = Units[j] => i = j
  /\ NONE \notin Names \cup Range(Units) \cup Pointers \cup Symbols \cup Seq(Nat)
  /\ \A p \in Programs :
       /\ p.unit \in [Range(Units) -> Declared] /\ p.params \in Seq(Names)
       /\ p.names \subseteq Names /\ p.room \in Nat
       /\ \A u \in Range(Units) : \A k \in DOMAIN p.unit[u].imports :
            p.unit[u].imports[k].name # NONE => p.unit[u].imports[k].as # NONE

VARIABLES
  program,
  phase,    \* "names", "imports", "aliases" of a unit; "check", "generate", "done"
  turn,     \* the unit, in Units
  next,     \* the alias declaration to resolve
  scope,    \* symbols of the units
  look,     \* the symbol a lookup has come to, or NONE
  errors,
  body,     \* items checked so far
  scopes,   \* scopes of the body, innermost last: declarations by name
  bound,    \* what each item's use was bound to
  at,       \* the item to generate
  locals,   \* the generator's maps, innermost last
  frames,   \* the blocks being generated, with their deferred bodies
  dead,     \* the current basic block has its terminator
  reads     \* storage found for the uses

unitVars == <<turn, next, scope>>
bodyVars == <<body, scopes, bound>>
codeVars == <<at, locals, frames, dead, reads>>
vars == <<program, phase, look, errors, unitVars, bodyVars, codeVars>>

-----------------------------------------------------------------------------
(* Unit scopes.  A symbol is pointed to as <<unit, name>>.                 *)

Main == Last(Units)
Unit == Units[turn]
Declarations(u) == program.unit[u]
Aliases == Declarations(Unit).aliases

Symbol(p) == scope[p[1]][p[2]]

NoNames == [n \in Names |-> NONE]

Variable(u, g) ==
  [kind |-> "variable", name |-> g.name, file |-> u, pub |-> g.pub,
   target |-> NONE, decl |-> <<u, g.name>>]

Alias(u, a) ==
  [kind |-> "alias", name |-> a.name, file |-> u, pub |-> FALSE,
   target |-> NONE, decl |-> <<u, a.name>>]

Named(declarations, n) == {k \in DOMAIN declarations : declarations[k].name = n}

\* the globals, then the aliases; a name that is taken is left as it is
Registered(u) ==
  LET D == Declarations(u)
  IN  [n \in Names |->
         IF Named(D.globals, n) # {} THEN Variable(u, D.globals[Min(Named(D.globals, n))])
         ELSE IF Named(D.aliases, n) # {} THEN Alias(u, D.aliases[Min(Named(D.aliases, n))])
         ELSE NONE]

\* what an import leaves in the importing unit
Copy(i, symbol) ==
  [symbol EXCEPT !.name = i.as, !.file = i.from, !.pub = i.pub, !.target = NONE]

Importable(i) ==
  i.name = NONE \/ (scope[i.from][i.name] # NONE /\ scope[i.from][i.name].pub)

\* the imports that bring n to unit u
Bringing(u, n) ==
  {k \in DOMAIN Declarations(u).imports :
     LET i == Declarations(u).imports[k] IN i.as = n /\ i.name # NONE /\ Importable(i)}

\* the unit's scope with what it imports, where the name is not taken
Imported(u) ==
  [n \in Names |->
     IF scope[u][n] # NONE \/ Bringing(u, n) = {} THEN scope[u][n]
     ELSE LET i == Declarations(u).imports[Min(Bringing(u, n))]
          IN  Copy(i, scope[i.from][i.name])]

\* the module path of an import names its unit
Reached(u, a) ==
  /\ \E k \in DOMAIN Declarations(u).imports : Declarations(u).imports[k].from = a.in
  /\ scope[a.in][a.target] # NONE
  /\ scope[a.in][a.target].pub

-----------------------------------------------------------------------------
(* Items.  "decl" declares x, its initializer uses `use'; "for" declares x *)
(* in its first part and uses `use' in its last; "block", "for" and        *)
(* "defer" end at their "end".                                             *)

Items ==
  LET N == program.names
  IN       [k : {"decl"}, x : N, use : N \cup {NONE}]
      \cup [k : {"for"},  x : N, use : N]
      \cup [k : {"use"},  x : {NONE}, use : N]
      \cup [k : {"block", "defer", "return", "end"}, x : {NONE}, use : {NONE}]

Opens(it) == it.k \in {"block", "for", "defer"}

\* how many items of the first p are open after it
Depth(p) == Cardinality({i \in 1..p : Opens(body[i])})
            - Cardinality({i \in 1..p : body[i].k = "end"})

EndOf(d) == Min({e \in d + 1 .. Len(body) : Depth(e) < Depth(d)})

Opener(e) == Max({d \in 1 .. e - 1 : Opens(body[d]) /\ Depth(d) = Depth(e - 1)})

\* the room must do for the ends
Fits(it) ==
  LET depth == Depth(Len(body))
  IN  IF it.k = "end" THEN depth > 0
      ELSE Len(body) + depth + (IF Opens(it) THEN 2 ELSE 1) <= program.room

-----------------------------------------------------------------------------
(* Signatures: for each unit its names, its imports, its aliases.          *)

Init ==
  /\ program \in Programs
  /\ phase = "names" /\ turn = 1 /\ next = 1
  /\ scope = [u \in Range(Units) |-> NoNames]
  /\ look = NONE /\ errors = {}
  /\ body = <<>> /\ bound = <<>>
  /\ scopes = <<[n \in Names |-> IF n \in Range(program.params) THEN <<0>> ELSE NONE]>>
  /\ at = 1 /\ dead = FALSE /\ reads = {}
  /\ locals = <<>> /\ frames = <<>>

\* register_program_globals, register_program_aliases
RegisterNames ==
  /\ phase = "names"
  /\ scope' = [scope EXCEPT ![Unit] = Registered(Unit)]
  /\ phase' = "imports"
  /\ UNCHANGED <<program, turn, next, look, errors, bodyVars, codeVars>>

ResolveImports ==
  /\ phase = "imports"
  /\ scope' = [scope EXCEPT ![Unit] = Imported(Unit)]
  /\ errors' = errors \cup
       (IF \A k \in DOMAIN Declarations(Unit).imports : Importable(Declarations(Unit).imports[k])
        THEN {} ELSE {"undeclared"})
  /\ phase' = "aliases" /\ next' = 1
  /\ UNCHANGED <<program, turn, look, bodyVars, codeVars>>

AliasTo(target) ==
  /\ scope' = [scope EXCEPT ![Unit][Aliases[next].name].target = target]
  /\ next' = next + 1

\* A path is resolved as it stands, a name is looked up.
ResolveAlias ==
  /\ phase = "aliases" /\ look = NONE /\ next <= Len(Aliases)
  /\ LET a == Aliases[next]
     IN  \/ /\ a.in # NONE /\ Reached(Unit, a)
            /\ AliasTo(<<a.in, a.target>>)
            /\ UNCHANGED <<look, errors>>
         \/ /\ a.in = NONE /\ scope[Unit][a.target] # NONE
            /\ look' = <<Unit, a.target>>
            /\ UNCHANGED <<scope, next, errors>>
         \/ /\ IF a.in = NONE THEN scope[Unit][a.target] = NONE ELSE ~Reached(Unit, a)
            /\ errors' = errors \cup {"alias"}
            /\ next' = next + 1
            /\ UNCHANGED <<scope, look>>
  /\ UNCHANGED <<program, phase, turn, bodyVars, codeVars>>

FollowedOnce(p) == Symbol(p).kind = "alias" /\ Symbol(p).target # NONE

\* Mutant: the loop keeps testing the symbol it started from.
FollowAliasFromStart ==
  /\ look # NONE /\ FollowedOnce(look)
  /\ look' = look
  /\ UNCHANGED <<program, phase, errors, unitVars, bodyVars, codeVars>>

\* One turn of the loop of scope_lookup_symbol.
FollowAlias ==
  /\ look # NONE /\ FollowedOnce(look)
  /\ look' = Symbol(look).target
  /\ UNCHANGED <<program, phase, errors, unitVars, bodyVars, codeVars>>

BindAlias ==
  /\ phase = "aliases" /\ look # NONE /\ ~FollowedOnce(look)
  /\ AliasTo(look)
  /\ look' = NONE
  /\ UNCHANGED <<program, phase, turn, errors, bodyVars, codeVars>>

NextUnit ==
  /\ phase = "aliases" /\ look = NONE /\ next > Len(Aliases)
  /\ IF turn < Len(Units) THEN turn' = turn + 1 /\ phase' = "names"
     ELSE turn' = turn /\ phase' = "check"
  /\ UNCHANGED <<program, next, scope, look, errors, bodyVars, codeVars>>

-----------------------------------------------------------------------------
(* The body.  The parameters and the body's own block share one scope; a   *)
(* `for' has one for its first part and its body another.                  *)

\* Mutant: the chain is searched from the other end.
Outermost(chain, n) ==
  LET levels == {l \in DOMAIN chain : chain[l][n] # NONE}
  IN  IF levels = {} THEN NONE ELSE chain[Min(levels)][n]

Innermost(chain, n) ==
  LET levels == {l \in DOMAIN chain : chain[l][n] # NONE}
  IN  IF levels = {} THEN NONE ELSE chain[Max(levels)][n]

Put(chain, n, d) == [chain EXCEPT ![Len(chain)][n] = d]

\* the scopes in which the use of an item is looked up
Before(it) ==
  IF it.k = "for" THEN Append(scopes, [NoNames EXCEPT ![it.x] = <<Len(body) + 1>>]) ELSE scopes

\* the scopes after the item, which stands at p, and its meaning
Checked(it, p, chain, meaning) ==
  LET taken == it.k = "decl" /\ Last(chain)[it.x] # NONE
  IN  /\ bound' = Append(bound, meaning)
      /\ errors' = errors \cup (IF it.use # NONE /\ meaning = NONE THEN {"undeclared"} ELSE {})
                          \cup (IF taken THEN {"redeclared"} ELSE {})
      /\ scopes' = CASE it.k = "decl" /\ ~taken -> Put(chain, it.x, <<p>>)
                     [] Opens(it)  -> Append(chain, NoNames)
                     [] it.k = "end" ->
                          LET own == IF body[Opener(p)].k = "for" THEN 2 ELSE 1
                          IN  SubSeq(chain, 1, Len(chain) - own)
                     [] OTHER -> chain

\* An item that uses no name, or one that is local.
CheckItem(it) ==
  /\ phase = "check" /\ look = NONE /\ Fits(it)
  /\ body' = Append(body, it)
  /\ it.use # NONE => Innermost(Before(it), it.use) # NONE
  /\ Checked(it, Len(body) + 1, Before(it),
             IF it.use = NONE THEN NONE ELSE Innermost(Before(it), it.use))
  /\ UNCHANGED <<program, phase, look, unitVars, codeVars>>

\* A name that is not local is looked up in the unit.
LookUp(it) ==
  /\ phase = "check" /\ look = NONE /\ Fits(it)
  /\ it.use # NONE /\ Innermost(Before(it), it.use) = NONE
  /\ body' = Append(body, it)
  /\ IF scope[Main][it.use] # NONE
     THEN look' = <<Main, it.use>> /\ UNCHANGED <<errors, scopes, bound>>
     ELSE look' = NONE /\ Checked(it, Len(body) + 1, Before(it), NONE)
  /\ UNCHANGED <<program, phase, unitVars, codeVars>>

\* The symbol found, whose declaration is what counts and whose file and name
\* are what the generator will see of it.
BindUse ==
  /\ phase = "check" /\ look # NONE /\ ~FollowedOnce(look)
  /\ LET it == Last(body)
         chain == IF it.k = "for" THEN Append(scopes, [NoNames EXCEPT ![it.x] = <<Len(body)>>]) ELSE scopes
     IN  Checked(it, Len(body), chain, look)
  /\ look' = NONE
  /\ UNCHANGED <<program, phase, unitVars, body, codeVars>>

EndCheck ==
  /\ phase = "check" /\ look = NONE /\ Depth(Len(body)) = 0
  /\ phase' = IF errors = {} THEN "generate" ELSE "done"
  /\ locals' = <<[n \in Names |-> IF n \in Range(program.params) THEN <<0>> ELSE NONE], NoNames>>
  /\ frames' = <<[waiting |-> <<>>, back |-> 0, cleaned |-> FALSE]>>
  /\ UNCHANGED <<program, look, errors, unitVars, bodyVars, at, dead, reads>>

-----------------------------------------------------------------------------
(* Code generation.  A deferred body is left where it stands and generated *)
(* at the end of its block, the last one first, each once.                 *)

Globals(u) == {Declarations(u).globals[k].name : k \in DOMAIN Declarations(u).globals}

\* codegen_lvalue_identifier: the maps by name, then the symbol by its file and name
Storage(maps, n, symbol) ==
  IF Innermost(maps, n) # NONE THEN Innermost(maps, n)
  ELSE LET s == Symbol(symbol)
       IN  IF s.name \in Globals(s.file) THEN <<s.file, s.name>> ELSE NONE

Read(p, maps) ==
  reads' = reads \cup {[at |-> p, storage |-> Storage(maps, body[p].use, bound[p])]}

NextItem(p) == IF Opens(body[p]) THEN EndOf(p) + 1 ELSE p + 1

Generating == phase = "generate" /\ at <= Len(body) /\ body[at].k # "end"
AtEnd == phase = "generate" /\ (at <= Len(body) => body[at].k = "end")

\* nothing is generated after a terminator
SkipDead ==
  /\ Generating /\ dead
  /\ at' = NextItem(at)
  /\ UNCHANGED <<program, phase, look, errors, unitVars, bodyVars, locals, frames, dead, reads>>

GenerateUse ==
  /\ Generating /\ ~dead /\ body[at].k = "use"
  /\ Read(at, locals)
  /\ at' = at + 1
  /\ UNCHANGED <<program, phase, look, errors, unitVars, bodyVars, locals, frames, dead>>

\* The variable is entered before its initializer is generated.
GenerateDeclaration ==
  /\ Generating /\ ~dead /\ body[at].k = "decl"
  /\ locals' = Put(locals, body[at].x, <<at>>)
  /\ IF body[at].use # NONE THEN Read(at, locals') ELSE reads' = reads
  /\ at' = at + 1
  /\ UNCHANGED <<program, phase, look, errors, unitVars, bodyVars, frames, dead>>

EnterBlock ==
  /\ Generating /\ ~dead /\ body[at].k \in {"block", "for"}
  /\ locals' = Append(IF body[at].k = "for"
                      THEN Append(locals, [NoNames EXCEPT ![body[at].x] = <<at>>]) ELSE locals,
                      NoNames)
  /\ frames' = Append(frames, [waiting |-> <<>>, back |-> 0, cleaned |-> FALSE])
  /\ at' = at + 1
  /\ UNCHANGED <<program, phase, look, errors, unitVars, bodyVars, dead, reads>>

RegisterDefer ==
  /\ Generating /\ ~dead /\ body[at].k = "defer"
  /\ frames' = [frames EXCEPT ![Len(frames)].waiting = Append(@, at)]
  /\ at' = NextItem(at)
  /\ UNCHANGED <<program, phase, look, errors, unitVars, bodyVars, locals, dead, reads>>

GenerateReturn ==
  /\ Generating /\ ~dead /\ body[at].k = "return"
  /\ dead' = TRUE
  /\ at' = at + 1
  /\ UNCHANGED <<program, phase, look, errors, unitVars, bodyVars, locals, frames, reads>>

\* The end of a block with deferred bodies left: the last of them, in the maps
\* as they are now and in a basic block of its own.
RunDeferred ==
  /\ AtEnd /\ Last(frames).waiting # <<>>
  /\ LET d == Last(Last(frames).waiting)
     IN  /\ frames' = Append([frames EXCEPT ![Len(frames)].waiting = Front(@),
                                            ![Len(frames)].cleaned = TRUE],
                             [waiting |-> <<>>, back |-> at, cleaned |-> FALSE])
         /\ at' = d + 1
  /\ locals' = Append(locals, NoNames)
  /\ dead' = FALSE
  /\ UNCHANGED <<program, phase, look, errors, unitVars, bodyVars, reads>>

Loops == at <= Len(body) /\ body[Opener(at)].k = "for"

\* Mutant: the maps of a `for' are left together, after its last part.
LeaveBlockTogether ==
  /\ AtEnd /\ Len(frames) > 1 /\ Last(frames).waiting = <<>>
  /\ frames' = Front(frames)
  /\ IF Loops
     THEN /\ Read(Opener(at), locals)
          /\ locals' = Front(Front(locals))
     ELSE locals' = Front(locals) /\ reads' = reads
  /\ at' = IF Last(frames).back # 0 THEN Last(frames).back ELSE at + 1
  /\ dead' = (dead /\ ~Last(frames).cleaned /\ ~Loops)
  /\ UNCHANGED <<program, phase, look, errors, unitVars, bodyVars>>

\* The last part of a `for' is generated in the map of its first part.
LeaveBlock ==
  /\ AtEnd /\ Len(frames) > 1 /\ Last(frames).waiting = <<>>
  /\ frames' = Front(frames)
  /\ IF Loops
     THEN /\ Read(Opener(at), Front(locals))
          /\ locals' = Front(Front(locals))
     ELSE locals' = Front(locals) /\ reads' = reads
  /\ at' = IF Last(frames).back # 0 THEN Last(frames).back ELSE at + 1
  /\ dead' = (dead /\ ~Last(frames).cleaned /\ ~Loops)
  /\ UNCHANGED <<program, phase, look, errors, unitVars, bodyVars>>

EndFunction ==
  /\ AtEnd /\ Len(frames) = 1 /\ Last(frames).waiting = <<>>
  /\ phase' = "done"
  /\ frames' = <<>> /\ locals' = <<>>
  /\ UNCHANGED <<program, look, errors, unitVars, bodyVars, at, dead, reads>>

Signatures == RegisterNames \/ ResolveImports \/ ResolveAlias \/ FollowAlias \/ BindAlias \/ NextUnit

CheckBody == (\E it \in Items : CheckItem(it) \/ LookUp(it)) \/ BindUse \/ EndCheck

Generate ==
  \/ SkipDead \/ GenerateUse \/ GenerateDeclaration \/ EnterBlock \/ RegisterDefer
  \/ GenerateReturn \/ RunDeferred \/ LeaveBlock \/ EndFunction

Next == Signatures \/ CheckBody \/ Generate

Spec == Init /\ [][Next]_vars /\ WF_vars(Next)

-----------------------------------------------------------------------------
(* What the text says.                                                     *)

\* The declaration a name of a unit stands for, through its aliases and imports.
Says(u, n) ==
  LET D == Declarations(u)
  IN  IF n \in Globals(u) THEN <<u, n>>
      ELSE IF \E a \in Range(D.aliases) : a.name = n
           THEN LET a == CHOOSE b \in Range(D.aliases) : b.name = n
                IN  <<IF a.in = NONE THEN u ELSE a.in, a.target>>
      ELSE IF \E i \in Range(D.imports) : i.as = n /\ i.name # NONE
           THEN LET i == CHOOSE j \in Range(D.imports) : j.as = n /\ j.name # NONE
                IN  <<i.from, i.name>>
      ELSE NONE

Stands[k \in Nat] ==
  [p \in (Range(Units) \X Names) \cup {NONE} |->
     IF p = NONE \/ k = 0 THEN p ELSE Stands[k - 1][Says(p[1], p[2])]]

MostSteps == Cardinality(Names) * Len(Units)

Meaning(u, n) == Stands[MostSteps][<<u, n>>]

\* an alias that leads back to itself stands for nothing
Circular(u) == \E k \in DOMAIN Declarations(u).aliases :
  LET m == Meaning(u, Declarations(u).aliases[k].name)
  IN  m # NONE /\ m[2] \notin Globals(m[1])

SoundUnits == ~\E u \in Range(Units) : Circular(u)

\* the blocks around an item; 0 is the body
Around(p) == {d \in 1 .. p - 1 : Opens(body[d]) /\ EndOf(d) >= p}

Declares(d, n) == body[d].x = n

\* a declaration reaches the rest of its block, the first part of a `for' all of it
Reaches(d, p) ==
  IF body[d].k = "for" THEN d \in Around(p) \cup {p} ELSE d < p /\ Around(d) \subseteq Around(p)

Written(p) ==
  LET n  == body[p].use
      ds == {d \in 1 .. p : Declares(d, n) /\ Reaches(d, p)}
  IN  IF ds # {} THEN <<Max(ds)>>
      ELSE IF n \in Range(program.params) THEN <<0>>
      ELSE Meaning(Main, n)

Uses == {p \in DOMAIN body : body[p].use # NONE}

Twice ==
  \E d \in DOMAIN body :
    /\ body[d].k = "decl"
    /\ \/ Around(d) = {} /\ body[d].x \in Range(program.params)
       \/ \E c \in 1 .. d - 1 : body[c].k = "decl" /\ body[c].x = body[d].x /\ Around(c) = Around(d)

\* what a unit lets others import
Offers(u, n) ==
  \/ \E g \in Range(Declarations(u).globals) : g.name = n /\ g.pub
  \/ \E i \in Range(Declarations(u).imports) : i.as = n /\ i.name # NONE /\ i.pub

Resolvable(u) ==
  LET D == Declarations(u)
  IN  /\ \A i \in Range(D.imports) : i.name = NONE \/ Offers(i.from, i.name)
      /\ \A a \in Range(D.aliases) :
           IF a.in = NONE THEN Says(u, a.target) # NONE
           ELSE Offers(a.in, a.target) /\ \E i \in Range(D.imports) : i.from = a.in

DeclarationOf(b) == IF b = NONE \/ Len(b) = 1 THEN b ELSE Symbol(b).decl

-----------------------------------------------------------------------------
(* Properties.                                                             *)

\* A program is accepted exactly if its imports and aliases lead somewhere, every
\* name is declared where it is used and no block declares a name twice; then every
\* use is bound to the declaration the text puts nearest around it, a shadowing one
\* first, or to what its unit's aliases and imports lead to.
BoundAsWritten ==
  phase \in {"generate", "done"} =>
    /\ errors = {} <=> /\ \A u \in Range(Units) : Resolvable(u)
                       /\ \A p \in Uses : Written(p) # NONE
                       /\ ~Twice
    /\ errors = {} => \A p \in Uses : DeclarationOf(bound[p]) = Written(p)

\* Where the generator is known to find another storage: in the initializer of a
\* variable of the same name, in a deferred body whose block declares the name
\* later, and through an import that renames or passes on what was imported.
OwnInitializer(p) == body[p].k = "decl" /\ body[p].x = body[p].use

DeclaredLater(p) ==
  \E d \in Around(p), c \in DOMAIN body :
    /\ body[d].k = "defer" /\ c > EndOf(d) /\ Around(c) = Around(d)
    /\ body[c].k = "decl" /\ body[c].x = body[p].use

PlainImports ==
  \A u \in Range(Units) : \A i \in Range(Declarations(u).imports) :
    i.name # NONE => i.as = i.name /\ i.name \in Globals(i.from)

\* Every use that is generated gets the storage of the declaration it was checked
\* against, though the generator looks names up anew, in the order it generates the
\* blocks, with deferred bodies moved to the ends of theirs.
GeneratedAsBound ==
  \A r \in reads :
    \/ r.storage = DeclarationOf(bound[r.at])
    \/ OwnInitializer(r.at)
    \/ DeclaredLater(r.at)
    \/ Len(bound[r.at]) = 2 /\ ~PlainImports

\* Checking and generating a program ends, unless an alias leads back to itself.
LookupsEnd == SoundUnits => <>(phase = "done")
=============================================================================
