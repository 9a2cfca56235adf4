-------------------------- MODULE ImportResolution --------------------------
(***************************************************************************)
(* Pass 1 of typecheck_program (src/sema/typecheck.c) as far as names and  *)
(* imports go, composed with the loader that feeds it: each loaded unit in *)
(* turn registers its declarations, then resolve_imports binds its imports *)
(* into its global scope, then its signatures are resolved.                *)
(*                                                                         *)
(* A scope is named by the unit that created it and a path: <<f, <<>>>> is *)
(* the global scope of f, <<f, <<"std">>>> the namespace scope f made for  *)
(* the first component of "import std.io".  A symbol records what later    *)
(* lookups use: its kind, pub flag, module_scope and, for declarations,    *)
(* the ones it can stand for.  Imports are copied by value, so a copy of   *)
(* an overload set or a module lacks the fields scope_define_symbol is not *)
(* given.                                                                  *)
(*                                                                         *)
(* Trees carry for each file "decls": name |-> [kind, pub, sig, link,      *)
(* type], kind "function", "generic" (a function with type parameters),    *)
(* "variable" or "struct", sig the parameter types of a function, link     *)
(* whether it is declared with @link, type the name of a variable's type   *)
(* ("" for a type of the language); for each import its pub flag, alias    *)
(* ("" if none) and "symbols", the pairs <<name, local name>> of its       *)
(* braces.                                                                 *)
(***************************************************************************)
EXTENDS ModuleLoader

ASSUME DeclarationsAssumption ==
  \A t \in Trees : \A f \in DOMAIN t :
    /\ \A n \in DOMAIN t[f].decls :
         /\ t[f].decls[n].kind \in {"function", "generic", "variable", "struct"}
         /\ t[f].decls[n].pub \in BOOLEAN
    /\ \A i \in 1..Len(t[f].imports) :
         t[f].imports[i].pub \in BOOLEAN /\ Len(t[f].imports[i].symbols) \in Nat

VARIABLES
  scopes,    \* scope name |-> (identifier |-> symbol)
  pos,       \* index in units_ordered of the unit pass 1 is at
  phase,     \* what pass 1 does next
  current,   \* index of the import declaration resolve_imports is at
  at,        \* current_bind_scope
  item,      \* index of the next component of the path, or of the next symbol
  signed,    \* units whose signatures are resolved
  targetOf,  \* <<f, i>> |-> the unit import i of f was bound to
  errors     \* diagnostics: [kind, unit, import, name]

cursor   == <<pos, current, at, item>>
semaVars == <<scopes, cursor, phase, signed, targetOf, errors>>
vars     == <<loaderVars, semaVars>>

NoScope   == <<>>
Global(f) == <<f, <<>>>>
Unit      == ordered[pos]

-----------------------------------------------------------------------------
(* scope_define_symbol (src/datastructures/scope.c).                       *)

Symbol(kind, pub, scope, cands) ==
  [kind |-> kind, pub |-> pub, scope |-> scope, cands |-> cands]

Candidate(f, name, typed) == [decl |-> <<f, name>>, typed |-> typed]

Declared(c) == tree[c.decl[1]].decls[c.decl[2]]
SigOf(c)    == Declared(c).sig

\* scope_overload_set_add: by interned parameter types once both are known,
\* by declaration before that
SameCandidate(c, d) ==
  IF c.typed /\ d.typed THEN SigOf(c) = SigOf(d) ELSE c.decl = d.decl

Bound(id, name) == name \in DOMAIN scopes[id]
Lookup(id, name) == scopes[id][name]

\* main has no overloads, nor has what is or joins a function declared with @link
NoOverload(name, old, sym) ==
  \/ name = "main"
  \/ Declared(sym.cands[1]).link
  \/ old.kind = "function" /\ Declared(old.cands[1]).link

Overloads(name, old, sym) ==
  sym.kind = "function" /\ old.kind \in {"function", "set"} /\ ~NoOverload(name, old, sym)

\* a second function makes a set of the first, which is never compared with it
Joins(name, old, sym) ==
  /\ Overloads(name, old, sym)
  /\ old.kind = "set" => \A k \in DOMAIN old.cands : ~SameCandidate(old.cands[k], sym.cands[1])

Joined(old, sym) == Symbol("set", old.pub \/ sym.pub, NoScope, old.cands \o sym.cands)

SetSymbol(id, name, sym) == [scopes EXCEPT ![id] = Put(@, name, sym)]

\* the scopes after sym is defined under name; a name that is taken keeps its symbol
Defined(id, name, sym) ==
  IF ~Bound(id, name) THEN SetSymbol(id, name, sym)
  ELSE IF Joins(name, Lookup(id, name), sym) THEN SetSymbol(id, name, Joined(Lookup(id, name), sym))
  ELSE scopes

\* a copied set has no candidates: adding one dereferences NULL
DefinesInNull(id, name, sym) ==
  /\ Bound(id, name) /\ Overloads(name, Lookup(id, name), sym)
  /\ Lookup(id, name).kind = "set" /\ Lookup(id, name).cands = <<>>

-----------------------------------------------------------------------------
Error(kind, i, name) == [kind |-> kind, unit |-> Unit, import |-> i, name |-> name]

SemaInit ==
  /\ scopes = <<>>
  /\ pos = 0 /\ current = 1 /\ at = NoScope /\ item = 1
  /\ phase = "idle"
  /\ signed = {}
  /\ targetOf = <<>>
  /\ errors = {}

Loading == LoaderNext /\ UNCHANGED semaVars

\* one empty global scope per unit, before any unit is looked at
CreateScopes ==
  /\ LoadOK /\ phase = "idle"
  /\ scopes' = [g \in {Global(f) : f \in FilesIn(ordered)} |-> <<>>]
  /\ pos' = 1
  /\ phase' = "names"
  /\ UNCHANGED <<loaderVars, current, at, item, signed, targetOf, errors>>

\* Step A: what another unit's imports already bound here is a redeclaration, but
\* a variable of that name is passed over; only a struct has its type at once
RegisterNames ==
  /\ phase = "names"
  /\ LET decls == tree[Unit].decls
         new   == {n \in DOMAIN decls : ~Bound(Global(Unit), n)}
         own(n) == Symbol(decls[n].kind, decls[n].pub, NoScope,
                          <<Candidate(Unit, n, decls[n].kind = "struct")>>)
     IN  /\ scopes' = [scopes EXCEPT ![Global(Unit)] =
                         [n \in DOMAIN @ \cup new |-> IF n \in new THEN own(n) ELSE @[n]]]
         /\ errors' = errors \cup
              {Error("redeclaration", 0, n) :
                 n \in {m \in DOMAIN decls \ new : decls[m].kind # "variable"}}
  /\ phase' = "imports" /\ current' = 1
  /\ UNCHANGED <<loaderVars, pos, at, item, signed, targetOf>>

-----------------------------------------------------------------------------
(* Step B, resolve_imports: for each import declaration the unit it means, *)
(* then the components of its path, then its symbols or its alias.         *)

CurrentImport == tree[Unit].imports[current]

\* the path as written in the declaration
RebuiltPath(f, i) == tree[f].imports[i].parts

BoundPath(f, i) ==
  IF <<f, i>> \in DOMAIN resolved THEN resolved[<<f, i>>] ELSE RebuiltPath(f, i)

Report(kind, name) == errors' = errors \cup {Error(kind, current, name)}

\* an import of a module that is not there is reported and passed over
FindModule ==
  /\ phase = "imports" /\ current <= Len(tree[Unit].imports)
  /\ LET path == BoundPath(Unit, current)
     IN  IF path \in DOMAIN byLogical
         THEN /\ targetOf' = Put(targetOf, <<Unit, current>>, byLogical[path])
              /\ phase' = "path" /\ at' = Global(Unit) /\ item' = 1
              /\ UNCHANGED <<current, errors>>
         ELSE /\ Report("undeclared", "Module not found")
              /\ current' = current + 1
              /\ UNCHANGED <<targetOf, phase, at, item>>
  /\ UNCHANGED <<loaderVars, scopes, pos, signed>>

Target == targetOf[<<Unit, current>>]
Part   == CurrentImport.parts[item]
\* what is bound in the importer's own scope is as public as the import
PartPub == IF at = Global(Unit) THEN CurrentImport.pub ELSE TRUE

LastPart == phase = "path" /\ item = Len(CurrentImport.parts)
InnerPart == phase = "path" /\ item < Len(CurrentImport.parts)

\* defining something in a NULL scope is ignored
BindModule ==
  /\ LastPart
  /\ scopes' = IF at = NoScope THEN scopes
               ELSE Defined(at, Part, Symbol("module", PartPub, Global(Target), <<>>))
  /\ phase' = "symbols" /\ item' = 1
  /\ UNCHANGED <<loaderVars, pos, current, at, signed, targetOf, errors>>

\* an intermediate component dereferences the symbol it did not get there
NullScope ==
  /\ InnerPart /\ at = NoScope
  /\ phase' = "crashed"
  /\ UNCHANGED <<loaderVars, scopes, cursor, signed, targetOf, errors>>

CreateNamespace ==
  /\ InnerPart /\ at # NoScope /\ ~Bound(at, Part)
  /\ LET fresh == <<Unit, SubSeq(CurrentImport.parts, 1, item)>>
     IN  /\ scopes' = Put(SetSymbol(at, Part, Symbol("namespace", PartPub, fresh, <<>>)), fresh, <<>>)
         /\ at' = fresh
  /\ item' = item + 1
  /\ UNCHANGED <<loaderVars, pos, current, phase, signed, targetOf, errors>>

EnterScope ==
  /\ InnerPart /\ at # NoScope /\ Bound(at, Part)
  /\ Lookup(at, Part).kind \in {"module", "namespace"}
  /\ at' = Lookup(at, Part).scope
  /\ item' = item + 1
  /\ UNCHANGED <<loaderVars, scopes, pos, current, phase, signed, targetOf, errors>>

\* the rest of the path is given up, but not the symbols
PathConflict ==
  /\ InnerPart /\ at # NoScope /\ Bound(at, Part)
  /\ Lookup(at, Part).kind \notin {"module", "namespace"}
  /\ Report("redeclaration", Part)
  /\ phase' = "symbols" /\ item' = 1
  /\ UNCHANGED <<loaderVars, scopes, pos, current, at, signed, targetOf>>

AtSymbol == phase = "symbols" /\ item <= Len(CurrentImport.symbols)

\* Mutant: private symbols can be imported too.
ImportableAny(name) == Bound(Global(Target), name)

Importable(name) == Bound(Global(Target), name) /\ Lookup(Global(Target), name).pub

SymbolUndeclared ==
  /\ AtSymbol /\ ~Importable(CurrentImport.symbols[item][1])
  /\ Report("undeclared", CurrentImport.symbols[item][1])
  /\ item' = item + 1
  /\ UNCHANGED <<loaderVars, scopes, pos, current, at, phase, signed, targetOf>>

\* "import m { name }": a fresh symbol with the kind, type and declaration
\* of the target's, and nothing else of it
CopySymbol ==
  /\ AtSymbol /\ Importable(CurrentImport.symbols[item][1])
  /\ LET src   == Lookup(Global(Target), CurrentImport.symbols[item][1])
         local == CurrentImport.symbols[item][2]
         copy  == Symbol(src.kind, CurrentImport.pub, NoScope, IF src.kind = "set" THEN <<>> ELSE src.cands)
     IN  IF DefinesInNull(Global(Unit), local, copy)
         THEN phase' = "crashed" /\ UNCHANGED <<scopes, item>>
         ELSE /\ scopes' = Defined(Global(Unit), local, copy)
              /\ item' = item + 1
              /\ UNCHANGED phase
  /\ UNCHANGED <<loaderVars, pos, current, at, signed, targetOf, errors>>

\* "import m alias name" binds the module once more
NextImport ==
  /\ phase = "symbols" /\ item > Len(CurrentImport.symbols)
  /\ scopes' = IF CurrentImport.symbols = <<>> /\ CurrentImport.alias # ""
               THEN Defined(Global(Unit), CurrentImport.alias,
                            Symbol("module", CurrentImport.pub, Global(Target), <<>>))
               ELSE scopes
  /\ phase' = "imports" /\ current' = current + 1
  /\ UNCHANGED <<loaderVars, pos, at, item, signed, targetOf, errors>>

EndImports ==
  /\ phase = "imports" /\ current > Len(tree[Unit].imports)
  /\ phase' = "signatures"
  /\ UNCHANGED <<loaderVars, scopes, cursor, signed, targetOf, errors>>

-----------------------------------------------------------------------------
\* Mutant: types are left to a pass over all units after the imports.
ResolveSignaturesLater ==
  /\ phase = "signatures"
  /\ signed' = signed \cup {Unit}
  /\ pos' = pos + 1
  /\ phase' = IF pos = Len(ordered) THEN "done" ELSE "names"
  /\ UNCHANGED <<loaderVars, scopes, current, at, item, targetOf, errors>>

\* a variable of a type that is not found is left without one, and so is a
\* generic function; another function takes a type it does not find for void
TypeFound(f, n) ==
  LET decl == tree[f].decls[n]
  IN  /\ decl.kind # "generic"
      /\ \/ decl.kind # "variable" \/ decl.type = ""
         \/ Bound(Global(f), decl.type) /\ Lookup(Global(f), decl.type).kind = "struct"

\* Step C: each declaration is looked up by its name, in a set by the first
\* candidate that has it, and gets its type
OwnCandidate(f, cands, n, k) ==
  cands[k].decl = <<f, n>> /\ \A l \in 1..k - 1 : cands[l].decl # <<f, n>>

WithType(f, sym, n) ==
  [sym EXCEPT !.cands =
     [k \in DOMAIN @ |-> IF OwnCandidate(f, @, n, k) /\ TypeFound(f, n)
                                 THEN Candidate(f, n, TRUE) ELSE @[k]]]

ResolveSignatures ==
  /\ phase = "signatures"
  /\ scopes' = [scopes EXCEPT ![Global(Unit)] = [n \in DOMAIN @ |-> WithType(Unit, @[n], n)]]
  /\ errors' = errors \cup
       {Error("unknown type", 0, n) :
          n \in {m \in DOMAIN tree[Unit].decls :
                   tree[Unit].decls[m].kind = "variable" /\ ~TypeFound(Unit, m)}}
  /\ signed' = signed \cup {Unit}
  /\ pos' = pos + 1
  /\ phase' = IF pos = Len(ordered) THEN "done" ELSE "names"
  /\ UNCHANGED <<loaderVars, current, at, item, targetOf>>

Init == LoaderInit /\ SemaInit

ResolveImports ==
  \/ FindModule \/ BindModule \/ NullScope \/ CreateNamespace \/ EnterScope \/ PathConflict
  \/ SymbolUndeclared \/ CopySymbol
  \/ NextImport \/ EndImports

Next == Loading \/ CreateScopes \/ RegisterNames \/ ResolveImports \/ ResolveSignatures

Spec == Init /\ [][Next]_vars /\ WF_vars(Next)

-----------------------------------------------------------------------------
(* Properties.                                                             *)

TypeOK ==
  /\ LoaderTypeOK
  /\ pos \in 0..Len(ordered) + 1
  /\ phase \in {"idle", "names", "imports", "path", "symbols", "signatures", "done", "crashed"}
  /\ signed \subseteq FilesIn(ordered)
  /\ DOMAIN targetOf \subseteq DOMAIN resolved /\ Values(targetOf) \subseteq units
  /\ \A id \in DOMAIN scopes : \A n \in DOMAIN scopes[id] :
       LET sym == scopes[id][n]
       IN  /\ sym.kind \in {"function", "generic", "variable", "struct", "set", "module", "namespace"}
           /\ sym.scope \in DOMAIN scopes \cup {NoScope}
           /\ sym.kind \in {"function", "generic", "variable", "struct"} => Len(sym.cands) = 1

\* no two imports ask for the same logical path and mean different files
Unambiguous(logical) ==
  \A d, e \in {c \in DOMAIN resolved : resolved[c] = logical} : Named(d) = Named(e)

InCycle(f, g) == f \in Order!Reach(g) /\ g \in Order!Reach(f)

\* Every import declaration is bound to the file it names, as long as no other
\* import asks for the same logical path for another file (module_loader.c 175,
\* 230, 326; typecheck.c 1391-1415).
UnambiguousImportsBind ==
  \A d \in DOMAIN targetOf : targetOf[d] = Named(d) \/ ~Unambiguous(resolved[d])

\* A public declaration is only reported as undeclared to an importer it is in
\* an import cycle with: post-order has registered it otherwise (typecheck.c
\* 1476-1487, 1551).
UndeclaredOnlyInCycle ==
  \A e \in errors :
    LET d == <<e.unit, e.import>>
        decls == tree[targetOf[d]].decls
    IN  /\ e.kind = "undeclared" /\ d \in DOMAIN targetOf
        /\ e.name \in DOMAIN decls /\ decls[e.name].pub
        => InCycle(e.unit, targetOf[d]) \/ ~Unambiguous(resolved[d])

\* A unit may import a symbol of its own under another name, which is then not
\* found when its declarations get their types.
ImportsItself(f) == \E d \in DOMAIN targetOf : d[1] = f /\ targetOf[d] = f

\* A symbol copied from another unit already has its resolved type: the copy is
\* made by value and nobody completes it later (typecheck.c 1491, 1551-1561).
\* Only copies of a generic function, of a variable whose type its own unit does
\* not find, and through a unit that imports itself may lack one (731, 759).  No
\* scope holds anything else than a symbol it may hold.
CopiesAreTyped ==
  /\ TypeOK
  /\ \A f \in FilesIn(ordered) :
       phase # "idle" => \A n \in DOMAIN scopes[Global(f)] :
         \A c \in FilesIn(scopes[Global(f)][n].cands) :
           c.decl[1] # f =>
             c.typed \/ ~TypeFound(c.decl[1], c.decl[2]) \/ ImportsItself(c.decl[1])

\* A declaration that is not pub is in no other unit's scope, however many
\* units pass names on with "pub import" (basics.md 187-188; typecheck.c 1478).
PrivateStaysPrivate ==
  \A f \in FilesIn(ordered) :
    phase # "idle" => \A n \in DOMAIN scopes[Global(f)] :
      \A c \in FilesIn(scopes[Global(f)][n].cands) :
        c.decl[1] # f => tree[c.decl[1]].decls[c.decl[2]].pub
=============================================================================
