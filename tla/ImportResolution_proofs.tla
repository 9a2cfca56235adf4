---------------------- MODULE ImportResolution_proofs ----------------------
(***************************************************************************)
(* For every set of source trees: which files imports are bound to, when a *)
(* public symbol is reported as undeclared, and what the symbols that one  *)
(* unit takes from another are like.                                       *)
(*                                                                         *)
(* The load the pass starts from is the one the loader's invariant         *)
(* describes; the scopes are described symbol by symbol.                   *)
(***************************************************************************)
EXTENDS ImportResolution, ModuleLoader_proofs

-----------------------------------------------------------------------------
(* What the pass is given.                                                 *)

Given ==
  /\ tree \in Trees
  /\ Len(ordered) \in Nat \ {0}
  /\ FilesIn(ordered) \subseteq DOMAIN tree
  /\ \A i, j \in 1..Len(ordered) : ordered[i] = ordered[j] => i = j
  /\ units = FilesIn(ordered)
  /\ \A f \in FilesIn(ordered) : \A i \in 1..Len(tree[f].imports) :
       <<f, i>> \in DOMAIN resolved /\ Named(<<f, i>>) \in FilesIn(ordered)
  /\ \A d \in DOMAIN resolved :
       /\ resolved[d] \in DOMAIN byLogical
       /\ byLogical[resolved[d]] \in FilesIn(ordered)
       /\ \E e \in DOMAIN resolved : resolved[e] = resolved[d] /\ byLogical[resolved[d]] = Named(e)

\* A load that succeeds leaves all of that.
LEMMA LoadGives ==
  ASSUME Provenance, LoadOK
  PROVE  Given
<1>1. /\ IInv /\ ResolvedOK /\ SourcesOK /\ Provided /\ Asked
      /\ stack = <<>> /\ ctl.op = "return" /\ Len(stack) = 0
  BY DEF Provenance, Unfailed, Failing, LoadOK, LoadDone
<1>2. /\ FilesIn(ordered) \subseteq DOMAIN tree
      /\ Len(ordered) \in Nat
      /\ \A f \in DOMAIN tree : Len(tree[f].imports) \in Nat
  BY <1>1, FramesTyped
<1>3. units = FilesIn(ordered) /\ \A i, j \in 1..Len(ordered) : ordered[i] = ordered[j] => i = j
  BY <1>1 DEF IInv, UnitsAccounted, StackFiles
<1>4. Len(ordered) # 0
  <2>1. Entry \in FilesIn(ordered)
    BY <1>1, <1>3 DEF Asked
  <2> QED BY <2>1 DEF FilesIn
<1>5. \A f \in FilesIn(ordered) : \A i \in 1..Len(tree[f].imports) :
        <<f, i>> \in DOMAIN resolved /\ Named(<<f, i>>) \in FilesIn(ordered)
  BY <1>1, <1>3 DEF ResolvedOK, Brought
<1>6. ASSUME NEW d \in DOMAIN resolved
      PROVE  /\ resolved[d] \in DOMAIN byLogical
             /\ byLogical[resolved[d]] \in FilesIn(ordered)
             /\ \E e \in DOMAIN resolved : resolved[e] = resolved[d] /\ byLogical[resolved[d]] = Named(e)
  <2>1. resolved[d] \in DOMAIN byLogical
    BY <1>1 DEF Provided
  <2>2. MeantBy(resolved[d], byLogical[resolved[d]])
    BY <1>1, <2>1 DEF SourcesOK
  <2>3. PICK e \in DOMAIN resolved : resolved[e] = resolved[d] /\ byLogical[resolved[d]] = Named(e)
    BY <1>1, <2>2 DEF MeantBy
  <2>4. e = <<e[1], e[2]>> /\ e[1] \in FilesIn(ordered) /\ e[2] \in 1..Len(tree[e[1]].imports)
    BY <1>1 DEF ResolvedOK, Passed
  <2>5. Named(<<e[1], e[2]>>) \in FilesIn(ordered)
    BY <1>5, <2>4
  <2>6. Named(e) \in FilesIn(ordered)
    BY <2>4, <2>5
  <2> QED BY <2>1, <2>3, <2>6
<1>7. tree \in Trees
  BY <1>1 DEF IInv
<1> QED BY <1>2, <1>3, <1>4, <1>5, <1>6, <1>7 DEF Given

\* A finished loader takes no step.
LEMMA LoaderStopped ==
  ASSUME LoadOK
  PROVE  ~LoaderNext
BY DEF LoadOK, LoadDone, LoaderNext, TooDeep, Unresolved, AlreadyLoaded, Rejected, CreateUnit,
       FollowImport, ImportLoaded, ImportFailed, FinishUnit

-----------------------------------------------------------------------------
(* The invariant.                                                          *)

InUnit  == phase \in {"imports", "path", "symbols", "signatures", "crashed"}
Known   == signed \cup (IF InUnit THEN {Unit} ELSE {})
Globals == {Global(f) : f \in Known}

\* before the pass nothing is there
Fresh ==
  /\ scopes = <<>> /\ pos = 0 /\ current = 1 /\ item = 1 /\ signed = {} /\ targetOf = <<>> /\ errors = {}

Phases == {"names", "imports", "path", "symbols", "signatures", "done", "crashed"}

Placed ==
  /\ phase \in Phases
  /\ signed = {ordered[i] : i \in 1..pos - 1}
  /\ IF phase = "done" THEN pos = Len(ordered) + 1 ELSE pos \in 1..Len(ordered)
  /\ current \in Nat \ {0} /\ item \in Nat \ {0}
  /\ phase \in {"path", "symbols"} =>
       current <= Len(tree[Unit].imports) /\ <<Unit, current>> \in DOMAIN targetOf
  /\ phase = "path" => item <= Len(CurrentImport.parts) /\ at \in DOMAIN scopes \cup {NoScope}

\* every import that was found is bound to what its path is registered for
Targets ==
  \A d \in DOMAIN targetOf : d \in DOMAIN resolved /\ targetOf[d] = byLogical[resolved[d]]

Decls      == UNION {{<<f, n>> : n \in DOMAIN tree[f].decls} : f \in FilesIn(ordered)}
Candidates == [decl : Decls, typed : BOOLEAN]
Kinds      == {"function", "generic", "variable", "struct", "set", "module", "namespace"}
IsPub(c)   == tree[c.decl[1]].decls[c.decl[2]].pub

Fits(sym) ==
  /\ sym \in [kind : Kinds, pub : BOOLEAN, scope : DOMAIN scopes \cup {NoScope}, cands : Seq(Candidates)]
  /\ sym.kind \in {"module", "namespace"} => Len(sym.cands) = 0
  /\ sym.kind \in {"function", "generic", "variable", "struct"} => Len(sym.cands) = 1

Bare(sym) == sym.pub /\ sym.kind \in {"module", "namespace"}

\* a candidate that has its type, or is one of those that need not
Settled(c) == c.typed \/ ~TypeFound(c.decl[1], c.decl[2]) \/ ImportsItself(c.decl[1])

\* what unit f may have under name n: its own declaration first, and public
\* ones of units whose signatures are resolved
Held(f, n, sym) ==
  \A k \in 1..Len(sym.cands) : \A c, g : c = sym.cands[k] /\ g = c.decl[1] =>
    /\ g # f => g \in signed /\ IsPub(c) /\ Settled(c)
    /\ sym.kind # "set" /\ sym.pub => IsPub(c)
    /\ g = f => (k = 1 /\ c.decl[2] = n) \/ ImportsItself(f)
    /\ g = f /\ f \in signed => Settled(c)

InScope(id, n, sym) == id \in DOMAIN scopes /\ n \in DOMAIN scopes[id] /\ sym = scopes[id][n]

ScopesOK ==
  /\ \A f \in FilesIn(ordered) : Global(f) \in DOMAIN scopes
  /\ \A id, n, sym : InScope(id, n, sym) =>
       /\ Fits(sym)
       /\ id \notin Globals => Bare(sym)
  /\ \A f \in Known : \A n \in DOMAIN tree[f].decls :
       \E sym : InScope(Global(f), n, sym) /\ (tree[f].decls[n].pub => sym.pub)
  /\ \A f \in Known : \A n, sym : InScope(Global(f), n, sym) => Held(f, n, sym)

\* f may miss a public declaration n of g, asked for under path p
Excused(f, n, g, p) ==
  n \in DOMAIN tree[g].decls /\ tree[g].decls[n].pub => InCycle(f, g) \/ ~Unambiguous(p)

ErrorsOK ==
  \A e \in errors : \A d, g, p :
    e.kind = "undeclared" /\ d = <<e.unit, e.import>> =>
      /\ d \in DOMAIN targetOf
      /\ g = targetOf[d] /\ p = resolved[d] => Excused(e.unit, e.name, g, p)

Resolving == LoadOK /\ Placed /\ Targets /\ ScopesOK /\ ErrorsOK
PassInv   == Provenance /\ (phase = "idle" => Fresh) /\ (phase # "idle" => Resolving)

-----------------------------------------------------------------------------
(* What stays.                                                             *)

\* Nothing the loader left changes.
LEMMA GivenStays ==
  ASSUME UNCHANGED loaderVars
  PROVE  /\ LoadOK => LoadOK'
         /\ FilesIn(ordered)' = FilesIn(ordered) /\ Decls' = Decls /\ Candidates' = Candidates
         /\ \A d : Named(d)' = Named(d)
         /\ \A f, g : InCycle(f, g)' <=> InCycle(f, g)
         /\ \A p : Unambiguous(p)' <=> Unambiguous(p)
         /\ \A c : IsPub(c)' <=> IsPub(c)
<1>1. UNCHANGED <<tree, ordered, resolved, byLogical, ctl, stack>>
  BY DEF loaderVars
<1>2. /\ \A d : Named(d)' = Named(d)
      /\ \A f : Order!Reach(f)' = Order!Reach(f)
  BY <1>1, SameTree
<1>3. \A f, g : InCycle(f, g)' <=> InCycle(f, g)
  BY <1>2 DEF InCycle
<1>4. \A p : Unambiguous(p)' <=> Unambiguous(p)
  BY <1>1, <1>2 DEF Unambiguous
<1>5. FilesIn(ordered)' = FilesIn(ordered) /\ (LoadOK => LoadOK')
  BY <1>1 DEF FilesIn, LoadOK, LoadDone
<1>6. Decls' = Decls
  BY <1>1, <1>5 DEF Decls
<1>7. Candidates' = Candidates
  BY <1>6 DEF Candidates
<1>8. \A c : IsPub(c)' <=> IsPub(c)
  BY <1>1 DEF IsPub
<1> QED BY <1>2, <1>3, <1>4, <1>5, <1>6, <1>7, <1>8

\* What is bound stays bound.
Extended ==
  \A d \in DOMAIN targetOf : d \in DOMAIN targetOf' /\ targetOf'[d] = targetOf[d]

\* A unit that imports itself goes on doing so.
LEMMA SelfImportStays ==
  ASSUME Extended, NEW f, ImportsItself(f)
  PROVE  ImportsItself(f)'
BY DEF Extended, ImportsItself

\* A symbol stays one that some scope may hold.
LEMMA FitsStays ==
  ASSUME UNCHANGED loaderVars, DOMAIN scopes \subseteq DOMAIN scopes', NEW sym, Fits(sym)
  PROVE  Fits(sym)'
<1>1. Candidates' = Candidates
  BY GivenStays
<1> QED BY <1>1 DEF Fits

\* A type that is found afterwards was found before when no struct has come.
LEMMA TypeFoundBefore ==
  ASSUME UNCHANGED loaderVars, NEW g, Global(g) \in DOMAIN scopes',
         \A n, s : InScope(Global(g), n, s)' /\ s.kind = "struct" =>
           \E t : InScope(Global(g), n, t) /\ t.kind = "struct"
  PROVE  \A n : TypeFound(g, n)' => TypeFound(g, n)
<1> SUFFICES ASSUME NEW n, TypeFound(g, n)', tree[g].decls[n].kind = "variable", tree[g].decls[n].type # ""
             PROVE  TypeFound(g, n)
  BY DEF TypeFound, loaderVars
<1>t. PICK m : m = tree[g].decls[n].type
  OBVIOUS
<1>1. m \in DOMAIN scopes'[Global(g)] /\ scopes'[Global(g)][m].kind = "struct"
  BY <1>t DEF TypeFound, Bound, Lookup, loaderVars, Global
<1>2. PICK s : s = scopes'[Global(g)][m]
  OBVIOUS
<1>3. InScope(Global(g), m, s)' /\ s.kind = "struct"
  BY <1>1, <1>2 DEF InScope, Global
<1>4. PICK t : InScope(Global(g), m, t) /\ t.kind = "struct"
  BY <1>3
<1> QED BY <1>4, <1>t DEF TypeFound, Bound, Lookup, InScope

\* A step finds no type that a unit whose signatures are resolved did not find.
TypesSettled == \A g \in signed : \A n : TypeFound(g, n)' => TypeFound(g, n)

\* A candidate of such a unit stays settled.
LEMMA SettledStays ==
  ASSUME Extended, TypesSettled, NEW c, c.decl[1] \in signed, Settled(c)
  PROVE  Settled(c)'
<1>1. PICK g, n : g = c.decl[1] /\ n = c.decl[2]
  OBVIOUS
<1>2. c.typed \/ ~TypeFound(g, n) \/ ImportsItself(g)
  BY <1>1 DEF Settled
<1>3. (~TypeFound(g, n) => ~(TypeFound(g, n)')) /\ (ImportsItself(g) => ImportsItself(g)')
  BY <1>1, SelfImportStays DEF TypesSettled
<1> QED BY <1>1, <1>2, <1>3 DEF Settled

\* What a unit may have, it may go on having.
LEMMA HeldStays ==
  ASSUME UNCHANGED loaderVars, Extended, TypesSettled, signed \subseteq signed',
         NEW f, f \in signed' => f \in signed,
         NEW n, NEW sym, Held(f, n, sym)
  PROVE  Held(f, n, sym)'
<1> SUFFICES ASSUME NEW k \in 1..Len(sym.cands), NEW c, NEW g, c = sym.cands[k], g = c.decl[1]
             PROVE  ( /\ g # f => g \in signed /\ IsPub(c) /\ Settled(c)
                      /\ sym.kind # "set" /\ sym.pub => IsPub(c)
                      /\ g = f => (k = 1 /\ c.decl[2] = n) \/ ImportsItself(f)
                      /\ g = f /\ f \in signed => Settled(c) )'
  BY DEF Held
<1>1. IsPub(c)' <=> IsPub(c)
  BY GivenStays
<1>2. g \in signed /\ Settled(c) => Settled(c)'
  BY SettledStays
<1>3. ImportsItself(f) => ImportsItself(f)'
  BY SelfImportStays
<1> QED BY <1>1, <1>2, <1>3 DEF Held

\* Scopes that do not change stay right while imports are bound.
LEMMA ScopesStay ==
  ASSUME UNCHANGED loaderVars, Extended, ScopesOK, scopes' = scopes, signed' = signed, Known' = Known
  PROVE  ScopesOK'
<1>1. FilesIn(ordered)' = FilesIn(ordered) /\ tree' = tree
  BY GivenStays DEF loaderVars
<1>2. \A id, n, sym : InScope(id, n, sym)' <=> InScope(id, n, sym)
  BY DEF InScope
<1>3. Globals' = Globals /\ TypesSettled
  BY <1>1 DEF Globals, Global, TypesSettled, TypeFound, Bound, Lookup
<1>4. ASSUME NEW id, NEW n, NEW sym, InScope(id, n, sym)'
      PROVE  Fits(sym)' /\ (id \notin Globals => Bare(sym))
  BY <1>2, <1>4, FitsStays DEF ScopesOK
<1>5. ASSUME NEW f \in Known, NEW n, NEW sym, InScope(Global(f), n, sym)' PROVE Held(f, n, sym)'
  BY <1>2, <1>3, <1>5, HeldStays DEF ScopesOK
<1>6. \A f \in FilesIn(ordered) : Global(f) \in DOMAIN scopes'
  BY DEF ScopesOK
<1>7. \A f \in Known : \A n \in DOMAIN tree[f].decls :
        \E sym : InScope(Global(f), n, sym)' /\ (tree[f].decls[n].pub => sym.pub)
  BY <1>2 DEF ScopesOK
<1> QED BY <1>1, <1>3, <1>4, <1>5, <1>6, <1>7 DEF ScopesOK, Bare, Global

-----------------------------------------------------------------------------
(* scope_define_symbol.                                                    *)

\* Defining a symbol adds it, adds its candidates to a set, or does nothing.
LEMMA DefinedCases ==
  ASSUME NEW id \in DOMAIN scopes, NEW name, NEW sym, scopes' = Defined(id, name, sym)
  PROVE  /\ DOMAIN scopes' = DOMAIN scopes
         /\ \A x, n, s : InScope(x, n, s)' =>
              \/ InScope(x, n, s)
              \/ x = id /\ n = name /\ s = sym
              \/ /\ x = id /\ n = name
                 /\ \E old : InScope(id, name, old) /\ Joins(name, old, sym) /\ s = Joined(old, sym)
         /\ \A x, n, s : InScope(x, n, s) =>
              \/ InScope(x, n, s)'
              \/ InScope(x, n, Joined(s, sym))'
<1>1. CASE scopes' = scopes
  BY <1>1 DEF InScope
<1>2. CASE scopes' = SetSymbol(id, name, sym) /\ ~Bound(id, name)
  <2>1. /\ DOMAIN scopes' = DOMAIN scopes
        /\ scopes'[id] = Put(scopes[id], name, sym)
        /\ \A x \in DOMAIN scopes : x # id => scopes'[x] = scopes[x]
    BY <1>2 DEF SetSymbol
  <2>2. /\ DOMAIN scopes'[id] = DOMAIN scopes[id] \cup {name}
        /\ \A n \in DOMAIN scopes[id] \cup {name} :
             scopes'[id][n] = IF n = name THEN sym ELSE scopes[id][n]
    BY <2>1 DEF Put
  <2>3. name \notin DOMAIN scopes[id]
    BY <1>2 DEF Bound
  <2> QED BY <2>1, <2>2, <2>3 DEF InScope
<1>3. CASE /\ Bound(id, name) /\ Joins(name, Lookup(id, name), sym)
           /\ scopes' = SetSymbol(id, name, Joined(Lookup(id, name), sym))
  <2>o. PICK old : old = scopes[id][name]
    OBVIOUS
  <2>n. PICK new : new = Joined(old, sym)
    OBVIOUS
  <2>1. /\ DOMAIN scopes' = DOMAIN scopes
        /\ scopes'[id] = Put(scopes[id], name, new)
        /\ \A x \in DOMAIN scopes : x # id => scopes'[x] = scopes[x]
    BY <1>3, <2>o, <2>n DEF SetSymbol, Lookup
  <2>2. InScope(id, name, old) /\ Joins(name, old, sym)
    BY <1>3, <2>o DEF InScope, Bound, Lookup
  <2>3. /\ DOMAIN scopes'[id] = DOMAIN scopes[id] \cup {name}
        /\ \A n \in DOMAIN scopes[id] \cup {name} :
             scopes'[id][n] = IF n = name THEN new ELSE scopes[id][n]
    BY <2>1 DEF Put
  <2>4. ASSUME NEW x, NEW n, NEW s, InScope(x, n, s)'
        PROVE  InScope(x, n, s) \/ (x = id /\ n = name /\ s = new)
    <3>1. x \in DOMAIN scopes /\ n \in DOMAIN scopes'[x] /\ s = scopes'[x][n]
      BY <2>1, <2>4 DEF InScope
    <3>2. CASE x = id
      BY <2>3, <3>1, <3>2 DEF InScope
    <3>3. CASE x # id
      BY <2>1, <3>1, <3>3 DEF InScope
    <3> QED BY <3>2, <3>3
  <2>5. ASSUME NEW x, NEW n, NEW s, InScope(x, n, s)
        PROVE  InScope(x, n, s)' \/ (s = old /\ InScope(x, n, new)')
    BY <2>1, <2>3, <2>5, <2>o DEF InScope
  <2> QED BY <2>1, <2>2, <2>4, <2>5, <2>n
<1> QED BY <1>1, <1>2, <1>3 DEF Defined

\* A set keeps what both were.
LEMMA JoinedFits ==
  ASSUME NEW old, NEW sym, Fits(old), Fits(sym)
  PROVE  /\ Fits(Joined(old, sym))
         /\ Joined(old, sym).kind = "set"
         /\ Joined(old, sym).pub = (old.pub \/ sym.pub)
         /\ \A k \in 1..Len(Joined(old, sym).cands) :
              \/ k \in 1..Len(old.cands) /\ Joined(old, sym).cands[k] = old.cands[k]
              \/ \E l \in 1..Len(sym.cands) : Joined(old, sym).cands[k] = sym.cands[l]
<1> DEFINE s == old.cands
           t == sym.cands
           j == Joined(old, sym)
<1>1. s \in Seq(Candidates) /\ t \in Seq(Candidates) /\ old.pub \in BOOLEAN /\ sym.pub \in BOOLEAN
  BY DEF Fits
<1>2. /\ j.kind = "set" /\ j.pub = (old.pub \/ sym.pub) /\ j.cands = s \o t /\ j.scope = NoScope
      /\ j = [kind |-> "set", pub |-> old.pub \/ sym.pub, scope |-> NoScope, cands |-> s \o t]
  BY DEF Joined, Symbol
<1> HIDE DEF s, t
<1>3. /\ s \o t \in Seq(Candidates) /\ Len(s \o t) = Len(s) + Len(t)
      /\ Len(s) \in Nat /\ Len(t) \in Nat
      /\ \A k \in 1..Len(s) + Len(t) : (s \o t)[k] = IF k <= Len(s) THEN s[k] ELSE t[k - Len(s)]
  <2>1. Len(s) \in Nat /\ Len(t) \in Nat
    BY <1>1, LenProperties
  <2> QED BY <1>1, <2>1, ConcatProperties
<1>4. Fits(j)
  BY <1>1, <1>2, <1>3 DEF Fits, Kinds
<1>5. ASSUME NEW k \in 1..Len(s) + Len(t)
      PROVE  \/ k \in 1..Len(s) /\ (s \o t)[k] = s[k]
             \/ \E l \in 1..Len(t) : (s \o t)[k] = t[l]
  <2>1. CASE k <= Len(s)
    BY <1>3, <2>1
  <2>2. CASE ~(k <= Len(s))
    <3>1. k - Len(s) \in 1..Len(t)
      BY <1>3, <2>2
    <3>2. (s \o t)[k] = t[k - Len(s)]
      BY <1>3, <2>2
    <3> QED BY <3>1, <3>2
  <2> QED BY <2>1, <2>2
<1> QED BY <1>2, <1>3, <1>4, <1>5 DEF s, t

\* Defining a symbol that its scope may hold keeps the scopes right.
LEMMA DefinedStays ==
  ASSUME UNCHANGED <<loaderVars, signed, targetOf>>, Known' = Known, ScopesOK,
         signed \subseteq FilesIn(ordered),
         NEW id \in DOMAIN scopes, NEW name, NEW sym, scopes' = Defined(id, name, sym),
         Fits(sym), id \notin Globals => Bare(sym),
         \A f \in Known : id = Global(f) =>
           /\ Held(f, name, sym)
           /\ \A k \in 1..Len(sym.cands) : sym.cands[k].decl[1] = f => ImportsItself(f),
         \A g \in signed : id = Global(g) => sym.kind # "struct"
  PROVE  ScopesOK'
<1>0. UNCHANGED loaderVars /\ Extended /\ signed' = signed
  BY DEF Extended
<1>1. FilesIn(ordered)' = FilesIn(ordered) /\ tree' = tree
  BY GivenStays DEF loaderVars
<1>2. /\ DOMAIN scopes' = DOMAIN scopes
      /\ \A x, n, s : InScope(x, n, s)' =>
           \/ InScope(x, n, s)
           \/ x = id /\ n = name /\ s = sym
           \/ /\ x = id /\ n = name
              /\ \E old : InScope(id, name, old) /\ Joins(name, old, sym) /\ s = Joined(old, sym)
      /\ \A x, n, s : InScope(x, n, s) => InScope(x, n, s)' \/ InScope(x, n, Joined(s, sym))'
  BY DefinedCases
<1>3. Globals' = Globals
  BY DEF Globals, Global
<1>4. ASSUME NEW x, NEW n, NEW s, InScope(x, n, s)'
      PROVE  Fits(s)' /\ (x \notin Globals => Bare(s))
  <2>1. CASE InScope(x, n, s)
    BY <1>0, <1>2, <2>1, FitsStays DEF ScopesOK
  <2>2. CASE x = id /\ n = name /\ s = sym
    BY <1>0, <1>2, <2>2, FitsStays
  <2>3. CASE x = id /\ \E old : InScope(id, name, old) /\ Joins(name, old, sym) /\ s = Joined(old, sym)
    <3>1. PICK old : InScope(id, name, old) /\ Joins(name, old, sym) /\ s = Joined(old, sym)
      BY <2>3
    <3>2. Fits(s)
      BY <3>1, JoinedFits DEF ScopesOK
    <3>3. id \in Globals
      BY <3>1 DEF Joins, Overloads, Bare
    <3> QED BY <1>0, <1>2, <2>3, <3>2, <3>3, FitsStays
  <2> QED BY <1>2, <1>4, <2>1, <2>2, <2>3
<1>t. TypesSettled
  <2> SUFFICES ASSUME NEW g \in signed PROVE \A n : TypeFound(g, n)' => TypeFound(g, n)
    BY DEF TypesSettled
  <2>1. Global(g) \in DOMAIN scopes'
    BY <1>2 DEF ScopesOK
  <2>2. ASSUME NEW n, NEW s, InScope(Global(g), n, s)', s.kind = "struct"
        PROVE  InScope(Global(g), n, s)
    <3>1. \A old : Joined(old, sym).kind # "struct"
      BY DEF Joined, Symbol
    <3>2. PICK x : x = Global(g)
      OBVIOUS
    <3>3. InScope(x, n, s)' /\ (x = id => sym.kind # "struct")
      BY <2>2, <3>2 DEF Global
    <3>4. InScope(x, n, s)
      BY <1>2, <2>2, <3>1, <3>3
    <3> QED BY <3>2, <3>4
  <2> QED BY <1>0, <2>1, <2>2, TypeFoundBefore
<1>5. ASSUME NEW f \in Known, NEW n, NEW s, InScope(Global(f), n, s)' PROVE Held(f, n, s)'
  <2>0. SUFFICES Held(f, n, s)
    BY <1>0, <1>t, HeldStays
  <2>1. CASE InScope(Global(f), n, s)
    BY <2>1 DEF ScopesOK
  <2>2. CASE Global(f) = id /\ n = name /\ s = sym
    BY <2>2
  <2>3. CASE /\ Global(f) = id /\ n = name
             /\ \E old : InScope(id, name, old) /\ Joins(name, old, sym) /\ s = Joined(old, sym)
    <3>1. PICK old : InScope(id, name, old) /\ Joins(name, old, sym) /\ s = Joined(old, sym)
      BY <2>3
    <3>2. Fits(old) /\ Held(f, name, old) /\ Held(f, name, sym)
      BY <2>3, <3>1 DEF ScopesOK
    <3>3. /\ s.kind = "set"
          /\ \A k \in 1..Len(s.cands) :
               \/ k \in 1..Len(old.cands) /\ s.cands[k] = old.cands[k]
               \/ \E l \in 1..Len(sym.cands) : s.cands[k] = sym.cands[l]
      BY <3>1, <3>2, JoinedFits
    <3>4. ASSUME NEW k \in 1..Len(s.cands), NEW c, NEW g, c = s.cands[k], g = c.decl[1]
          PROVE  /\ g # f => g \in signed /\ IsPub(c) /\ Settled(c)
                 /\ g = f => (k = 1 /\ c.decl[2] = n) \/ ImportsItself(f)
                 /\ g = f /\ f \in signed => Settled(c)
      <4>1. CASE k \in 1..Len(old.cands) /\ s.cands[k] = old.cands[k]
        BY <2>3, <3>2, <3>4, <4>1 DEF Held
      <4>2. CASE \E l \in 1..Len(sym.cands) : s.cands[k] = sym.cands[l]
        <5>1. PICK l \in 1..Len(sym.cands) : s.cands[k] = sym.cands[l]
          BY <4>2
        <5>2. g = f => ImportsItself(f)
          BY <2>3, <3>4, <5>1
        <5> QED BY <3>2, <3>4, <5>1, <5>2 DEF Held
      <4> QED BY <3>3, <4>1, <4>2
    <3> QED BY <3>3, <3>4 DEF Held
  <2> QED BY <1>2, <1>5, <2>1, <2>2, <2>3
<1>6. ASSUME NEW f \in Known, NEW n \in DOMAIN tree[f].decls
      PROVE  \E s : InScope(Global(f), n, s)' /\ (tree[f].decls[n].pub => s.pub)
  <2>1. PICK s : InScope(Global(f), n, s) /\ (tree[f].decls[n].pub => s.pub)
    BY DEF ScopesOK
  <2>2. CASE InScope(Global(f), n, s)'
    BY <2>1, <2>2
  <2>3. CASE InScope(Global(f), n, Joined(s, sym))'
    <3>1. Joined(s, sym).pub = (s.pub \/ sym.pub)
      BY <2>1, JoinedFits DEF ScopesOK
    <3> QED BY <2>1, <2>3, <3>1
  <2> QED BY <1>2, <2>1, <2>2, <2>3
<1>7. \A f \in FilesIn(ordered) : Global(f) \in DOMAIN scopes'
  BY <1>2 DEF ScopesOK
<1> QED BY <1>1, <1>3, <1>4, <1>5, <1>6, <1>7 DEF ScopesOK, Bare, Global

-----------------------------------------------------------------------------
(* Where the pass is.                                                      *)

\* The unit the pass is at is a loaded one whose signatures are not resolved.
LEMMA UnitFacts ==
  ASSUME Given, Placed, phase # "done"
  PROVE  /\ pos \in 1..Len(ordered) /\ Unit \in FilesIn(ordered) /\ Unit \in DOMAIN tree
         /\ Unit \notin signed
         /\ signed \subseteq FilesIn(ordered) /\ Known \subseteq FilesIn(ordered)
         /\ InUnit => Unit \in Known /\ Global(Unit) \in Globals
         /\ Len(tree[Unit].imports) \in Nat
<1>1. pos \in 1..Len(ordered)
  BY DEF Placed
<1>2. Unit \in FilesIn(ordered) /\ Unit \in DOMAIN tree
  BY <1>1 DEF Unit, FilesIn, Given
<1>3. ASSUME NEW f \in signed PROVE f \in FilesIn(ordered) /\ f # Unit
  <2>1. PICK i \in 1..pos - 1 : f = ordered[i]
    BY DEF Placed
  <2>2. i \in 1..Len(ordered) /\ i # pos
    BY <1>1, <2>1 DEF Given
  <2> QED BY <1>1, <2>1, <2>2 DEF Given, Unit, FilesIn
<1>4. Known \subseteq FilesIn(ordered)
  BY <1>2, <1>3 DEF Known
<1>5. InUnit => Unit \in Known /\ Global(Unit) \in Globals
  BY DEF Known, Globals
<1>6. Len(tree[Unit].imports) \in Nat
  BY <1>2, TreesAssumption DEF Given
<1> QED BY <1>1, <1>2, <1>3, <1>4, <1>5, <1>6

\* The import resolve_imports is at.
LEMMA ImportFacts ==
  ASSUME Given, Placed, Targets, phase \in {"path", "symbols"}
  PROVE  /\ Len(CurrentImport.parts) \in Nat \ {0} /\ CurrentImport.pub \in BOOLEAN
         /\ Len(CurrentImport.symbols) \in Nat
         /\ current \in 1..Len(tree[Unit].imports)
         /\ Target \in FilesIn(ordered) /\ Target = byLogical[resolved[<<Unit, current>>]]
<1>1. phase # "done" /\ Unit \in DOMAIN tree /\ tree \in Trees /\ Len(tree[Unit].imports) \in Nat
  BY UnitFacts DEF Given
<1>2. current \in 1..Len(tree[Unit].imports)
  BY <1>1 DEF Placed
<1>3. CurrentImport.parts \in Seq(Names) \ {<<>>}
  BY <1>1, <1>2, TreesAssumption DEF CurrentImport
<1>4. CurrentImport.pub \in BOOLEAN /\ Len(CurrentImport.symbols) \in Nat
  BY <1>1, <1>2, DeclarationsAssumption DEF CurrentImport
<1>5. Len(CurrentImport.parts) \in Nat \ {0}
  BY <1>3, EmptySeq
<1>6. <<Unit, current>> \in DOMAIN resolved /\ Target = byLogical[resolved[<<Unit, current>>]]
  BY DEF Placed, Targets, Target
<1> QED BY <1>2, <1>4, <1>5, <1>6 DEF Given

\* The set of units whose names are known only changes with the unit.
LEMMA KnownStays ==
  ASSUME UNCHANGED <<loaderVars, signed, pos>>, InUnit, InUnit'
  PROVE  Known' = Known /\ Unit' = Unit /\ CurrentImport' = tree[Unit].imports[current']
<1>1. Unit' = Unit /\ tree' = tree
  BY DEF Unit, loaderVars
<1> QED BY <1>1 DEF Known, CurrentImport

\* Diagnostics stay right while imports are bound.
LEMMA ErrorsStay ==
  ASSUME UNCHANGED loaderVars, Extended, ErrorsOK,
         \A e \in errors' : \A d, g, p :
           \/ e \in errors \/ e.kind # "undeclared"
           \/ d = <<e.unit, e.import>> =>
                /\ d \in DOMAIN targetOf
                /\ g = targetOf[d] /\ p = resolved[d] => Excused(e.unit, e.name, g, p)
  PROVE  ErrorsOK'
<1>1. /\ \A f, g : InCycle(f, g)' <=> InCycle(f, g)
      /\ \A p : Unambiguous(p)' <=> Unambiguous(p)
      /\ tree' = tree /\ resolved' = resolved
  BY GivenStays DEF loaderVars
<1>2. \A f, n, g, p : Excused(f, n, g, p)' <=> Excused(f, n, g, p)
  BY <1>1 DEF Excused
<1>3. ASSUME NEW e \in errors', NEW d, NEW g, NEW p, e.kind = "undeclared", d = <<e.unit, e.import>>
      PROVE  /\ d \in DOMAIN targetOf
             /\ g = targetOf[d] /\ p = resolved[d] => Excused(e.unit, e.name, g, p)
  BY <1>3 DEF ErrorsOK
<1>4. ASSUME NEW e \in errors', NEW d, NEW g, NEW p, e.kind = "undeclared", d = <<e.unit, e.import>>
      PROVE  /\ d \in DOMAIN targetOf'
             /\ g = targetOf'[d] /\ p = resolved'[d] => Excused(e.unit, e.name, g, p)'
  BY <1>1, <1>2, <1>3, <1>4 DEF Extended
<1> QED BY <1>4 DEF ErrorsOK

-----------------------------------------------------------------------------
(* The steps.                                                              *)

\* The pass starts in its invariant.
LEMMA PassInit == Init => PassInv
BY ProvenanceInit DEF Init, SemaInit, PassInv, Fresh

\* The pass starts with an empty scope for each unit.
LEMMA CreateScopesStep ==
  ASSUME Provenance, Given, Fresh, CreateScopes
  PROVE  Resolving'
<1>1. /\ UNCHANGED loaderVars /\ LoadOK /\ phase' = "names" /\ pos' = 1
      /\ signed' = {} /\ targetOf' = <<>> /\ errors' = {}
      /\ scopes' = [g \in {Global(f) : f \in FilesIn(ordered)} |-> <<>>]
  BY DEF CreateScopes, Fresh
<1>2. FilesIn(ordered)' = FilesIn(ordered) /\ LoadOK' /\ ordered' = ordered
  BY <1>1, GivenStays DEF loaderVars
<1>3. current' = 1 /\ item' = 1
  BY DEF CreateScopes, Fresh
<1>4. Placed'
  <2>1. 1 \in 1..Len(ordered)
    BY DEF Given
  <2>2. {ordered'[i] : i \in 1..pos' - 1} = {}
    BY <1>1
  <2> QED BY <1>1, <1>2, <1>3, <2>1, <2>2 DEF Placed, Phases
<1>5. Known' = {}
  BY <1>1 DEF Known, InUnit
<1>6. ScopesOK'
  <2>1. \A id, n, sym : ~(InScope(id, n, sym)')
    BY <1>1 DEF InScope
  <2>2. \A f \in FilesIn(ordered) : Global(f) \in DOMAIN scopes'
    BY <1>1
  <2> QED BY <1>2, <1>5, <2>1, <2>2 DEF ScopesOK, Global
<1>7. Targets' /\ ErrorsOK'
  BY <1>1 DEF Targets, ErrorsOK
<1> QED BY <1>2, <1>4, <1>6, <1>7 DEF Resolving

\* A unit's own declarations join the modules other units have put in its scope.
LEMMA RegisterNamesStep ==
  ASSUME Given, Resolving, RegisterNames
  PROVE  Resolving'
<1>0. LoadOK /\ Placed /\ Targets /\ ScopesOK /\ ErrorsOK
  BY DEF Resolving
<1>u. PICK u : u = Unit
  OBVIOUS
<1>g. PICK gl : gl = Global(u)
  OBVIOUS
<1> DEFINE decls == tree[u].decls
           new   == {n \in DOMAIN decls : n \notin DOMAIN scopes[gl]}
           own(n) == Symbol(decls[n].kind, decls[n].pub, NoScope,
                            <<Candidate(u, n, decls[n].kind = "struct")>>)
<1>1. /\ UNCHANGED <<loaderVars, pos, at, item, signed, targetOf>>
      /\ phase = "names" /\ phase' = "imports" /\ current' = 1
      /\ scopes' = [scopes EXCEPT ![gl] =
                      [n \in DOMAIN @ \cup new |-> IF n \in new THEN own(n) ELSE @[n]]]
      /\ \A e \in errors' : e \in errors \/ e.kind = "redeclaration"
  BY <1>u, <1>g DEF RegisterNames, Bound, Error
<1>2. /\ pos \in 1..Len(ordered) /\ u \in FilesIn(ordered) /\ u \in DOMAIN tree /\ u \notin signed
      /\ signed \subseteq FilesIn(ordered) /\ Unit' = u /\ tree' = tree
  BY <1>0, <1>1, <1>u, UnitFacts DEF Unit, loaderVars
<1>3. /\ Known = signed /\ Known' = signed \cup {u}
      /\ gl \in DOMAIN scopes
      /\ \A f \in Known : Global(f) # gl
      /\ gl \notin Globals
      /\ Globals' = Globals \cup {gl}
  <2>1. Known = signed /\ Known' = signed \cup {u}
    BY <1>1, <1>2 DEF Known, InUnit
  <2>2. gl \in DOMAIN scopes
    BY <1>0, <1>2, <1>g DEF ScopesOK
  <2>3. \A f \in Known : Global(f) # gl
    BY <1>2, <1>g, <2>1 DEF Global
  <2> QED BY <1>g, <2>1, <2>2, <2>3 DEF Globals, Global
<1>4. /\ \A n \in DOMAIN decls : decls[n].kind \in {"function", "generic", "variable", "struct"} /\ decls[n].pub \in BOOLEAN
      /\ \A n \in DOMAIN decls : /\ own(n).kind = decls[n].kind /\ own(n).pub = decls[n].pub
                                 /\ own(n).cands = <<Candidate(u, n, decls[n].kind = "struct")>>
  BY <1>2, DeclarationsAssumption DEF Given, Symbol
<1>5. ASSUME NEW n \in DOMAIN decls
      PROVE  /\ Fits(own(n))
             /\ Held(u, n, own(n))
  <2>1. <<u, n>> \in Decls
    BY <1>2 DEF Decls
  <2>2. PICK c : c = Candidate(u, n, decls[n].kind = "struct")
    OBVIOUS
  <2>3. c \in Candidates /\ c.decl = <<u, n>>
    BY <2>1, <2>2 DEF Candidate, Candidates
  <2>4. own(n) = [kind |-> decls[n].kind, pub |-> decls[n].pub, scope |-> NoScope, cands |-> <<c>>]
    BY <2>2 DEF Symbol
  <2>5. <<c>> \in Seq(Candidates) /\ Len(<<c>>) = 1 /\ <<c>>[1] = c
    BY <2>3
  <2>6. PICK s : s = own(n)
    OBVIOUS
  <2>7. /\ s = [kind |-> decls[n].kind, pub |-> decls[n].pub, scope |-> NoScope, cands |-> <<c>>]
        /\ s.kind = decls[n].kind /\ s.pub = decls[n].pub /\ s.cands = <<c>>
    BY <2>4, <2>6
  <2>8. Fits(s)
    BY <1>4, <2>5, <2>7 DEF Fits, Kinds
  <2>9. IsPub(c) <=> decls[n].pub
    BY <2>3 DEF IsPub
  <2>10. Held(u, n, s)
    <3> SUFFICES ASSUME NEW k \in 1..Len(s.cands), NEW d, NEW g, d = s.cands[k], g = d.decl[1]
                 PROVE  /\ g # u => g \in signed /\ IsPub(d) /\ Settled(d)
                        /\ s.kind # "set" /\ s.pub => IsPub(d)
                        /\ g = u => (k = 1 /\ d.decl[2] = n) \/ ImportsItself(u)
                        /\ g = u /\ u \in signed => Settled(d)
      BY DEF Held
    <3>1. k = 1 /\ d = c /\ g = u /\ d.decl[2] = n
      BY <2>3, <2>5, <2>7
    <3> QED BY <1>2, <2>7, <2>9, <3>1
  <2> QED BY <2>6, <2>8, <2>10
<1> HIDE DEF own
<1>6. /\ DOMAIN scopes' = DOMAIN scopes
      /\ \A x \in DOMAIN scopes : x # gl => scopes'[x] = scopes[x]
      /\ DOMAIN scopes'[gl] = DOMAIN scopes[gl] \cup new
      /\ \A n \in DOMAIN scopes[gl] \cup new :
           scopes'[gl][n] = IF n \in new THEN own(n) ELSE scopes[gl][n]
  BY <1>1, <1>3
<1>7. ASSUME NEW x, NEW n, NEW s, InScope(x, n, s)'
      PROVE  InScope(x, n, s) \/ (x = gl /\ n \in new /\ s = own(n))
  <2>1. CASE x = gl
    BY <1>3, <1>6, <1>7, <2>1 DEF InScope
  <2>2. CASE x # gl
    BY <1>6, <1>7, <2>2 DEF InScope
  <2> QED BY <2>1, <2>2
<1>8. ASSUME NEW x, NEW n, NEW s, InScope(x, n, s)
      PROVE  InScope(x, n, s)'
  <2>1. CASE x = gl
    BY <1>3, <1>6, <1>8, <2>1 DEF InScope
  <2>2. CASE x # gl
    BY <1>6, <1>8, <2>2 DEF InScope
  <2> QED BY <2>1, <2>2
<1>9. ASSUME NEW n \in new, NEW s, s = own(n) PROVE InScope(gl, n, s)'
  BY <1>3, <1>6, <1>9 DEF InScope
<1>10. Extended /\ FilesIn(ordered)' = FilesIn(ordered) /\ UNCHANGED loaderVars
  BY <1>1, GivenStays DEF Extended
<1>11. ASSUME NEW x, NEW n, NEW s, InScope(x, n, s)'
       PROVE  Fits(s)' /\ (x \notin Globals' => Bare(s))
  <2>1. Fits(s)
    BY <1>0, <1>5, <1>7, <1>11 DEF ScopesOK
  <2>2. x \notin Globals' => Bare(s)
    BY <1>0, <1>3, <1>7, <1>11 DEF ScopesOK
  <2> QED BY <1>6, <1>10, <2>1, <2>2, FitsStays
<1>t. TypesSettled
  <2> SUFFICES ASSUME NEW g \in signed PROVE \A n : TypeFound(g, n)' => TypeFound(g, n)
    BY DEF TypesSettled
  <2>1. Global(g) # gl /\ Global(g) \in DOMAIN scopes'
    BY <1>0, <1>2, <1>3, <1>6 DEF ScopesOK
  <2>2. ASSUME NEW n, NEW s, InScope(Global(g), n, s)' PROVE InScope(Global(g), n, s)
    BY <1>7, <2>1, <2>2
  <2> QED BY <1>10, <2>1, <2>2, TypeFoundBefore
<1>12. ASSUME NEW f \in Known', NEW n, NEW s, InScope(Global(f), n, s)' PROVE Held(f, n, s)'
  <2>0. SUFFICES Held(f, n, s)
    BY <1>1, <1>10, <1>t, HeldStays
  <2>1. CASE f \in Known
    BY <1>0, <1>3, <1>7, <1>12, <2>1 DEF ScopesOK
  <2>2. CASE f = u
    <3>1. CASE InScope(gl, n, s)
      <4>1. Bare(s) /\ Fits(s)
        BY <1>0, <1>3, <3>1 DEF ScopesOK
      <4>2. Len(s.cands) = 0
        BY <4>1 DEF Bare, Fits
      <4> QED BY <4>2 DEF Held
    <3>2. CASE n \in new /\ s = own(n)
      BY <1>5, <2>2, <3>2
    <3> QED BY <1>7, <1>12, <1>g, <2>2, <3>1, <3>2
  <2> QED BY <1>3, <2>1, <2>2
<1>13. ASSUME NEW f \in Known', NEW n \in DOMAIN tree[f].decls
       PROVE  \E s : InScope(Global(f), n, s)' /\ (tree[f].decls[n].pub => s.pub)
  <2>1. CASE f \in Known
    BY <1>0, <1>8, <2>1 DEF ScopesOK
  <2>2. CASE f = u /\ n \in new
    <3>1. PICK s : s = own(n)
      OBVIOUS
    <3>2. s.pub = decls[n].pub
      BY <1>4, <2>2, <3>1
    <3> QED BY <1>9, <1>g, <2>2, <3>1, <3>2
  <2>3. CASE f = u /\ n \notin new
    <3>1. PICK s : InScope(gl, n, s)
      BY <1>3, <2>3 DEF InScope
    <3>2. s.pub
      BY <1>0, <1>3, <3>1 DEF ScopesOK, Bare
    <3> QED BY <1>8, <1>g, <2>3, <3>1, <3>2
  <2> QED BY <1>3, <2>1, <2>2, <2>3
<1>14. ScopesOK'
  <2>1. \A f \in FilesIn(ordered) : Global(f) \in DOMAIN scopes'
    BY <1>0, <1>6 DEF ScopesOK
  <2> QED BY <1>2, <1>10, <1>11, <1>12, <1>13, <2>1 DEF ScopesOK, Bare, Global
<1>15. ErrorsOK'
  BY <1>0, <1>1, <1>10, ErrorsStay
<1>16. Placed'
  BY <1>0, <1>1, <1>2 DEF Placed, Phases, loaderVars
<1>17. Targets' /\ LoadOK'
  BY <1>0, <1>1, GivenStays DEF Targets, loaderVars
<1> QED BY <1>14, <1>15, <1>16, <1>17 DEF Resolving

\* A step within resolve_imports that defines nothing.
LEMMA QuietStays ==
  ASSUME Resolving, UNCHANGED <<loaderVars, scopes, signed, pos>>, InUnit, InUnit', Extended,
         Placed', Targets', ErrorsOK'
  PROVE  Resolving'
<1>1. Known' = Known
  BY KnownStays
<1>2. LoadOK' /\ ScopesOK'
  BY <1>1, GivenStays, ScopesStay DEF Resolving
<1> QED BY <1>2 DEF Resolving

\* An import is bound to the unit its path is registered for, and all of them are found.
LEMMA FindModuleStep ==
  ASSUME Given, Resolving, FindModule
  PROVE  Resolving'
<1>0. Placed /\ Targets /\ ErrorsOK
  BY DEF Resolving
<1>d. PICK d : d = <<Unit, current>>
  OBVIOUS
<1>1. /\ UNCHANGED <<loaderVars, scopes, signed, pos>>
      /\ phase = "imports" /\ InUnit /\ current <= Len(tree[Unit].imports)
  BY DEF FindModule, InUnit
<1>2. Unit \in FilesIn(ordered) /\ Len(tree[Unit].imports) \in Nat
  BY <1>0, <1>1, UnitFacts
<1>3. d \in DOMAIN resolved /\ resolved[d] \in DOMAIN byLogical
  <2>1. current \in 1..Len(tree[Unit].imports)
    BY <1>0, <1>1, <1>2 DEF Placed
  <2> QED BY <1>2, <1>d, <2>1 DEF Given
<1>4. BoundPath(Unit, current) = resolved[d]
  BY <1>3, <1>d DEF BoundPath
<1>5. /\ targetOf' = Put(targetOf, d, byLogical[resolved[d]])
      /\ phase' = "path" /\ at' = Global(Unit) /\ item' = 1
      /\ current' = current /\ errors' = errors
  BY <1>3, <1>4, <1>d DEF FindModule
<1>6. /\ DOMAIN targetOf' = DOMAIN targetOf \cup {d} /\ targetOf'[d] = byLogical[resolved[d]]
      /\ \A e \in DOMAIN targetOf : e # d => targetOf'[e] = targetOf[e]
  BY <1>5 DEF Put
<1>7. Extended
  BY <1>0, <1>6 DEF Extended, Targets
<1>8. Targets'
  BY <1>0, <1>1, <1>3, <1>6 DEF Targets, loaderVars
<1>9. /\ Unit' = Unit /\ CurrentImport' = CurrentImport /\ InUnit'
      /\ Global(Unit) \in DOMAIN scopes /\ 1 <= Len(CurrentImport.parts)
  <2>1. InUnit'
    BY <1>5 DEF InUnit
  <2>2. Unit' = Unit /\ CurrentImport' = CurrentImport
    BY <1>1, <1>5, <2>1, KnownStays DEF CurrentImport
  <2>3. Global(Unit) \in DOMAIN scopes
    BY <1>2 DEF Resolving, ScopesOK
  <2>4. CurrentImport.parts \in Seq(Names) \ {<<>>}
    <3>1. Unit \in DOMAIN tree /\ tree \in Trees /\ current \in 1..Len(tree[Unit].imports)
      BY <1>0, <1>1, <1>2 DEF Given, Placed
    <3> QED BY <3>1, TreesAssumption DEF CurrentImport
  <2>5. Len(CurrentImport.parts) \in Nat \ {0}
    BY <2>4, EmptySeq
  <2> QED BY <2>1, <2>2, <2>3, <2>5
<1>10. Placed'
  <2>1. <<Unit, current>>' = d
    BY <1>5, <1>9, <1>d
  <2>2. ordered' = ordered /\ tree' = tree /\ pos' = pos /\ signed' = signed
    BY <1>1 DEF loaderVars
  <2> QED BY <1>0, <1>1, <1>5, <1>6, <1>9, <2>1, <2>2 DEF Placed, Phases
<1>11. ErrorsOK'
  BY <1>0, <1>1, <1>5, <1>7, ErrorsStay
<1> QED BY <1>1, <1>7, <1>8, <1>9, <1>10, <1>11, QuietStays

\* Nothing changes in a NULL scope.
LEMMA NullScopeStep ==
  ASSUME Resolving, NullScope
  PROVE  Resolving'
<1>1. /\ UNCHANGED <<loaderVars, scopes, signed, pos, current, at, item, targetOf, errors>>
      /\ phase = "path" /\ phase' = "crashed" /\ InUnit /\ InUnit' /\ Extended
  BY DEF NullScope, InnerPart, InUnit, cursor, Extended
<1>2. Placed'
  BY <1>1 DEF Resolving, Placed, Phases, loaderVars
<1>3. Targets' /\ ErrorsOK'
  BY <1>1, ErrorsStay DEF Resolving, Targets, loaderVars
<1> QED BY <1>1, <1>2, <1>3, QuietStays

\* After the imports come the signatures.
LEMMA EndImportsStep ==
  ASSUME Resolving, EndImports
  PROVE  Resolving'
<1>1. /\ UNCHANGED <<loaderVars, scopes, signed, pos, current, at, item, targetOf, errors>>
      /\ phase = "imports" /\ phase' = "signatures" /\ InUnit /\ InUnit' /\ Extended
  BY DEF EndImports, InUnit, cursor, Extended
<1>2. Placed'
  BY <1>1 DEF Resolving, Placed, Phases, loaderVars
<1>3. Targets' /\ ErrorsOK'
  BY <1>1, ErrorsStay DEF Resolving, Targets, loaderVars
<1> QED BY <1>1, <1>2, <1>3, QuietStays

\* A scope another scope leads to is a scope, or NULL.
LEMMA EnterScopeStep ==
  ASSUME Given, Resolving, EnterScope
  PROVE  Resolving'
<1>1. /\ UNCHANGED <<loaderVars, scopes, signed, pos, current, phase, targetOf, errors>>
      /\ phase = "path" /\ InUnit /\ InUnit' /\ Extended
      /\ at # NoScope /\ Part \in DOMAIN scopes[at]
      /\ at' = scopes[at][Part].scope /\ item' = item + 1 /\ item < Len(CurrentImport.parts)
  BY DEF EnterScope, InnerPart, InUnit, Extended, Bound, Lookup
<1>2. at \in DOMAIN scopes
  BY <1>1 DEF Resolving, Placed
<1>3. InScope(at, Part, scopes[at][Part])
  BY <1>1, <1>2 DEF InScope
<1>4. at' \in DOMAIN scopes \cup {NoScope}
  BY <1>1, <1>3 DEF Resolving, ScopesOK, Fits
<1>5. Unit' = Unit /\ CurrentImport' = CurrentImport
  BY <1>1, KnownStays DEF CurrentImport
<1>6. item' <= Len(CurrentImport.parts) /\ item' \in Nat \ {0}
  <2>1. Len(CurrentImport.parts) \in Nat
    BY <1>1, ImportFacts DEF Resolving
  <2> QED BY <1>1, <2>1 DEF Resolving, Placed
<1>7. Placed'
  BY <1>1, <1>4, <1>5, <1>6 DEF Resolving, Placed, Phases, loaderVars
<1>8. Targets' /\ ErrorsOK'
  BY <1>1, ErrorsStay DEF Resolving, Targets, loaderVars
<1> QED BY <1>1, <1>7, <1>8, QuietStays

\* What is in the way of a path is reported as a redeclaration.
LEMMA PathConflictStep ==
  ASSUME Given, Resolving, PathConflict
  PROVE  Resolving'
<1>1. /\ UNCHANGED <<loaderVars, scopes, signed, pos, current, at, targetOf>>
      /\ phase = "path" /\ phase' = "symbols" /\ InUnit /\ InUnit' /\ Extended /\ item' = 1
      /\ \A e \in errors' : e \in errors \/ e.kind = "redeclaration"
  BY DEF PathConflict, InnerPart, InUnit, Extended, Report, Error
<1>2. Unit' = Unit
  BY <1>1, KnownStays
<1>3. Placed'
  BY <1>1, <1>2 DEF Resolving, Placed, Phases, loaderVars
<1>4. ErrorsOK'
  BY <1>1, ErrorsStay DEF Resolving
<1>5. Targets'
  BY <1>1 DEF Resolving, Targets, loaderVars
<1> QED BY <1>1, <1>3, <1>4, <1>5, QuietStays

\* A unit that comes later than its importer, or not at all, is in a cycle with
\* it when the import means it.
LEMMA LaterIsInCycle ==
  ASSUME Provenance, Given, Placed, Targets, phase \in {"path", "symbols"}, Target \notin Known
  PROVE  InCycle(Unit, Target) \/ ~Unambiguous(resolved[<<Unit, current>>])
<1>1. SUFFICES ASSUME Unambiguous(resolved[<<Unit, current>>]) PROVE InCycle(Unit, Target)
  OBVIOUS
<1> DEFINE d == <<Unit, current>>
<1>2. /\ phase # "done" /\ InUnit /\ pos \in 1..Len(ordered) /\ Unit = ordered[pos] /\ Unit \in DOMAIN tree
      /\ current \in 1..Len(tree[Unit].imports)
      /\ Target = byLogical[resolved[d]] /\ d \in DOMAIN resolved
  BY UnitFacts, ImportFacts DEF InUnit, Unit, Placed, Targets
<1>3. PICK e \in DOMAIN resolved : resolved[e] = resolved[d] /\ byLogical[resolved[d]] = Named(e)
  BY <1>2 DEF Given
<1>4. Target = Named(d)
  BY <1>1, <1>2, <1>3 DEF Unambiguous
<1>5. Target \in Order!Reach(Unit)
  <2>1. <<Unit, Target>> \in ImportEdges
    BY <1>2, <1>4, ImportIsEdge
  <2> QED BY <2>1, ReachesItself, ReachesOn
<1>6. Unit \in Order!Reach(Target)
  <2>1. \/ \E k \in 1..pos - 1 : ordered[k] = Named(<<ordered[pos], current>>)
        \/ ordered[pos] \in Order!Reach(Named(<<ordered[pos], current>>))
    BY <1>2 DEF Provenance, Postorder
  <2>2. ~ \E k \in 1..pos - 1 : ordered[k] = Target
    BY <1>2 DEF Placed, Known
  <2> QED BY <1>2, <1>4, <2>1, <2>2
<1> QED BY <1>5, <1>6 DEF InCycle

\* A public symbol that is missing belongs to a unit not looked at yet.
LEMMA SymbolUndeclaredStep ==
  ASSUME Provenance, Given, Resolving, SymbolUndeclared
  PROVE  Resolving'
<1>0. Placed /\ Targets /\ ErrorsOK /\ ScopesOK
  BY DEF Resolving
<1>n. PICK n : n = CurrentImport.symbols[item][1]
  OBVIOUS
<1>1. /\ UNCHANGED <<loaderVars, scopes, signed, pos, current, at, phase, targetOf>>
      /\ phase = "symbols" /\ InUnit /\ InUnit' /\ Extended /\ item' = item + 1
      /\ errors' = errors \cup {Error("undeclared", current, n)}
      /\ ~Importable(n)
  BY <1>n DEF SymbolUndeclared, AtSymbol, InUnit, Extended, Report
<1>2. Unit' = Unit
  BY <1>1, KnownStays
<1>3. Placed'
  BY <1>0, <1>1, <1>2 DEF Placed, Phases, loaderVars
<1>4. Targets'
  BY <1>0, <1>1 DEF Targets, loaderVars
<1>5. Excused(Unit, n, Target, resolved[<<Unit, current>>])
  <2>1. SUFFICES ASSUME n \in DOMAIN tree[Target].decls, tree[Target].decls[n].pub, Target \in Known
                 PROVE  FALSE
    BY <1>0, <1>1, LaterIsInCycle DEF Excused
  <2>2. PICK s : InScope(Global(Target), n, s) /\ s.pub
    BY <1>0, <2>1 DEF ScopesOK
  <2> QED BY <1>1, <2>2 DEF Importable, Bound, Lookup, InScope
<1>6. ErrorsOK'
  <2>1. ASSUME NEW e \in errors', e \notin errors, NEW d, NEW g, NEW p, d = <<e.unit, e.import>>
        PROVE  d \in DOMAIN targetOf /\ (g = targetOf[d] /\ p = resolved[d] => Excused(e.unit, e.name, g, p))
    <3>1. e.unit = Unit /\ e.import = current /\ e.name = n
      BY <1>1, <2>1 DEF Error
    <3>2. d = <<Unit, current>> /\ d \in DOMAIN targetOf /\ Target = targetOf[d]
      BY <1>0, <1>1, <2>1, <3>1 DEF Placed, Target
    <3> QED BY <1>5, <3>1, <3>2
  <2> QED BY <1>0, <1>1, <2>1, ErrorsStay
<1> QED BY <1>1, <1>3, <1>4, <1>6, QuietStays

\* A step within resolve_imports that defines a symbol or nothing.
LEMMA DefiningStays ==
  ASSUME Given, Resolving, UNCHANGED <<loaderVars, signed, pos, targetOf, errors>>, InUnit, InUnit', Placed',
         NEW id \in DOMAIN scopes, NEW name, NEW sym,
         scopes' = scopes \/ scopes' = Defined(id, name, sym),
         Fits(sym), id \notin Globals => Bare(sym),
         \A f \in Known : id = Global(f) =>
           /\ Held(f, name, sym)
           /\ \A k \in 1..Len(sym.cands) : sym.cands[k].decl[1] = f => ImportsItself(f),
         \A g \in signed : id = Global(g) => sym.kind # "struct"
  PROVE  Resolving'
<1>0. Targets /\ ScopesOK /\ ErrorsOK /\ LoadOK
  BY DEF Resolving
<1>1. Known' = Known /\ Extended
  BY KnownStays DEF Extended
<1>2. ScopesOK'
  <2>1. signed \subseteq FilesIn(ordered)
    BY UnitFacts DEF InUnit, Resolving
  <2> QED BY <1>0, <1>1, <2>1, DefinedStays, ScopesStay
<1>3. Targets' /\ ErrorsOK' /\ LoadOK'
  BY <1>0, <1>1, ErrorsStay, GivenStays DEF Targets, loaderVars
<1> QED BY <1>2, <1>3 DEF Resolving

\* A module is a symbol any scope may hold.
LEMMA ModuleFits ==
  ASSUME NEW kind \in {"module", "namespace"}, NEW pub \in BOOLEAN, NEW id \in DOMAIN scopes \cup {NoScope}
  PROVE  /\ Fits(Symbol(kind, pub, id, <<>>))
         /\ pub => Bare(Symbol(kind, pub, id, <<>>))
         /\ Symbol(kind, pub, id, <<>>).kind # "struct"
         /\ 1..Len(Symbol(kind, pub, id, <<>>).cands) = {}
         /\ \A f, n : Held(f, n, Symbol(kind, pub, id, <<>>))
BY DEF Fits, Bare, Held, Symbol, Kinds

\* A module is bound where its path ends.
LEMMA BindModuleStep ==
  ASSUME Given, Resolving, BindModule
  PROVE  Resolving'
<1>0. Placed /\ Targets /\ ScopesOK
  BY DEF Resolving
<1>s. PICK s : s = Symbol("module", PartPub, Global(Target), <<>>)
  OBVIOUS
<1>p. PICK name, id : name = Part /\ id = IF at = NoScope THEN Global(Unit) ELSE at
  OBVIOUS
<1>1. /\ UNCHANGED <<loaderVars, signed, pos, current, at, targetOf, errors>>
      /\ phase = "path" /\ phase' = "symbols" /\ InUnit /\ InUnit' /\ item' = 1
      /\ scopes' = scopes \/ scopes' = Defined(id, name, s)
  BY <1>s, <1>p DEF BindModule, LastPart, InUnit
<1>2. /\ Unit \in FilesIn(ordered) /\ Global(Unit) \in DOMAIN scopes /\ Global(Unit) \in Globals
      /\ Target \in FilesIn(ordered) /\ Global(Target) \in DOMAIN scopes
      /\ CurrentImport.pub \in BOOLEAN
  BY <1>0, <1>1, UnitFacts, ImportFacts DEF ScopesOK
<1>3. id \in DOMAIN scopes
  BY <1>0, <1>1, <1>2, <1>p DEF Placed
<1>4. PartPub \in BOOLEAN /\ (at # Global(Unit) => PartPub)
  BY <1>2 DEF PartPub
<1>5. Fits(s) /\ (PartPub => Bare(s)) /\ s.kind # "struct" /\ 1..Len(s.cands) = {} /\ \A f, n : Held(f, n, s)
  BY <1>2, <1>4, <1>s, ModuleFits
<1>6. id \notin Globals => Bare(s)
  BY <1>2, <1>4, <1>5, <1>p
<1>7. Placed'
  <2>1. Unit' = Unit
    BY <1>1, KnownStays
  <2> QED BY <1>0, <1>1, <2>1 DEF Placed, Phases, loaderVars
<1> QED BY <1>1, <1>3, <1>5, <1>6, <1>7, DefiningStays

\* An alias binds the module once more.
LEMMA NextImportStep ==
  ASSUME Given, Resolving, NextImport
  PROVE  Resolving'
<1>0. Placed /\ Targets /\ ScopesOK
  BY DEF Resolving
<1>s. PICK s : s = Symbol("module", CurrentImport.pub, Global(Target), <<>>)
  OBVIOUS
<1>p. PICK name, id : name = CurrentImport.alias /\ id = Global(Unit)
  OBVIOUS
<1>1. /\ UNCHANGED <<loaderVars, signed, pos, item, targetOf, errors>>
      /\ phase = "symbols" /\ phase' = "imports" /\ InUnit /\ InUnit' /\ current' = current + 1
      /\ scopes' = scopes \/ scopes' = Defined(id, name, s)
  BY <1>s, <1>p DEF NextImport, InUnit
<1>2. /\ Unit \in FilesIn(ordered) /\ id \in DOMAIN scopes /\ id \in Globals
      /\ Target \in FilesIn(ordered) /\ Global(Target) \in DOMAIN scopes
      /\ CurrentImport.pub \in BOOLEAN
  BY <1>0, <1>1, <1>p, UnitFacts, ImportFacts DEF ScopesOK
<1>3. Fits(s) /\ s.kind # "struct" /\ 1..Len(s.cands) = {} /\ \A f, n : Held(f, n, s)
  BY <1>2, <1>s, ModuleFits
<1>4. Placed'
  BY <1>0, <1>1 DEF Placed, Phases, loaderVars
<1> QED BY <1>1, <1>2, <1>3, <1>4, DefiningStays

\* What is copied from a unit is public and typed, and the unit's own only when
\* it imports itself.
LEMMA CopyHeld ==
  ASSUME Given, Resolving, phase = "symbols", NEW src, NEW n, NEW local,
         InScope(Global(Target), n, src), src.pub, src.kind # "set", NEW sym, sym.cands = src.cands
  PROVE  /\ Held(Unit, local, sym)
         /\ \A k \in 1..Len(sym.cands) : sym.cands[k].decl[1] = Unit => ImportsItself(Unit)
<1>0. Placed /\ Targets /\ ScopesOK
  BY DEF Resolving
<1>1. /\ Unit \notin signed /\ Target \in FilesIn(ordered) /\ <<Unit, current>> \in DOMAIN targetOf
      /\ Target = targetOf[<<Unit, current>>] /\ Known = signed \cup {Unit}
  BY <1>0, UnitFacts, ImportFacts DEF Placed, Target, Known, InUnit
<1>2. Target = Unit => ImportsItself(Unit)
  BY <1>1 DEF ImportsItself
<1>3. CASE Target \notin Known
  <2>1. Global(Target) \notin Globals
    BY <1>3 DEF Globals, Global
  <2>2. Bare(src) /\ Fits(src)
    BY <1>0, <2>1 DEF ScopesOK
  <2>3. Len(sym.cands) = 0
    BY <2>2 DEF Bare, Fits
  <2> QED BY <2>3 DEF Held
<1>4. CASE Target \in Known
  <2>1. Held(Target, n, src)
    BY <1>0, <1>4 DEF ScopesOK
  <2>2. ASSUME NEW k \in 1..Len(sym.cands), NEW c, NEW g, c = sym.cands[k], g = c.decl[1]
        PROVE  /\ g # Unit => g \in signed /\ Settled(c)
               /\ IsPub(c)
               /\ g = Unit => ImportsItself(Unit)
    <3>1. /\ g # Target => g \in signed /\ IsPub(c) /\ Settled(c)
          /\ IsPub(c)
          /\ g = Target /\ Target \in signed => Settled(c)
      BY <2>1, <2>2 DEF Held
    <3> QED BY <1>1, <1>2, <1>4, <3>1
  <2> QED BY <1>1, <2>2 DEF Held
<1> QED BY <1>3, <1>4

\* A copied symbol is public where it comes from.
LEMMA CopySymbolStep ==
  ASSUME Given, Resolving, CopySymbol
  PROVE  Resolving'
<1>0. Placed /\ Targets /\ ScopesOK
  BY DEF Resolving
<1>n. PICK n, local, id :
        /\ n = CurrentImport.symbols[item][1] /\ local = CurrentImport.symbols[item][2]
        /\ id = Global(Unit)
  OBVIOUS
<1>s. PICK src : src = Lookup(Global(Target), n)
  OBVIOUS
<1>c. PICK copy : copy = Symbol(src.kind, CurrentImport.pub, NoScope,
                                IF src.kind = "set" THEN <<>> ELSE src.cands)
  OBVIOUS
<1>1. /\ UNCHANGED <<loaderVars, signed, pos, current, at, targetOf, errors>>
      /\ phase = "symbols" /\ Importable(n)
      /\ \/ phase' = "crashed" /\ scopes' = scopes /\ item' = item
         \/ phase' = phase /\ scopes' = Defined(id, local, copy) /\ item' = item + 1
  BY <1>n, <1>s, <1>c DEF CopySymbol, AtSymbol
<1>2. InUnit /\ InUnit'
  BY <1>1 DEF InUnit
<1>3. /\ Unit \in FilesIn(ordered) /\ id \in DOMAIN scopes /\ id \in Globals
      /\ Target \in FilesIn(ordered) /\ Global(Target) \in DOMAIN scopes
      /\ CurrentImport.pub \in BOOLEAN
  BY <1>0, <1>1, <1>2, <1>n, UnitFacts, ImportFacts DEF ScopesOK
<1>4. InScope(Global(Target), n, src) /\ src.pub /\ Fits(src)
  <2>1. InScope(Global(Target), n, src) /\ src.pub
    BY <1>1, <1>3, <1>s DEF Importable, Bound, Lookup, InScope
  <2> QED BY <1>0, <2>1 DEF ScopesOK
<1>5. /\ copy.kind = src.kind /\ copy.cands = IF src.kind = "set" THEN <<>> ELSE src.cands
      /\ copy = [kind |-> src.kind, pub |-> CurrentImport.pub, scope |-> NoScope,
                 cands |-> IF src.kind = "set" THEN <<>> ELSE src.cands]
  BY <1>c DEF Symbol
<1>6. Fits(copy)
  <2>1. src.cands \in Seq(Candidates) /\ <<>> \in Seq(Candidates) /\ src.kind \in Kinds
    BY <1>4 DEF Fits
  <2> QED BY <1>3, <1>4, <1>5, <2>1 DEF Fits, Kinds
<1>7. /\ Held(Unit, local, copy)
      /\ \A k \in 1..Len(copy.cands) : copy.cands[k].decl[1] = Unit => ImportsItself(Unit)
  <2>1. CASE src.kind = "set"
    BY <1>5, <2>1 DEF Held
  <2>2. CASE src.kind # "set"
    BY <1>1, <1>4, <1>5, <2>2, CopyHeld
  <2> QED BY <2>1, <2>2
<1>8. Placed'
  <2>1. Unit' = Unit
    BY <1>1, <1>2, KnownStays
  <2> QED BY <1>0, <1>1, <2>1 DEF Placed, Phases, loaderVars
<1>9. /\ \A f : id = Global(f) => f = Unit
      /\ Unit \notin signed
  BY <1>0, <1>1, <1>n, UnitFacts DEF Global
<1> QED BY <1>1, <1>2, <1>3, <1>6, <1>7, <1>8, <1>9, DefiningStays

OwnTyped(f, cands, n, k) == OwnCandidate(f, cands, n, k) /\ TypeFound(f, n)

\* The unit's own declarations get their types: a declaration is the first
\* candidate under its own name.
LEMMA ResolveSignaturesStep ==
  ASSUME Given, Resolving, ResolveSignatures
  PROVE  Resolving'
<1>0. Placed /\ Targets /\ ScopesOK /\ ErrorsOK
  BY DEF Resolving
<1>u. PICK u : u = Unit
  OBVIOUS
<1>g. PICK gl : gl = Global(u)
  OBVIOUS
<1>a. /\ UNCHANGED <<loaderVars, current, at, item, targetOf>>
      /\ phase = "signatures" /\ signed' = signed \cup {Unit} /\ pos' = pos + 1
      /\ phase' = IF pos = Len(ordered) THEN "done" ELSE "names"
  BY DEF ResolveSignatures
<1>e. \A e \in errors' : e \in errors \/ e.kind = "unknown type"
  <2>1. PICK missing : errors' = errors \cup {Error("unknown type", 0, n) : n \in missing}
    BY DEF ResolveSignatures
  <2>2. \A n : Error("unknown type", 0, n).kind = "unknown type"
    BY DEF Error
  <2> QED BY <2>1, <2>2
<1>b. scopes' = [scopes EXCEPT ![Global(Unit)] = [n \in DOMAIN @ |-> WithType(Unit, @[n], n)]]
  BY DEF ResolveSignatures
<1>1. /\ UNCHANGED <<loaderVars, current, at, item, targetOf>>
      /\ phase = "signatures" /\ signed' = signed \cup {u} /\ pos' = pos + 1
      /\ phase' = IF pos = Len(ordered) THEN "done" ELSE "names"
      /\ scopes' = [scopes EXCEPT ![gl] = [n \in DOMAIN @ |-> WithType(u, @[n], n)]]
  BY <1>a, <1>b, <1>u, <1>g
<1>2. /\ pos \in 1..Len(ordered) /\ u = ordered[pos] /\ u \in FilesIn(ordered) /\ u \in DOMAIN tree /\ u \notin signed
      /\ Known = signed \cup {u} /\ Known' = Known /\ Globals' = Globals
      /\ gl \in DOMAIN scopes /\ gl \in Globals
  <2>1. /\ pos \in 1..Len(ordered) /\ u = ordered[pos] /\ u \in FilesIn(ordered) /\ u \in DOMAIN tree /\ u \notin signed
    BY <1>0, <1>1, <1>u, UnitFacts DEF Unit
  <2>2. Known = signed \cup {u} /\ Known' = Known
    BY <1>1, <1>u DEF Known, InUnit
  <2>3. gl \in DOMAIN scopes
    BY <1>0, <1>g, <2>1 DEF ScopesOK
  <2> QED BY <1>g, <2>1, <2>2, <2>3 DEF Globals, Global
<1>3. /\ DOMAIN scopes' = DOMAIN scopes
      /\ \A x \in DOMAIN scopes : x # gl => scopes'[x] = scopes[x]
      /\ DOMAIN scopes'[gl] = DOMAIN scopes[gl]
      /\ \A n \in DOMAIN scopes[gl] : scopes'[gl][n] = WithType(u, scopes[gl][n], n)
  BY <1>1, <1>2
<1>4. ASSUME NEW x, NEW n, NEW s, InScope(x, n, s)'
      PROVE  \/ x # gl /\ InScope(x, n, s)
             \/ x = gl /\ \E old : InScope(gl, n, old) /\ s = WithType(u, old, n)
  <2>1. CASE x = gl
    BY <1>2, <1>3, <1>4, <2>1 DEF InScope
  <2>2. CASE x # gl
    BY <1>3, <1>4, <2>2 DEF InScope
  <2> QED BY <2>1, <2>2
<1>5. ASSUME NEW x, NEW n, NEW s, InScope(x, n, s)
      PROVE  \/ InScope(x, n, s)'
             \/ x = gl /\ \E new : InScope(gl, n, new)' /\ new = WithType(u, s, n)
  <2>1. CASE x = gl
    BY <1>2, <1>3, <1>5, <2>1 DEF InScope
  <2>2. CASE x # gl
    BY <1>3, <1>5, <2>2 DEF InScope
  <2> QED BY <2>1, <2>2
<1>6. ASSUME NEW old, NEW n, NEW s, Fits(old), s = WithType(u, old, n)
      PROVE  /\ Fits(s) /\ s.pub = old.pub /\ s.kind = old.kind /\ Len(s.cands) = Len(old.cands)
             /\ \A k \in 1..Len(s.cands) :
                  /\ s.cands[k].decl = old.cands[k].decl
                  /\ old.cands[k].typed \/ OwnTyped(u, old.cands, n, k) => s.cands[k].typed
  <2>c. PICK cs : cs = old.cands
    OBVIOUS
  <2>t. PICK ts : ts = [k \in DOMAIN cs |-> IF OwnTyped(u, cs, n, k)
                                           THEN Candidate(u, n, TRUE) ELSE cs[k]]
    OBVIOUS
  <2>1. cs \in Seq(Candidates) /\ Len(cs) \in Nat /\ DOMAIN cs = 1..Len(cs)
    BY <1>6, <2>c, LenProperties DEF Fits
  <2>2. ASSUME NEW k \in 1..Len(cs)
        PROVE  /\ ts[k] \in Candidates /\ ts[k].decl = cs[k].decl
               /\ cs[k].typed \/ OwnTyped(u, cs, n, k) => ts[k].typed
    <3>1. cs[k] \in Candidates
      BY <2>1, ElementOfSeq
    <3>2. ts[k] = IF OwnTyped(u, cs, n, k) THEN Candidate(u, n, TRUE) ELSE cs[k]
      BY <2>1, <2>t
    <3>3. CASE OwnTyped(u, cs, n, k)
      <4>1. cs[k].decl = <<u, n>> /\ cs[k].decl \in Decls
        BY <3>1, <3>3 DEF OwnTyped, OwnCandidate, Candidates
      <4>2. Candidate(u, n, TRUE) \in Candidates
        BY <4>1 DEF Candidate, Candidates
      <4>3. ts[k].decl = <<u, n>> /\ ts[k].typed
        BY <3>2, <3>3 DEF Candidate
      <4> QED BY <3>2, <3>3, <4>1, <4>2, <4>3
    <3> QED BY <3>1, <3>2, <3>3
  <2>3. ts \in [1..Len(cs) -> Candidates]
    BY <2>1, <2>2, <2>t
  <2>4. ts \in Seq(Candidates) /\ Len(ts) = Len(cs)
    BY <2>1, <2>3, LenProperties, SeqDef
  <2>5. s = [old EXCEPT !.cands = ts]
    BY <1>6, <2>c, <2>t DEF WithType, OwnTyped
  <2>6. s.pub = old.pub /\ s.kind = old.kind /\ s.cands = ts
    BY <1>6, <2>5 DEF Fits
  <2>7. Fits(s)
    BY <1>6, <2>4, <2>5, <2>6, <2>c DEF Fits
  <2> QED BY <2>2, <2>4, <2>6, <2>7, <2>c
<1>7. Extended /\ FilesIn(ordered)' = FilesIn(ordered) /\ UNCHANGED loaderVars /\ tree' = tree
  BY <1>1, GivenStays DEF Extended, loaderVars
<1>8. ASSUME NEW x, NEW n, NEW s, InScope(x, n, s)'
      PROVE  Fits(s)' /\ (x \notin Globals => Bare(s))
  <2>1. Fits(s) /\ (x \notin Globals => Bare(s))
    BY <1>0, <1>2, <1>4, <1>6, <1>8 DEF ScopesOK
  <2> QED BY <1>3, <1>7, <2>1, FitsStays
<1>9. ASSUME NEW f \in Known, NEW n \in DOMAIN tree[f].decls
      PROVE  \E s : InScope(Global(f), n, s)' /\ (tree[f].decls[n].pub => s.pub)
  <2>1. PICK s : InScope(Global(f), n, s) /\ (tree[f].decls[n].pub => s.pub)
    BY <1>0 DEF ScopesOK
  <2>2. CASE InScope(Global(f), n, s)'
    BY <2>1, <2>2
  <2>3. CASE Global(f) = gl /\ \E new : InScope(gl, n, new)' /\ new = WithType(u, s, n)
    <3>1. PICK new : InScope(gl, n, new)' /\ new = WithType(u, s, n)
      BY <2>3
    <3>2. new.pub = s.pub
      BY <1>0, <1>6, <2>1, <3>1 DEF ScopesOK
    <3> QED BY <2>1, <2>3, <3>1, <3>2
  <2> QED BY <1>5, <2>1, <2>2, <2>3
<1>s. \A g \in Known : \A n : TypeFound(g, n)' => TypeFound(g, n)
  <2> SUFFICES ASSUME NEW g \in Known PROVE \A n : TypeFound(g, n)' => TypeFound(g, n)
    OBVIOUS
  <2>1. Global(g) \in DOMAIN scopes'
    <3>1. g \in FilesIn(ordered)
      BY <1>0, <1>1, UnitFacts
    <3> QED BY <1>0, <1>3, <3>1 DEF ScopesOK
  <2>2. ASSUME NEW n, NEW s, InScope(Global(g), n, s)', s.kind = "struct"
        PROVE  \E t : InScope(Global(g), n, t) /\ t.kind = "struct"
    <3>1. CASE InScope(Global(g), n, s)
      BY <2>2, <3>1
    <3>2. CASE Global(g) = gl /\ \E old : InScope(gl, n, old) /\ s = WithType(u, old, n)
      <4>1. PICK old : InScope(gl, n, old) /\ s = WithType(u, old, n)
        BY <3>2
      <4>2. Fits(old)
        BY <1>0, <4>1 DEF ScopesOK
      <4>3. s.kind = old.kind
        BY <1>6, <4>1, <4>2
      <4> QED BY <2>2, <3>2, <4>1, <4>3
    <3> QED BY <1>4, <2>2, <3>1, <3>2
  <2> QED BY <1>7, <2>1, <2>2, TypeFoundBefore
<1>10. ASSUME NEW f \in Known, NEW n, NEW s, InScope(Global(f), n, s)' PROVE Held(f, n, s)'
  <2>1. CASE f # u
    <3>1. Global(f) # gl
      BY <1>g, <2>1 DEF Global
    <3>2. InScope(Global(f), n, s)
      BY <1>4, <1>10, <3>1
    <3>3. Held(f, n, s)
      BY <1>0, <3>2 DEF ScopesOK
    <3>4. signed \subseteq signed' /\ (f \in signed' => f \in signed) /\ TypesSettled
      BY <1>1, <1>2, <1>s, <2>1 DEF TypesSettled
    <3> QED BY <1>7, <3>3, <3>4, HeldStays
  <2>2. CASE f = u
    <3>1. PICK old : InScope(gl, n, old) /\ s = WithType(u, old, n)
      BY <1>4, <1>10, <1>g, <2>2
    <3>2. Fits(old) /\ Held(u, n, old)
      BY <1>0, <1>2, <1>g, <3>1 DEF ScopesOK
    <3>3. /\ s.pub = old.pub /\ s.kind = old.kind /\ Len(s.cands) = Len(old.cands)
          /\ \A k \in 1..Len(s.cands) :
               /\ s.cands[k].decl = old.cands[k].decl
               /\ old.cands[k].typed \/ OwnTyped(u, old.cands, n, k) => s.cands[k].typed
      BY <1>6, <3>1, <3>2
    <3>4. ASSUME NEW k \in 1..Len(s.cands), NEW c, NEW g, c = s.cands[k], g = c.decl[1]
          PROVE  /\ g # u => g \in signed' /\ IsPub(c) /\ Settled(c)
                 /\ s.kind # "set" /\ s.pub => IsPub(c)
                 /\ g = u => (k = 1 /\ c.decl[2] = n) \/ ImportsItself(u)
                 /\ g = u => Settled(c)
      <4>1. PICK d : d = old.cands[k]
        OBVIOUS
      <4>2. /\ c.decl = d.decl /\ (d.typed \/ OwnTyped(u, old.cands, n, k) => c.typed)
            /\ k \in 1..Len(old.cands) /\ g = d.decl[1] /\ (IsPub(c) <=> IsPub(d))
        BY <3>3, <3>4, <4>1 DEF IsPub
      <4>3. /\ g # u => g \in signed /\ IsPub(d) /\ Settled(d)
            /\ old.kind # "set" /\ old.pub => IsPub(d)
            /\ g = u => (k = 1 /\ d.decl[2] = n) \/ ImportsItself(u)
        BY <3>2, <4>1, <4>2 DEF Held
      <4>4. k = 1 /\ g = u /\ d.decl[2] = n => OwnCandidate(u, old.cands, n, k)
        <5>1. SUFFICES ASSUME k = 1, g = u, d.decl[2] = n PROVE OwnCandidate(u, old.cands, n, k)
          OBVIOUS
        <5>2. d \in Candidates
          BY <3>2, <4>1, <4>2, ElementOfSeq DEF Fits
        <5>3. d.decl = <<u, n>>
          <6>1. PICK h, m : d.decl = <<h, m>>
            BY <5>2 DEF Candidates, Decls
          <6>2. d.decl[1] = h /\ d.decl[2] = m
            BY <6>1
          <6>3. h = u /\ m = n
            BY <4>2, <5>1, <6>2
          <6> QED BY <6>1, <6>3
        <5>4. 1..k - 1 = {}
          BY <5>1
        <5> QED BY <4>1, <5>3, <5>4 DEF OwnCandidate
      <4>5. Settled(d) => Settled(c)
        BY <4>2 DEF Settled
      <4>6. g = u => Settled(c)
        <5>1. CASE g = u /\ k = 1 /\ d.decl[2] = n
          BY <4>2, <4>4, <5>1 DEF Settled, OwnTyped
        <5>2. CASE g = u /\ ImportsItself(u)
          BY <3>4, <5>2 DEF Settled
        <5> QED BY <4>3, <5>1, <5>2
      <4> QED BY <1>1, <3>3, <4>2, <4>3, <4>5, <4>6
    <3>5. ASSUME NEW k \in 1..Len(s.cands), NEW c, NEW g, c = s.cands[k], g = c.decl[1]
          PROVE  ( /\ g # u => g \in signed /\ IsPub(c) /\ Settled(c)
                   /\ s.kind # "set" /\ s.pub => IsPub(c)
                   /\ g = u => (k = 1 /\ c.decl[2] = n) \/ ImportsItself(u)
                   /\ g = u /\ u \in signed => Settled(c) )'
      <4>1. /\ IsPub(c)' <=> IsPub(c)
            /\ ImportsItself(u) => ImportsItself(u)'
        BY <1>7, GivenStays, SelfImportStays
      <4>2. g \in Known /\ Settled(c) => Settled(c)'
        <5>1. PICK m : m = c.decl[2]
          OBVIOUS
        <5>2. g \in Known => (TypeFound(g, m)' => TypeFound(g, m))
          BY <1>s
        <5>3. ImportsItself(g) => ImportsItself(g)'
          BY <1>7, SelfImportStays
        <5> QED BY <3>5, <5>1, <5>2, <5>3 DEF Settled
      <4> QED BY <1>1, <1>2, <3>4, <3>5, <4>1, <4>2
    <3> QED BY <2>2, <3>5 DEF Held
  <2> QED BY <2>1, <2>2
<1>11. ScopesOK'
  <2>1. \A f \in FilesIn(ordered) : Global(f) \in DOMAIN scopes'
    BY <1>0, <1>3 DEF ScopesOK
  <2> QED BY <1>2, <1>7, <1>8, <1>9, <1>10, <2>1 DEF ScopesOK, Bare, Global
<1>12. ErrorsOK'
  BY <1>0, <1>7, <1>e, ErrorsStay
<1>13. Placed'
  <2>1. Len(ordered) \in Nat /\ pos \in Nat
    BY <1>2 DEF Given
  <2>2. 1..pos' - 1 = 1..(pos - 1) \cup {pos}
    BY <1>1, <1>2, <2>1
  <2>3. signed' = {ordered[i] : i \in 1..pos' - 1}
    BY <1>0, <1>1, <1>2, <2>2 DEF Placed
  <2>4. ordered' = ordered
    BY <1>7 DEF loaderVars
  <2>5. IF phase' = "done" THEN pos' = Len(ordered) + 1 ELSE pos' \in 1..Len(ordered)
    BY <1>1, <1>2, <2>1
  <2> QED BY <1>0, <1>1, <2>3, <2>4, <2>5 DEF Placed, Phases
<1>14. Targets' /\ LoadOK'
  BY <1>0, <1>1, <1>7, GivenStays DEF Targets, Resolving, loaderVars
<1> QED BY <1>11, <1>12, <1>13, <1>14 DEF Resolving

\* A namespace is put where its component is missing, and has a scope of its own.
LEMMA CreateNamespaceStep ==
  ASSUME Given, Resolving, CreateNamespace
  PROVE  Resolving'
<1>0. Placed /\ Targets /\ ScopesOK /\ ErrorsOK
  BY DEF Resolving
<1>p. PICK name, fresh, sym :
        /\ name = Part
        /\ fresh = <<Unit, SubSeq(CurrentImport.parts, 1, item)>>
        /\ sym = Symbol("namespace", PartPub, fresh, <<>>)
  OBVIOUS
<1>1. /\ UNCHANGED <<loaderVars, signed, pos, current, phase, targetOf, errors>>
      /\ phase = "path" /\ item < Len(CurrentImport.parts) /\ item' = item + 1
      /\ at # NoScope /\ name \notin DOMAIN scopes[at] /\ at' = fresh
      /\ scopes' = Put(SetSymbol(at, name, sym), fresh, <<>>)
  BY <1>p DEF CreateNamespace, InnerPart, Bound
<1>2. /\ InUnit /\ InUnit' /\ Known' = Known /\ Globals' = Globals
      /\ Unit' = Unit /\ CurrentImport' = CurrentImport
  <2>1. InUnit /\ InUnit'
    BY <1>1 DEF InUnit
  <2>2. Known' = Known /\ Unit' = Unit /\ CurrentImport' = CurrentImport
    BY <1>1, <2>1, KnownStays DEF CurrentImport
  <2> QED BY <2>1, <2>2 DEF Globals, Global
<1>3. /\ Unit \in FilesIn(ordered) /\ Global(Unit) \in Globals /\ at \in DOMAIN scopes
      /\ CurrentImport.pub \in BOOLEAN /\ Len(CurrentImport.parts) \in Nat /\ item \in Nat \ {0}
  BY <1>0, <1>1, <1>2, UnitFacts, ImportFacts DEF Placed
<1>4. \A f : Global(f) # fresh
  <2>1. Unit \in DOMAIN tree /\ tree \in Trees /\ current \in 1..Len(tree[Unit].imports)
    BY <1>0, <1>1, UnitFacts, ImportFacts DEF Given
  <2>2. CurrentImport.parts \in Seq(Names)
    BY <2>1, TreesAssumption DEF CurrentImport
  <2>3. PICK parts, sub : parts = CurrentImport.parts /\ sub = SubSeq(parts, 1, item)
    OBVIOUS
  <2>4. Len(sub) = item
    BY <1>1, <1>3, <2>2, <2>3
  <2>5. sub # <<>>
    BY <1>3, <2>4
  <2> QED BY <1>p, <2>3, <2>5 DEF Global
<1>5. /\ sym.kind = "namespace" /\ sym.pub = PartPub /\ Len(sym.cands) = 0
      /\ sym = [kind |-> "namespace", pub |-> PartPub, scope |-> fresh, cands |-> <<>>]
      /\ PartPub \in BOOLEAN /\ (at # Global(Unit) => PartPub)
  BY <1>3, <1>p DEF Symbol, PartPub
<1>6. /\ DOMAIN scopes' = DOMAIN scopes \cup {fresh}
      /\ scopes'[fresh] = <<>>
      /\ at # fresh => /\ DOMAIN scopes'[at] = DOMAIN scopes[at] \cup {name}
                       /\ \A n \in DOMAIN scopes[at] \cup {name} :
                            scopes'[at][n] = IF n = name THEN sym ELSE scopes[at][n]
      /\ \A x \in DOMAIN scopes : x # at /\ x # fresh => scopes'[x] = scopes[x]
  <2>1. PICK mid : mid = SetSymbol(at, name, sym)
    OBVIOUS
  <2>2. /\ DOMAIN mid = DOMAIN scopes /\ mid[at] = Put(scopes[at], name, sym)
        /\ \A x \in DOMAIN scopes : x # at => mid[x] = scopes[x]
    BY <1>3, <2>1 DEF SetSymbol
  <2>3. /\ DOMAIN scopes' = DOMAIN scopes \cup {fresh} /\ scopes'[fresh] = <<>>
        /\ \A x \in DOMAIN scopes : x # fresh => scopes'[x] = mid[x]
    BY <1>1, <2>1, <2>2 DEF Put
  <2>4. /\ DOMAIN mid[at] = DOMAIN scopes[at] \cup {name}
        /\ \A n \in DOMAIN scopes[at] \cup {name} :
             mid[at][n] = IF n = name THEN sym ELSE scopes[at][n]
    BY <2>2 DEF Put
  <2> QED BY <1>3, <2>2, <2>3, <2>4
<1>7. ASSUME NEW x, NEW n, NEW s, InScope(x, n, s)'
      PROVE  InScope(x, n, s) \/ (x = at /\ s = sym)
  <2>1. x \in DOMAIN scopes' /\ n \in DOMAIN scopes'[x] /\ s = scopes'[x][n]
    BY <1>7 DEF InScope
  <2>2. x # fresh
    BY <1>6, <2>1
  <2>3. CASE x = at
    BY <1>3, <1>6, <2>1, <2>2, <2>3 DEF InScope
  <2>4. CASE x # at
    BY <1>6, <2>1, <2>2, <2>4 DEF InScope
  <2> QED BY <2>3, <2>4
<1>8. ASSUME NEW x, NEW n, NEW s, InScope(x, n, s), x # fresh
      PROVE  InScope(x, n, s)'
  <2>1. CASE x = at
    BY <1>1, <1>6, <1>8, <2>1 DEF InScope
  <2>2. CASE x # at
    BY <1>6, <1>8, <2>2 DEF InScope
  <2> QED BY <2>1, <2>2
<1>9. Extended /\ FilesIn(ordered)' = FilesIn(ordered) /\ UNCHANGED loaderVars /\ tree' = tree
  BY <1>1, GivenStays DEF Extended, loaderVars
<1>10. Fits(sym)'
  BY <1>5, <1>6 DEF Fits, Kinds
<1>11. ASSUME NEW x, NEW n, NEW s, InScope(x, n, s)'
       PROVE  Fits(s)' /\ (x \notin Globals => Bare(s))
  <2>1. CASE InScope(x, n, s)
    BY <1>0, <1>6, <1>9, <2>1, FitsStays DEF ScopesOK
  <2>2. CASE x = at /\ s = sym
    BY <1>3, <1>5, <1>10, <2>2 DEF Bare
  <2> QED BY <1>7, <1>11, <2>1, <2>2
<1>t. TypesSettled
  <2> SUFFICES ASSUME NEW g \in signed PROVE \A n : TypeFound(g, n)' => TypeFound(g, n)
    BY DEF TypesSettled
  <2>1. Global(g) \in DOMAIN scopes'
    BY <1>0, <1>1, <1>2, <1>6, UnitFacts DEF ScopesOK, InUnit
  <2>2. ASSUME NEW n, NEW s, InScope(Global(g), n, s)', s.kind = "struct"
        PROVE  InScope(Global(g), n, s)
    BY <1>5, <1>7, <2>2
  <2> QED BY <1>9, <2>1, <2>2, TypeFoundBefore
<1>12. ASSUME NEW f \in Known, NEW n, NEW s, InScope(Global(f), n, s)' PROVE Held(f, n, s)'
  <2>0. SUFFICES Held(f, n, s)
    BY <1>1, <1>9, <1>t, HeldStays
  <2>1. CASE InScope(Global(f), n, s)
    BY <1>0, <2>1 DEF ScopesOK
  <2>2. CASE s = sym
    BY <1>5, <2>2 DEF Held
  <2> QED BY <1>7, <1>12, <2>1, <2>2
<1>13. ASSUME NEW f \in Known, NEW n \in DOMAIN tree[f].decls
       PROVE  \E s : InScope(Global(f), n, s)' /\ (tree[f].decls[n].pub => s.pub)
  BY <1>0, <1>4, <1>8 DEF ScopesOK
<1>14. ScopesOK'
  <2>1. \A f \in FilesIn(ordered) : Global(f) \in DOMAIN scopes'
    BY <1>0, <1>6 DEF ScopesOK
  <2> QED BY <1>2, <1>9, <1>11, <1>12, <1>13, <2>1 DEF ScopesOK, Bare, Global
<1>15. Placed'
  <2>1. item' <= Len(CurrentImport.parts) /\ item' \in Nat \ {0}
    BY <1>1, <1>3
  <2> QED BY <1>0, <1>1, <1>2, <1>6, <1>9, <2>1 DEF Placed, Phases, loaderVars
<1>16. Targets' /\ ErrorsOK' /\ LoadOK'
  BY <1>0, <1>1, <1>9, ErrorsStay, GivenStays DEF Targets, Resolving, loaderVars
<1> QED BY <1>14, <1>15, <1>16 DEF Resolving

-----------------------------------------------------------------------------
(* The invariant of the pass.                                              *)

\* A step of nobody keeps it.
LEMMA ResolvingStays == Resolving /\ UNCHANGED vars => Resolving'
<1> SUFFICES ASSUME Resolving, UNCHANGED vars PROVE Resolving'
  OBVIOUS
<1>1. UNCHANGED <<loaderVars, scopes, pos, current, at, item, phase, signed, targetOf, errors>> /\ Extended
  BY DEF vars, semaVars, cursor, Extended
<1>2. Unit' = Unit /\ Known' = Known /\ CurrentImport' = CurrentImport
  BY <1>1 DEF Unit, Known, InUnit, CurrentImport, loaderVars
<1>3. ScopesOK' /\ ErrorsOK' /\ LoadOK'
  BY <1>1, <1>2, ScopesStay, ErrorsStay, GivenStays DEF Resolving
<1>4. Placed' /\ Targets'
  BY <1>1, <1>2 DEF Resolving, Placed, Targets, loaderVars
<1> QED BY <1>3, <1>4 DEF Resolving

\* Each step of the pass keeps it.
LEMMA PassStep == PassInv /\ [Next]_vars => PassInv'
<1> SUFFICES ASSUME PassInv, [Next]_vars PROVE PassInv'
  OBVIOUS
<1>1. Provenance'
  <2>1. [LoaderNext]_loaderVars
    BY DEF Next, Loading, CreateScopes, RegisterNames, ResolveImports, FindModule, BindModule,
           NullScope, CreateNamespace, EnterScope, PathConflict, SymbolUndeclared, CopySymbol,
           NextImport, EndImports, ResolveSignatures, vars
  <2> QED BY <2>1, ProvenanceStep DEF PassInv
<1>2. CASE phase = "idle"
  <2>1. Fresh
    BY <1>2 DEF PassInv
  <2>2. CASE CreateScopes
    <3>1. Provenance /\ Given
      BY <2>2, LoadGives DEF PassInv, CreateScopes
    <3>2. Resolving'
      BY <2>1, <2>2, <3>1, CreateScopesStep
    <3> QED BY <1>1, <2>2, <3>2 DEF PassInv, CreateScopes
  <2>3. CASE Loading \/ UNCHANGED vars
    <3>1. UNCHANGED <<scopes, pos, current, at, item, phase, signed, targetOf, errors>>
      BY <2>3 DEF Loading, vars, semaVars, cursor
    <3> QED BY <1>1, <1>2, <2>1, <3>1 DEF PassInv, Fresh
  <2> QED
    BY <1>2, <2>2, <2>3 DEF Next, RegisterNames, ResolveImports, FindModule, BindModule,
           NullScope, CreateNamespace, EnterScope, PathConflict, SymbolUndeclared, CopySymbol,
           NextImport, EndImports, ResolveSignatures, InnerPart, LastPart, AtSymbol
<1>3. CASE phase # "idle"
  <2>1. Resolving /\ Provenance /\ Given /\ ~LoaderNext
    BY <1>3, LoadGives, LoaderStopped DEF PassInv, Resolving
  <2>2. Resolving'
    <3>1. CASE RegisterNames
      BY <2>1, <3>1, RegisterNamesStep
    <3>2. CASE ResolveImports
      <4>1. CASE FindModule
        BY <2>1, <4>1, FindModuleStep
      <4>2. CASE BindModule
        BY <2>1, <4>2, BindModuleStep
      <4>3. CASE NullScope
        BY <2>1, <4>3, NullScopeStep
      <4>4. CASE CreateNamespace
        BY <2>1, <4>4, CreateNamespaceStep
      <4>5. CASE EnterScope
        BY <2>1, <4>5, EnterScopeStep
      <4>6. CASE PathConflict
        BY <2>1, <4>6, PathConflictStep
      <4>7. CASE SymbolUndeclared
        BY <2>1, <4>7, SymbolUndeclaredStep
      <4>8. CASE CopySymbol
        BY <2>1, <4>8, CopySymbolStep
      <4>9. CASE NextImport
        BY <2>1, <4>9, NextImportStep
      <4>10. CASE EndImports
        BY <2>1, <4>10, EndImportsStep
      <4> QED BY <3>2, <4>1, <4>2, <4>3, <4>4, <4>5, <4>6, <4>7, <4>8, <4>9, <4>10 DEF ResolveImports
    <3>3. CASE ResolveSignatures
      BY <2>1, <3>3, ResolveSignaturesStep
    <3>4. CASE UNCHANGED vars
      BY <2>1, <3>4, ResolvingStays
    <3> QED BY <1>3, <2>1, <3>1, <3>2, <3>3, <3>4 DEF Next, Loading, CreateScopes
  <2>3. phase' # "idle"
    BY <2>2 DEF Resolving, Placed, Phases
  <2> QED BY <1>1, <2>2, <2>3 DEF PassInv
<1> QED BY <1>2, <1>3

\* The pass never leaves its invariant: at each step the loader's results, the
\* place the pass is at, every binding, every symbol and every diagnostic are right.
THEOREM PassInvariant == Spec => []PassInv
BY PassInit, PassStep, PTL DEF Spec

-----------------------------------------------------------------------------
(* What follows.                                                           *)

\* The units and scopes are of their types: what a symbol leads to is a scope
\* that exists, and a declaration stands for itself alone.
LEMMA PassTyped == PassInv => TypeOK
<1> SUFFICES ASSUME PassInv PROVE TypeOK
  OBVIOUS
<1>1. LoaderTypeOK /\ Len(ordered) \in Nat
  <2>1. LoaderTypeOK
    BY DEF PassInv, Provenance, IInv
  <2> QED BY <2>1, LenProperties DEF LoaderTypeOK
<1>2. CASE phase = "idle"
  BY <1>1, <1>2 DEF PassInv, Fresh, TypeOK, Values
<1>3. CASE phase # "idle"
  <2>1. Resolving /\ Given
    BY <1>3, LoadGives DEF PassInv, Resolving
  <2>2. Placed /\ Targets /\ ScopesOK
    BY <2>1 DEF Resolving
  <2>3. pos \in 1..Len(ordered) + 1 /\ signed \subseteq FilesIn(ordered)
    <3>1. pos \in 1..Len(ordered) + 1
      BY <1>1, <2>2 DEF Placed
    <3>2. 1..pos - 1 \subseteq 1..Len(ordered)
      BY <1>1, <3>1
    <3> QED BY <2>2, <3>1, <3>2 DEF Placed, FilesIn
  <2>4. DOMAIN targetOf \subseteq DOMAIN resolved /\ Values(targetOf) \subseteq units
    BY <2>1, <2>2 DEF Targets, Given, Values
  <2>5. ASSUME NEW id \in DOMAIN scopes, NEW n \in DOMAIN scopes[id], NEW sym, sym = scopes[id][n]
        PROVE  /\ sym.kind \in Kinds /\ sym.scope \in DOMAIN scopes \cup {NoScope}
               /\ sym.kind \in {"function", "generic", "variable", "struct"} => Len(sym.cands) = 1
    <3>1. Fits(sym)
      BY <2>2, <2>5 DEF ScopesOK, InScope
    <3> QED BY <3>1 DEF Fits
  <2>6. phase \in Phases
    BY <2>2 DEF Placed
  <2> QED BY <1>1, <2>3, <2>4, <2>5, <2>6 DEF TypeOK, Kinds, Phases
<1> QED BY <1>2, <1>3

\* Every import is bound to the file it names unless another import asks for
\* the same logical path for another file.
THEOREM ImportsBind == Spec => []UnambiguousImportsBind
<1>1. PassInv => UnambiguousImportsBind
  <2> SUFFICES ASSUME PassInv, NEW d \in DOMAIN targetOf, Unambiguous(resolved[d])
               PROVE  targetOf[d] = Named(d)
    BY DEF UnambiguousImportsBind
  <2>1. phase # "idle"
    BY DEF PassInv, Fresh
  <2>2. Resolving /\ Given
    BY <2>1, LoadGives DEF PassInv, Resolving
  <2>3. d \in DOMAIN resolved /\ targetOf[d] = byLogical[resolved[d]]
    BY <2>2 DEF Resolving, Targets
  <2>4. PICK e \in DOMAIN resolved : resolved[e] = resolved[d] /\ byLogical[resolved[d]] = Named(e)
    BY <2>2, <2>3 DEF Given
  <2> QED BY <2>3, <2>4 DEF Unambiguous
<1> QED BY <1>1, PassInvariant, PTL

\* A public declaration is undeclared only to an importer in a cycle with it.
THEOREM UndeclaredInCycle == Spec => []UndeclaredOnlyInCycle
<1>1. PassInv => UndeclaredOnlyInCycle
  <2> SUFFICES ASSUME PassInv, NEW e \in errors, NEW d, d = <<e.unit, e.import>>,
                      e.kind = "undeclared", d \in DOMAIN targetOf,
                      e.name \in DOMAIN tree[targetOf[d]].decls, tree[targetOf[d]].decls[e.name].pub
               PROVE  InCycle(e.unit, targetOf[d]) \/ ~Unambiguous(resolved[d])
    BY DEF UndeclaredOnlyInCycle
  <2>1. phase # "idle"
    BY DEF PassInv, Fresh
  <2>2. ErrorsOK
    BY <2>1 DEF PassInv, Resolving
  <2>3. Excused(e.unit, e.name, targetOf[d], resolved[d])
    BY <2>2 DEF ErrorsOK
  <2> QED BY <2>3 DEF Excused
<1> QED BY <1>1, PassInvariant, PTL

\* What a unit has of another one.
LEMMA HeldOfOthers ==
  ASSUME PassInv, phase # "idle", NEW f \in FilesIn(ordered), NEW n \in DOMAIN scopes[Global(f)],
         NEW c \in FilesIn(scopes[Global(f)][n].cands), c.decl[1] # f
  PROVE  Settled(c) /\ IsPub(c)
<1>1. Resolving /\ ScopesOK
  BY DEF PassInv, Resolving
<1>2. PICK s : s = scopes[Global(f)][n]
  OBVIOUS
<1>3. InScope(Global(f), n, s)
  BY <1>1, <1>2 DEF InScope, ScopesOK
<1>4. PICK k \in 1..Len(s.cands) : c = s.cands[k]
  BY <1>2 DEF FilesIn
<1>5. CASE f \in Known
  <2>1. Held(f, n, s)
    BY <1>1, <1>3, <1>5 DEF ScopesOK
  <2>2. PICK g : g = c.decl[1]
    OBVIOUS
  <2> QED BY <1>4, <2>1, <2>2 DEF Held
<1>6. CASE f \notin Known
  <2>1. Global(f) \notin Globals
    BY <1>6 DEF Globals, Global
  <2>2. Len(s.cands) = 0
    BY <1>1, <1>3, <2>1 DEF ScopesOK, Bare, Fits
  <2> QED BY <1>4, <2>2
<1> QED BY <1>5, <1>6

\* What one unit takes from another has its type.
THEOREM CopiesTyped == Spec => []CopiesAreTyped
<1>1. PassInv => CopiesAreTyped
  BY PassTyped, HeldOfOthers DEF CopiesAreTyped, Settled
<1> QED BY <1>1, PassInvariant, PTL

\* A declaration that is not pub stays in its unit.
THEOREM PrivateStays == Spec => []PrivateStaysPrivate
<1>1. PassInv => PrivateStaysPrivate
  BY HeldOfOthers DEF PrivateStaysPrivate, IsPub
<1> QED BY <1>1, PassInvariant, PTL
=============================================================================
