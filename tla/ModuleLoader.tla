---------------------------- MODULE ModuleLoader ----------------------------
(***************************************************************************)
(* load_module_recursive (src/core/module_loader.c): the depth-first load  *)
(* of the entry file and of every module its imports reach.  One C         *)
(* activation of the function is a frame of "stack"; "ctl" says whether    *)
(* the innermost activation is running, about to call itself, or has just  *)
(* returned a code to its caller.                                          *)
(*                                                                         *)
(* A file is the sequence of the components of its canonical path without  *)
(* the ".nt" suffix; a logical path is the sequence of its dot-separated   *)
(* components, <<>> standing for the NULL pointer (a parsed import has at  *)
(* least one component, so no real logical path is empty).  A source tree  *)
(* gives each existing file its fate when read and its import              *)
(* declarations in order.  A CompilationUnit is identified with its file.  *)
(***************************************************************************)
EXTENDS Integers, Sequences

CONSTANTS
  Names,       \* path components and identifiers
  Trees,       \* the source trees considered
  Entry,       \* the file named on the command line
  StdlibDir,   \* opts->stdlib_path, as a directory
  MaxDepth,    \* MAX_RECURSION_DEPTH
  NULL         \* no value yet

VARIABLES
  tree,        \* the source tree; the program only reads it
  projectRoot, \* loader->project_root, NULL before the first call
  units,       \* keys of loader->units
  logicalOf,   \* unit->logical_path of each unit ever created
  byLogical,   \* loader->units_by_logical_path
  ordered,     \* loader->units_ordered
  resolved,    \* <<f, i>> |-> resolved_logical_path of import i of file f
  stack,       \* the activations of load_module_recursive, outermost first
  ctl          \* what the innermost activation does next

loaderVars == <<tree, projectRoot, units, logicalOf, byLogical, ordered,
                resolved, stack, ctl>>

Codes  == {"EXIT_OK", "EXIT_IO", "EXIT_LEX", "EXIT_PARSE"}
Paths  == UNION {DOMAIN t : t \in Trees}
Fates  == [ok |-> "EXIT_OK", unreadable |-> "EXIT_IO",
           lexError |-> "EXIT_LEX", parseError |-> "EXIT_PARSE"]

ASSUME DepthAssumption == MaxDepth \in Nat
ASSUME TreesAssumption ==
  \A t \in Trees : \A f \in DOMAIN t :
    /\ f \in Seq(Names)
    /\ t[f].fate \in DOMAIN Fates
    /\ Len(t[f].imports) \in Nat
    /\ \A i \in 1..Len(t[f].imports) :
         /\ t[f].imports[i].form \in {"relative", "root", "library"}
         /\ t[f].imports[i].form = "relative" => t[f].imports[i].dots \in Nat \ {0}
         /\ t[f].imports[i].parts \in Seq(Names) \ {<<>>}

ASSUME PathAssumption ==
  /\ "module" \in Names
  /\ Entry \in Seq(Names)
  /\ StdlibDir \in Seq(Names)
  /\ NULL \notin Seq(Names)

-----------------------------------------------------------------------------
(* Finite maps: hashmap_put replaces the value of a present key.           *)

Put(m, k, v) == [x \in DOMAIN m \cup {k} |-> IF x = k THEN v ELSE m[x]]
Drop(m, k)   == [x \in DOMAIN m \ {k} |-> m[x]]
Values(m)    == {m[x] : x \in DOMAIN m}

FilesIn(s)  == {s[i] : i \in 1..Len(s)}
StackFiles  == {stack[i].file : i \in 1..Len(stack)}
Top         == stack[Len(stack)]
Pop         == SubSeq(stack, 1, Len(stack) - 1)

-----------------------------------------------------------------------------
(* Where an import leads.                                                  *)

DirName(f) == SubSeq(f, 1, Len(f) - 1)

\* strrchr truncation, once for every leading dot after the first
ClimbFrom(dir, dots) ==
  SubSeq(dir, 1, IF Len(dir) >= dots - 1 THEN Len(dir) - (dots - 1) ELSE 0)

ImportBase(root, f, imp) ==
  CASE imp.form = "relative" -> ClimbFrom(DirName(f), imp.dots)
    [] imp.form = "root"     -> root
    [] imp.form = "library"  -> StdlibDir

\* "<stem>.nt" when it is a file, else "<stem>/module.nt"
Probe(t, stem) == IF stem \in DOMAIN t THEN stem ELSE Append(stem, "module")

ImportFile(t, root, f, imp) == Probe(t, ImportBase(root, f, imp) \o imp.parts)

\* the logical path the importer asks the target to be registered under
ImportLogical(f, imp) ==
  (IF imp.form = "relative" THEN logicalOf[f] ELSE <<>>) \o imp.parts

-----------------------------------------------------------------------------
Call(file, logical) == [op |-> "call", file |-> file, logical |-> logical]
Run                 == [op |-> "run"]
Return(rc)          == [op |-> "return", rc |-> rc]

\* main.c:142: load_module_recursive(loader, path, NULL, NULL, 0)
LoaderInit ==
  /\ tree \in Trees
  /\ projectRoot = NULL
  /\ units = {}
  /\ logicalOf = <<>>
  /\ byLogical = <<>>
  /\ ordered = <<>>
  /\ resolved = <<>>
  /\ stack = <<>>
  /\ ctl = Call(Entry, <<>>)

\* the entry's directory becomes the project root on the first call that
\* resolves, whatever happens to the file afterwards
SetProjectRoot(f) ==
  projectRoot' = IF projectRoot = NULL THEN DirName(f) ELSE projectRoot

\* Mutant: the depth is not given back, so files beside each other count as deep.
TooDeepBeside ==
  /\ ctl.op = "call" /\ Len(stack) + Len(ordered) > MaxDepth
  /\ ctl' = Return("EXIT_IO")
  /\ UNCHANGED <<tree, projectRoot, units, logicalOf, byLogical, ordered, resolved, stack>>

\* MAX_RECURSION_DEPTH bounds the calls that are open, not the files
TooDeep ==
  /\ ctl.op = "call" /\ Len(stack) > MaxDepth
  /\ ctl' = Return("EXIT_IO")
  /\ UNCHANGED <<tree, projectRoot, units, logicalOf, byLogical, ordered, resolved, stack>>

Unresolved ==
  /\ ctl.op = "call" /\ Len(stack) <= MaxDepth
  /\ ctl.file \notin DOMAIN tree
  /\ ctl' = Return("EXIT_IO")
  /\ UNCHANGED <<tree, projectRoot, units, logicalOf, byLogical, ordered, resolved, stack>>

\* an existing unit (finished or still loading: an import cycle) is only
\* registered under one more logical path
AlreadyLoaded ==
  /\ ctl.op = "call" /\ Len(stack) <= MaxDepth
  /\ ctl.file \in DOMAIN tree
  /\ ctl.file \in units
  /\ SetProjectRoot(ctl.file)
  /\ IF ctl.logical = <<>>
       THEN UNCHANGED <<byLogical, logicalOf>>
       ELSE /\ byLogical' = Put(byLogical, ctl.logical, ctl.file)
            /\ logicalOf' = IF logicalOf[ctl.file] = <<>>
                              THEN Put(logicalOf, ctl.file, ctl.logical)
                              ELSE logicalOf
  /\ ctl' = Return("EXIT_OK")
  /\ UNCHANGED <<tree, units, ordered, resolved, stack>>

\* read_file, lexer_lex_all or parse_program fails: nothing was registered
Rejected ==
  /\ ctl.op = "call" /\ Len(stack) <= MaxDepth
  /\ ctl.file \in DOMAIN tree \ units
  /\ tree[ctl.file].fate # "ok"
  /\ SetProjectRoot(ctl.file)
  /\ ctl' = Return(Fates[tree[ctl.file].fate])
  /\ UNCHANGED <<tree, units, logicalOf, byLogical, ordered, resolved, stack>>

\* Mutant: the unit is only known once it is finished, so a cycle re-enters it.
CreateUnitUnregistered ==
  /\ ctl.op = "call" /\ Len(stack) <= MaxDepth
  /\ ctl.file \in DOMAIN tree \ units
  /\ tree[ctl.file].fate = "ok"
  /\ SetProjectRoot(ctl.file)
  /\ logicalOf' = Put(logicalOf, ctl.file, ctl.logical)
  /\ stack' = Append(stack, [file |-> ctl.file, logical |-> ctl.logical,
                             next |-> 1, target |-> <<>>])
  /\ ctl' = Run
  /\ UNCHANGED <<tree, units, byLogical, ordered, resolved>>

\* Mutant: unit->logical_path is left as the arena returned it.
CreateUnitNoLogical ==
  /\ ctl.op = "call" /\ Len(stack) <= MaxDepth
  /\ ctl.file \in DOMAIN tree \ units
  /\ tree[ctl.file].fate = "ok"
  /\ SetProjectRoot(ctl.file)
  /\ units' = units \cup {ctl.file}
  /\ stack' = Append(stack, [file |-> ctl.file, logical |-> ctl.logical,
                             next |-> 1, target |-> <<>>])
  /\ ctl' = Run
  /\ UNCHANGED <<tree, logicalOf, byLogical, ordered, resolved>>

\* the unit is registered before its imports are followed
CreateUnit ==
  /\ ctl.op = "call" /\ Len(stack) <= MaxDepth
  /\ ctl.file \in DOMAIN tree \ units
  /\ tree[ctl.file].fate = "ok"
  /\ SetProjectRoot(ctl.file)
  /\ units' = units \cup {ctl.file}
  /\ logicalOf' = Put(logicalOf, ctl.file, ctl.logical)
  /\ byLogical' = IF ctl.logical = <<>> THEN byLogical
                    ELSE Put(byLogical, ctl.logical, ctl.file)
  /\ stack' = Append(stack, [file |-> ctl.file, logical |-> ctl.logical,
                             next |-> 1, target |-> <<>>])
  /\ ctl' = Run
  /\ UNCHANGED <<tree, ordered, resolved>>

ImportsLeft == Top.next <= Len(tree[Top.file].imports)

\* the next import declaration: compute the target and its logical path, call
FollowImport ==
  /\ ctl.op = "run" /\ ImportsLeft
  /\ LET imp    == tree[Top.file].imports[Top.next]
         target == ImportLogical(Top.file, imp)
     IN  /\ stack' = [stack EXCEPT ![Len(stack)].target = target]
         /\ ctl' = Call(ImportFile(tree, projectRoot, Top.file, imp), target)
  /\ UNCHANGED <<tree, projectRoot, units, logicalOf, byLogical, ordered, resolved>>

\* Mutant: the same import declaration is followed again.
ImportLoadedNoAdvance ==
  /\ ctl.op = "return" /\ ctl.rc = "EXIT_OK" /\ stack # <<>>
  /\ resolved' = Put(resolved, <<Top.file, Top.next>>, Top.target)
  /\ ctl' = Run
  /\ UNCHANGED <<tree, projectRoot, units, logicalOf, byLogical, ordered, stack>>

ImportLoaded ==
  /\ ctl.op = "return" /\ ctl.rc = "EXIT_OK" /\ stack # <<>>
  /\ resolved' = Put(resolved, <<Top.file, Top.next>>, Top.target)
  /\ stack' = [stack EXCEPT ![Len(stack)].next = @ + 1]
  /\ ctl' = Run
  /\ UNCHANGED <<tree, projectRoot, units, logicalOf, byLogical, ordered>>

\* the importer is withdrawn too, under the one logical path it was called with
ImportFailed ==
  /\ ctl.op = "return" /\ ctl.rc # "EXIT_OK" /\ stack # <<>>
  /\ units' = units \ {Top.file}
  /\ byLogical' = Drop(byLogical, Top.logical)
  /\ stack' = Pop
  /\ UNCHANGED <<tree, projectRoot, logicalOf, ordered, resolved, ctl>>

\* Mutant: the finished unit goes to the front of units_ordered.
FinishUnitFirst ==
  /\ ctl.op = "run" /\ ~ImportsLeft
  /\ ordered' = <<Top.file>> \o ordered
  /\ stack' = Pop
  /\ ctl' = Return("EXIT_OK")
  /\ UNCHANGED <<tree, projectRoot, units, logicalOf, byLogical, resolved>>

\* every import is loaded: the unit joins units_ordered after its dependencies
FinishUnit ==
  /\ ctl.op = "run" /\ ~ImportsLeft
  /\ ordered' = Append(ordered, Top.file)
  /\ stack' = Pop
  /\ ctl' = Return("EXIT_OK")
  /\ UNCHANGED <<tree, projectRoot, units, logicalOf, byLogical, resolved>>

LoaderNext ==
  \/ TooDeep \/ Unresolved \/ AlreadyLoaded \/ Rejected \/ CreateUnit
  \/ FollowImport \/ ImportLoaded \/ ImportFailed \/ FinishUnit

LoadDone == ctl.op = "return" /\ stack = <<>>
LoadOK   == LoadDone /\ ctl.rc = "EXIT_OK"

\* one thread runs the loader to its end
LoaderSpec == LoaderInit /\ [][LoaderNext]_loaderVars /\ WF_loaderVars(LoaderNext)

-----------------------------------------------------------------------------
(* Properties.                                                             *)

Frames == [file : DOMAIN tree, logical : Seq(Names), next : Nat \ {0}, target : Seq(Names)]

Steps == [op : {"call"}, file : Seq(Names), logical : Seq(Names)]
           \cup {Run} \cup {Return(rc) : rc \in Codes}

\* Types of the loader's state; a running activation has a frame, and the
\* project root is known before any import is followed.
LoaderTypeOK ==
  /\ projectRoot \in Seq(Names) \cup {NULL}
  /\ units \subseteq DOMAIN tree
  /\ units \subseteq DOMAIN logicalOf
  /\ Values(logicalOf) \subseteq Seq(Names)
  /\ Values(byLogical) \subseteq DOMAIN tree
  /\ ordered \in Seq(DOMAIN tree)
  /\ stack \in Seq(Frames)
  /\ ctl \in Steps
  /\ ctl = Run => stack # <<>>
  /\ stack # <<>> => projectRoot # NULL

\* The units table holds exactly the finished units and the ones still on the
\* call stack, and no unit is both or twice either: every file is read and
\* parsed at most once, an import cycle included, and when a load has failed
\* no half-loaded unit is left (lines 170-179, 228, 328-334, 339).
UnitsAccounted ==
  /\ units = FilesIn(ordered) \cup StackFiles
  /\ FilesIn(ordered) \cap StackFiles = {}
  /\ \A i, j \in 1..Len(ordered) : ordered[i] = ordered[j] => i = j
  /\ \A i, j \in 1..Len(stack) : stack[i].file = stack[j].file => i = j

\* The load ends, whatever cycles the imports form.
LoadTerminates == <>LoadDone

-----------------------------------------------------------------------------
(* What a load promises, in terms of the import graph alone.               *)

\* the file that import d[2] of file d[1] names on disk
Named(d) == ImportFile(tree, DirName(Entry), d[1], tree[d[1]].imports[d[2]])

ImportEdges ==
  UNION {{<<f, Named(<<f, i>>)>> : i \in 1..Len(tree[f].imports)} : f \in DOMAIN tree}

LoadOutcome ==
  IF ~LoadDone THEN "loading" ELSE IF ctl.rc = "EXIT_OK" THEN "loaded" ELSE "failed"

Order == INSTANCE DependencyOrder WITH
           root    <- Entry,
           limit   <- MaxDepth,
           edges   <- ImportEdges,
           sound   <- {f \in DOMAIN tree : tree[f].fate = "ok"},
           order   <- ordered,
           outcome <- LoadOutcome

\* The loader implements DependencyOrder: units come out after everything they
\* import except where files import each other, a load succeeds exactly with
\* all reachable files, and fails only for a bad file or where more than MaxDepth
\* imports in a row, each of another file, lead down from the entry (line 137).
ImplementsDependencyOrder == Order!OrderSpec
=============================================================================
