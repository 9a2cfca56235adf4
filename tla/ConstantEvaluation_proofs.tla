-------------------- MODULE ConstantEvaluation_proofs --------------------
(***************************************************************************)
(* Proofs about ConstantEvaluation, for any units and any programs.        *)
(*                                                                         *)
(* The inductive invariant says what the flags of a symbol stand for: that *)
(* COMPUTING is on exactly what has an initializer frame, that the frames  *)
(* wait for each other in a chain of mentions, and that what a frame has   *)
(* read so far is final.                                                   *)
(***************************************************************************)
EXTENDS ConstantEvaluation, LeastNumber, TLAPS

-----------------------------------------------------------------------------
(* The inductive invariant.                                                *)

SymbolSet == [decl : Names, typed : BOOLEAN, flags : SUBSET Flags, value : Int]
Tables == UNION {[known -> SymbolSet] : known \in SUBSET Names}
Jobs == {"size", "local_size", "initializer"}
FrameSet ==
  [job : Jobs, decl : Names, scope : UnitSet, uses : Seq(Names), next : Nat \ {0},
   asked : BOOLEAN, foldable : BOOLEAN, typed : BOOLEAN, value : Int]

Positions == DOMAIN program.order

\* The variables have their types, and the pass is that of the loop.
StateTyped ==
  /\ program \in Programs
  /\ unit \in 1..Len(Units)
  /\ loop \in Kinds \cup {"names", "check", "done"}
  /\ at \in 0..Len(program.order)
  /\ pass \in {0, 1}
  /\ pass = 1 <=> loop \in {"check", "done"}
  /\ symbols \in [UnitSet -> Tables]
  /\ last_checked_pass \in [Names -> {0, 1}]
  /\ stack \in Seq(FrameSet)

\* the unit at i has registered its names
NamesDone(i) == pass = 1 \/ i < unit \/ (i = unit /\ loop # "names")

\* the loop over the declarations has come to n
Passed(n) == \E j \in Positions : j <= at /\ program.order[j] = n
TypeTaken(i, n) ==
  pass = 1 \/ i < unit \/ (i = unit /\ (loop = "function" \/ (loop = "global" /\ Passed(n))))
CheckTaken(i, n) == loop = "done" \/ (pass = 1 /\ (i < unit \/ (i = unit /\ Passed(n))))

\* The names of a unit are there once it has registered them; flags are on the
\* symbols of the declaring unit only.
ScopesOK ==
  /\ \A i \in DOMAIN Units, n \in Names : Home(n) = Units[i] =>
       (NamesDone(i) <=> n \in DOMAIN symbols[Units[i]])
  /\ \A u \in UnitSet : \A n \in DOMAIN symbols[u] :
       symbols[u][n].decl = n /\ (Home(n) # u => symbols[u][n].flags = {})

Resolving(n) == \E k \in DOMAIN stack : stack[k].job = "size" /\ stack[k].decl = n
Computing(n) == \E k \in DOMAIN stack : stack[k].job = "initializer" /\ stack[k].decl = n

\* What each flag stands for.
FlagsOK ==
  \A n \in Names :
    /\ HasFlag(n, "INITIALIZED") <=> last_checked_pass[n] = 1
    /\ HasFlag(n, "COMPUTING") <=> Computing(n)
    /\ HasFlag(n, "INITIALIZED") =>
         pass = 1 /\ Decl(n).kind = "global" /\ Decl(n).size = NONE /\ ~Computing(n)
    /\ HasFlag(n, "COMPUTED") => HasFlag(n, "CONST") /\ HasFlag(n, "INITIALIZED")
    /\ HasFlag(n, "CONST") => Constant(n)

\* A global has a type from its turn in the first pass on, unless it is an array
\* with a size.
TypesOK ==
  \A i \in DOMAIN Units, n \in Names :
    Home(n) = Units[i] /\ Decl(n).kind = "global" /\ n \in DOMAIN symbols[Units[i]] =>
      /\ symbols[Units[i]][n].typed => Decl(n).size = NONE
      /\ TypeTaken(i, n) /\ Decl(n).size = NONE /\ ~Resolving(n) =>
           symbols[Units[i]][n].typed /\ (Decl(n).const => HasFlag(n, "CONST"))

\* One frame, by what it is for.
FrameOK(k) ==
  LET f == stack[k]
  IN  /\ f.scope = Home(f.decl)
      /\ f.decl \in DOMAIN symbols[f.scope]
      /\ f.next <= Len(f.uses) + 1
      /\ f.asked => f.next <= Len(f.uses)
      /\ pass = 0 <=> f.job = "size"
      /\ f.job = "size" =>
           /\ Len(stack) = 1
           /\ f.uses = IF Decl(f.decl).size = NONE THEN <<>> ELSE <<Decl(f.decl).size>>
           /\ f.foldable <=> f.next = 1
      /\ f.job = "initializer" =>
           /\ f.uses = Decl(f.decl).uses
           /\ Decl(f.decl).kind = "global" /\ Decl(f.decl).size = NONE

\* Initializers are on top, each another one; a frame below one has asked for it.
StackOK ==
  /\ \A k \in DOMAIN stack : FrameOK(k)
  /\ \A k \in DOMAIN stack : stack[k].job = "initializer" =>
       \A j \in DOMAIN stack : j < k => stack[j].job = "initializer" /\ stack[j].decl # stack[k].decl
  /\ \A k \in DOMAIN stack : k > 1 /\ stack[k - 1].job = "initializer" =>
       LET f == stack[k]
       IN  /\ f.asked /\ f.uses[f.next] = stack[k - 1].decl
           /\ Home(stack[k - 1].decl) = f.scope
           /\ Constant(stack[k - 1].decl)
  /\ \A k \in DOMAIN stack : k > 1 /\ stack[k].asked => stack[k - 1].job = "initializer"

RecursionReported == \E e \in errors : e.kind = "recursive"

\* What the top frame has asked for is a constant of its unit, and in the second
\* pass it is evaluated, or a recursion.
AnswerOK ==
  stack # <<>> /\ Top.asked =>
    /\ Visible /\ Home(Name) = Top.scope
    /\ pass = 1 => \/ HasFlag(Name, "INITIALIZED")
                   \/ HasFlag(Name, "COMPUTING") /\ RecursionReported /\ Name \notin Foldable

\* What an initializer has read so far is final.
ReadOK(f) ==
  LET n == f.decl
      Own(m) == Home(m) = Home(n)
  IN  /\ f.foldable =>
           /\ \A i \in 1..(f.next - 1) : f.uses[i] \in Computed /\ Own(f.uses[i])
           /\ f.value = SumOf(Decl(n).literal,
                              [i \in 1..(f.next - 1) |-> symbols[Home(n)][f.uses[i]].value])
      /\ ~f.foldable => \E i \in 1..(f.next - 1) : ~(f.uses[i] \in Foldable /\ Own(f.uses[i]))
      /\ ~RecursionReported =>
           \A i \in 1..(f.next - 1) : f.uses[i] \in Constants(n) => HasFlag(f.uses[i], "INITIALIZED")

Frames == {stack[k] : k \in DOMAIN stack}
ReadsOK == \A f \in Frames : f.job = "initializer" => ReadOK(f)

\* Values are what the declarations say, and foldable constants get theirs.
ValuesOK ==
  /\ \A n \in Computed :
       /\ \A m \in Uses(n) : m \in Computed /\ Home(m) = Home(n)
       /\ symbols[Home(n)][n].value = SumOf(Decl(n).literal, MentionedValues(n))
  /\ \A n \in Names : HasFlag(n, "INITIALIZED") => (n \in Foldable <=> n \in Computed)

\* The second pass evaluates what it comes to.
CheckedOK ==
  \A i \in DOMAIN Units, n \in Globals :
    Home(n) = Units[i] /\ CheckTaken(i, n) /\ Decl(n).size = NONE =>
      HasFlag(n, "INITIALIZED") \/ HasFlag(n, "COMPUTING")

\* Recursions are reported, and nothing evaluated without a report is one.
CyclesOK ==
  IF RecursionReported
  THEN \E n \in Globals : Constant(n) /\ Recursive(n)
  ELSE \A n \in Names : HasFlag(n, "INITIALIZED") =>
         /\ \A m \in Constants(n) : HasFlag(m, "INITIALIZED")
         /\ ~Recursive(n)

IInv ==
  /\ StateTyped /\ ScopesOK /\ FlagsOK /\ TypesOK /\ StackOK
  /\ AnswerOK /\ ReadsOK /\ ValuesOK /\ CheckedOK /\ CyclesOK

-----------------------------------------------------------------------------
(* Lemmas about the operators of the model.                                *)

\* The declarations and the order of a program.
LEMMA ProgramTyped ==
  ASSUME program \in Programs
  PROVE  /\ \A n \in Names : Decl(n) \in Declaration /\ Home(n) \in UnitSet
         /\ \A n \in Names : \E i \in Positions : program.order[i] = n
         /\ \A i \in Positions : program.order[i] \in Names
         /\ \A n \in Names : Decl(n).const => Decl(n).kind = "global"
         /\ program.order \in Seq(Names)
         /\ program.imports \in [UnitSet -> SUBSET Names]
  BY ProgramsAssumption DEF Decl, Home, Declaration, Positions

\* One symbol of a table is replaced.
LEMMA TableUpdate ==
  ASSUME NEW t \in Tables, NEW n \in DOMAIN t, NEW s \in SymbolSet
  PROVE  /\ [t EXCEPT ![n] = s] \in Tables
         /\ DOMAIN [t EXCEPT ![n] = s] = DOMAIN t
  BY DEF Tables

\* One symbol of the program is replaced.
LEMMA SymbolUpdate ==
  ASSUME StateTyped, NEW u \in UnitSet, NEW n \in DOMAIN symbols[u], NEW s \in SymbolSet,
         symbols' = [symbols EXCEPT ![u] = [symbols[u] EXCEPT ![n] = s]]
  PROVE  /\ symbols' \in [UnitSet -> Tables]
         /\ \A v \in UnitSet : DOMAIN symbols'[v] = DOMAIN symbols[v]
         /\ symbols'[u][n] = s
         /\ \A v \in UnitSet : \A m \in DOMAIN symbols[v] :
              v # u \/ m # n => symbols'[v][m] = symbols[v][m]
  <1>1. symbols \in [UnitSet -> Tables] /\ symbols[u] \in Tables
    BY DEF StateTyped
  <1>2. [symbols[u] EXCEPT ![n] = s] \in Tables /\ DOMAIN [symbols[u] EXCEPT ![n] = s] = DOMAIN symbols[u]
    BY <1>1, TableUpdate
  <1> QED
    BY <1>1, <1>2

\* A symbol is a record of its type.
LEMMA SymbolTyped ==
  ASSUME StateTyped, NEW u \in UnitSet, NEW n \in DOMAIN symbols[u]
  PROVE  symbols[u][n] \in SymbolSet /\ n \in Names
  <1>1. symbols[u] \in Tables
    BY DEF StateTyped
  <1> QED
    BY <1>1 DEF Tables

\* A frame is a record of its type.
LEMMA FrameTyped ==
  ASSUME StateTyped, NEW k \in DOMAIN stack
  PROVE  stack[k] \in FrameSet
  BY DEF StateTyped

\* The set of foldable constants has each constant all of whose mentions it has ...
LEMMA FoldableComplete == Complete(Foldable)
  <1> SUFFICES ASSUME NEW n \in Globals, Constant(n),
                      \A m \in Uses(n) : m \in Foldable /\ Home(m) = Home(n),
                      NEW known \in SUBSET Globals, Complete(known)
               PROVE  n \in known
    BY DEF Complete, Foldable
  <1>1. \A m \in Uses(n) : m \in known /\ Home(m) = Home(n)
    BY DEF Foldable
  <1> QED
    BY <1>1 DEF Complete

\* ... and no others.
LEMMA FoldableMentions ==
  ASSUME NEW n \in Foldable
  PROVE  Constant(n) /\ \A m \in Uses(n) : m \in Foldable /\ Home(m) = Home(n)
  <1> SUFFICES ASSUME ~(Constant(n) /\ \A m \in Uses(n) : m \in Foldable /\ Home(m) = Home(n))
               PROVE  FALSE
    OBVIOUS
  <1> PICK known : known = Foldable \ {n}
    OBVIOUS
  <1>1. known \in SUBSET Globals
    BY DEF Foldable
  <1>2. Complete(known)
    BY FoldableComplete DEF Complete
  <1> QED
    BY <1>1, <1>2 DEF Foldable

\* A foldable constant has no infinite chain of mentions: a set of names each of
\* which mentions another of them has no foldable member.
LEMMA NoChainFolds ==
  ASSUME NEW chain, \A n \in chain : \E m \in Uses(n) : m \in chain
  PROVE  \A n \in chain : n \notin Foldable
  <1> PICK known : known = Foldable \ chain
    OBVIOUS
  <1>1. known \in SUBSET Globals
    BY DEF Foldable
  <1>2. Complete(known)
    BY FoldableComplete DEF Complete
  <1> QED
    BY <1>1, <1>2 DEF Foldable

\* What is in no set that has what its members and n mention is not recursive.
LEMMA NotRecursive ==
  ASSUME NEW n, NEW found \in SUBSET Globals, n \notin found,
         \A m \in found \cup {n} : Constants(m) \subseteq found
  PROVE  ~Recursive(n)
  BY DEF Recursive

-----------------------------------------------------------------------------
(* Sums of sequences.                                                      *)

\* f gives the sums of the first values, up to k of them
SumsTo(base, values, f, k) ==
  \A i \in 0..k : f[i] = IF i = 0 THEN base ELSE f[i - 1] + values[i]

\* Every sequence of numbers has its sums ...
LEMMA SumsExist ==
  ASSUME NEW base \in Int, NEW values \in Seq(Int)
  PROVE  \E f \in [0..Len(values) -> Int] : SumsTo(base, values, f, Len(values))
  <1> DEFINE UpTo(k) == \E f \in [0..k -> Int] : SumsTo(base, values, f, k)
             Bad == {k \in 0..Len(values) : ~UpTo(k)}
  <1>1. UpTo(0)
    <2> PICK f : f = [i \in 0..0 |-> base]
      OBVIOUS
    <2>1. f \in [0..0 -> Int] /\ f[0] = base
      OBVIOUS
    <2>2. SumsTo(base, values, f, 0)
      BY <2>1 DEF SumsTo
    <2> QED
      BY <2>1, <2>2
  <1>2. ASSUME NEW k \in 1..Len(values), UpTo(k - 1) PROVE UpTo(k)
    <2>1. PICK f \in [0..(k - 1) -> Int] : SumsTo(base, values, f, k - 1)
      BY <1>2
    <2> PICK g : g = [i \in 0..k |-> IF i = k THEN f[k - 1] + values[k] ELSE f[i]]
      OBVIOUS
    <2>2. values[k] \in Int /\ f[k - 1] \in Int
      BY <2>1
    <2>3. g \in [0..k -> Int]
      BY <2>2
    <2>4. SumsTo(base, values, g, k)
      BY <2>1 DEF SumsTo
    <2> QED
      BY <2>3, <2>4
  <1> HIDE DEF UpTo
  <1>3. ASSUME Bad # {} PROVE FALSE
    <2>1. Bad \in SUBSET Nat
      OBVIOUS
    <2>2. PICK k \in Bad : \A j \in Bad : k <= j
      BY <1>3, <2>1, LeastNat
    <2>3. k # 0
      BY <1>1
    <2>4. k - 1 \in 0..Len(values) /\ k - 1 \notin Bad
      BY <2>2, <2>3
    <2> QED
      BY <1>2, <2>2, <2>3, <2>4
  <1> QED
    <2>1. UpTo(Len(values))
      BY <1>3
    <2> QED
      BY <2>1 DEF UpTo

\* ... and has them once.
LEMMA SumsUnique ==
  ASSUME NEW base, NEW values, NEW f, NEW g, NEW n \in Nat,
         SumsTo(base, values, f, n), SumsTo(base, values, g, n)
  PROVE  f[n] = g[n]
  <1> DEFINE Differ == {i \in 0..n : f[i] # g[i]}
  <1> SUFFICES ASSUME f[n] # g[n] PROVE FALSE
    OBVIOUS
  <1>1. Differ \in SUBSET Nat /\ Differ # {}
    OBVIOUS
  <1>2. PICK i \in Differ : \A j \in Differ : i <= j
    BY <1>1, LeastNat
  <1>3. i # 0
    BY DEF SumsTo
  <1>4. i - 1 \in 0..n /\ i - 1 \notin Differ
    BY <1>2, <1>3
  <1> QED
    BY <1>2, <1>3, <1>4 DEF SumsTo

\* The sum is the last of them.
LEMMA SumIsLast ==
  ASSUME NEW base \in Int, NEW values \in Seq(Int), NEW f, SumsTo(base, values, f, Len(values))
  PROVE  SumOf(base, values) = f[Len(values)]
  <1> DEFINE Is(sum) == sum = [i \in 0..Len(values) |-> IF i = 0 THEN base ELSE sum[i - 1] + values[i]]
  <1> PICK sum : sum = CHOOSE s : Is(s)
    OBVIOUS
  <1>1. SumOf(base, values) = sum[Len(values)]
    BY DEF SumOf
  <1>2. \E s : Is(s)
    <2>1. PICK s \in [0..Len(values) -> Int] : SumsTo(base, values, s, Len(values))
      BY SumsExist
    <2>2. Is(s)
      BY <2>1 DEF SumsTo
    <2> QED
      BY <2>2
  <1>3. Is(sum)
    <2> HIDE DEF Is
    <2> QED
      BY <1>2
  <1>4. SumsTo(base, values, sum, Len(values))
    BY <1>3 DEF SumsTo
  <1>5. Len(values) \in Nat
    OBVIOUS
  <1> HIDE DEF Is
  <1> QED
    BY <1>1, <1>4, <1>5, SumsUnique

\* The sum of no values.
LEMMA SumOfNone ==
  ASSUME NEW base \in Int
  PROVE  SumOf(base, <<>>) = base
  <1> PICK f : f = [i \in 0..0 |-> base]
    OBVIOUS
  <1>1. f[0] = base /\ Len(<<>>) = 0 /\ <<>> \in Seq(Int)
    OBVIOUS
  <1>2. SumsTo(base, <<>>, f, Len(<<>>))
    BY <1>1 DEF SumsTo
  <1>3. SumOf(base, <<>>) = f[Len(<<>>)]
    BY <1>1, <1>2, SumIsLast
  <1> QED
    BY <1>1, <1>3

\* The sum of one value more.
LEMMA SumOfOneMore ==
  ASSUME NEW base \in Int, NEW values \in Seq(Int), NEW x \in Int
  PROVE  SumOf(base, Append(values, x)) = SumOf(base, values) + x
  <1> PICK more : more = Append(values, x)
    OBVIOUS
  <1>1. /\ more \in Seq(Int) /\ Len(more) = Len(values) + 1 /\ more[Len(more)] = x
        /\ \A i \in 1..Len(values) : more[i] = values[i]
    OBVIOUS
  <1>2. PICK f \in [0..Len(more) -> Int] : SumsTo(base, more, f, Len(more))
    BY <1>1, SumsExist
  <1>3. SumsTo(base, values, f, Len(values))
    BY <1>1, <1>2 DEF SumsTo
  <1>4. f[Len(more)] = f[Len(values)] + x
    BY <1>1, <1>2 DEF SumsTo
  <1>5. SumOf(base, values) = f[Len(values)]
    BY <1>3, SumIsLast
  <1>6. SumOf(base, more) = f[Len(more)]
    BY <1>1, <1>2, SumIsLast
  <1> QED
    BY <1>4, <1>5, <1>6

-----------------------------------------------------------------------------
(* What a step keeps.                                                      *)

\* The program is fixed, and so is what only it determines.
LEMMA SameProgram ==
  ASSUME program' = program
  PROVE  /\ \A n : Decl(n)' = Decl(n) /\ Home(n)' = Home(n) /\ (Constant(n) <=> Constant(n)')
         /\ \A n : Uses(n)' = Uses(n) /\ Constants(n)' = Constants(n)
         /\ \A n : Recursive(n)' <=> Recursive(n)
         /\ Globals' = Globals /\ Foldable' = Foldable /\ Positions' = Positions
  <1>1. \A n : Decl(n)' = Decl(n) /\ Home(n)' = Home(n)
    BY DEF Decl, Home
  <1>2. \A n : (Constant(n)' <=> Constant(n)) /\ Uses(n)' = Uses(n)
    BY <1>1 DEF Constant, Uses
  <1>3. \A n : Constants(n)' = Constants(n)
    BY <1>1, <1>2 DEF Constants
  <1>4. Globals' = Globals /\ Positions' = Positions
    BY <1>1 DEF Globals, Positions
  <1>5. \A n : Recursive(n)' <=> Recursive(n)
    BY <1>3, <1>4 DEF Recursive
  <1>6. \A known : Complete(known)' <=> Complete(known)
    BY <1>1, <1>2, <1>4 DEF Complete
  <1>7. Foldable' = Foldable
    BY <1>4, <1>6 DEF Foldable
  <1> QED
    BY <1>1, <1>2, <1>3, <1>4, <1>5, <1>7

\* Where no symbol changes, no flag does.
LEMMA SameSymbols ==
  ASSUME program' = program, symbols' = symbols
  PROVE  /\ \A n, flag : HasFlag(n, flag)' <=> HasFlag(n, flag)
         /\ Computed' = Computed
         /\ \A n : MentionedValues(n)' = MentionedValues(n)
  BY SameProgram DEF HasFlag, Computed, MentionedValues

\* A declaration that the loop selects and has not to come to, it has passed.
LEMMA PassedAtEnd ==
  ASSUME StateTyped, LoopEnds, NEW n \in Names, Home(n) = Units[unit], Decl(n).kind \in LoopOver
  PROVE  Passed(n)
  <1>1. PICK j \in Positions : program.order[j] = n
    BY ProgramTyped DEF StateTyped
  <1>2. Selected(j)
    BY <1>1 DEF Selected
  <1>3. j \in Nat /\ at \in Nat
    BY ProgramTyped DEF StateTyped, Positions
  <1> QED
    BY <1>1, <1>2, <1>3 DEF LoopEnds, Passed, Positions

\* The steps from one loop to the next.
PlaceSteps == NextLoop \/ NextUnit \/ StartPass \/ Return

\* A loop ends when it has come to all declarations of its unit and kinds.
LEMMA PlaceStep ==
  ASSUME IInv, PlaceSteps
  PROVE  IInv'
  <1>1. /\ program' = program /\ symbols' = symbols /\ errors' = errors
        /\ stack = <<>> /\ stack' = <<>> /\ last_checked_pass' = last_checked_pass
    BY DEF PlaceSteps, NextLoop, NextUnit, StartPass, Return, LoopEnds, Idle
  <1>2. StateTyped /\ ScopesOK /\ FlagsOK /\ TypesOK /\ ValuesOK /\ CheckedOK /\ CyclesOK
    BY DEF IInv
  <1>3. StateTyped'
    BY <1>1, <1>2 DEF PlaceSteps, NextLoop, NextUnit, StartPass, Return, StateTyped, Kinds
  <1>4. ScopesOK'
    <2>1. \A i \in DOMAIN Units : NamesDone(i)' <=> NamesDone(i)
      BY <1>2, UnitsAssumption DEF PlaceSteps, NextLoop, NextUnit, StartPass, Return, StateTyped, NamesDone, Kinds
    <2> QED
      BY <1>1, <1>2, <2>1, SameProgram DEF ScopesOK
  <1>5. FlagsOK'
    <2>1. pass = 1 => pass' = 1
      BY <1>1 DEF PlaceSteps, NextLoop, NextUnit, StartPass, Return
    <2>2. \A n : Computing(n)' <=> Computing(n)
      BY <1>1 DEF Computing
    <2> QED
      BY <1>1, <1>2, <2>1, <2>2, SameProgram, SameSymbols DEF FlagsOK
  <1>6. TypesOK'
    <2>1. ASSUME NEW i \in DOMAIN Units, NEW n \in Names,
                 Home(n) = Units[i], Decl(n).kind = "global", TypeTaken(i, n)'
          PROVE  TypeTaken(i, n)
      <3>1. i = unit /\ LoopEnds /\ loop = "global" => Passed(n)
        BY <1>2, <2>1, PassedAtEnd DEF LoopOver
      <3> QED
        BY <1>1, <1>2, <2>1, <3>1, UnitsAssumption
        DEF PlaceSteps, NextLoop, NextUnit, StartPass, Return, StateTyped, TypeTaken, Passed, Kinds, Positions
    <2>2. \A n : Resolving(n)' <=> Resolving(n)
      BY <1>1 DEF Resolving
    <2> QED
      BY <1>1, <1>2, <2>1, <2>2, SameProgram, SameSymbols DEF TypesOK
  <1>7. StackOK' /\ AnswerOK' /\ ReadsOK'
    BY <1>1 DEF StackOK, AnswerOK, ReadsOK, Frames
  <1>8. ValuesOK' /\ CyclesOK'
    BY <1>1, <1>2, SameProgram, SameSymbols DEF ValuesOK, CyclesOK, RecursionReported
  <1>9. CheckedOK'
    <2>1. ASSUME NEW i \in DOMAIN Units, NEW n \in Globals, Home(n) = Units[i], CheckTaken(i, n)'
          PROVE  CheckTaken(i, n)
      <3>1. i = unit /\ LoopEnds /\ loop = "check" => Passed(n)
        BY <1>2, <2>1, PassedAtEnd DEF LoopOver, Globals
      <3> QED
        BY <1>1, <1>2, <2>1, <3>1, UnitsAssumption
        DEF PlaceSteps, NextLoop, NextUnit, StartPass, Return, StateTyped, CheckTaken, Passed, Kinds, Positions
    <2> QED
      BY <1>1, <1>2, <2>1, SameProgram, SameSymbols DEF CheckedOK
  <1> QED
    BY <1>3, <1>4, <1>5, <1>6, <1>7, <1>8, <1>9 DEF IInv

\* Names are registered before anything of their unit is evaluated.
LEMMA RegisterStep ==
  ASSUME IInv, RegisterNames
  PROVE  IInv'
  <1>u. PICK u : u = Units[unit]
    OBVIOUS
  <1>own. PICK own : own = {n \in Names : Home(n) = u}
    OBVIOUS
  <1>copied. PICK copied : copied = {n \in program.imports[u] \ own : n \in DOMAIN symbols[Home(n)]}
    OBVIOUS
  <1>table. PICK table : table = [n \in own \cup copied |->
                       IF n \in own THEN Registered(n) ELSE Symbol(n, symbols[Home(n)][n].typed)]
    OBVIOUS
  <1>1. /\ program' = program /\ unit' = unit /\ at' = at /\ pass' = pass
        /\ stack = <<>> /\ stack' = <<>> /\ last_checked_pass' = last_checked_pass
        /\ loop = "names" /\ loop' = "struct"
        /\ symbols' = [symbols EXCEPT ![u] = table]
        /\ errors' = errors \cup {[kind |-> "undeclared", decl |-> n] :
                                    n \in (program.imports[u] \ own) \ copied}
    BY <1>u, <1>own, <1>copied, <1>table DEF RegisterNames, Idle
  <1>2. StateTyped /\ ScopesOK /\ FlagsOK /\ TypesOK /\ ValuesOK /\ CheckedOK /\ CyclesOK
    BY DEF IInv
  <1>3. pass = 0 /\ u \in UnitSet /\ unit \in DOMAIN Units
    BY <1>1, <1>2, <1>u, UnitsAssumption DEF StateTyped, UnitSet
  <1>4. own \cup copied \in SUBSET Names
    BY <1>2, <1>3, <1>own, <1>copied, ProgramTyped DEF StateTyped
  <1>5. table \in Tables
    <2>1. ASSUME NEW n \in own \cup copied
          PROVE  table[n] \in SymbolSet
      <3>1. n \in own \/ symbols[Home(n)][n] \in SymbolSet
        BY <1>2, <1>4, <1>copied, <2>1, ProgramTyped, SymbolTyped DEF StateTyped
      <3> QED
        BY <1>4, <1>table, <3>1 DEF SymbolSet, Registered, Symbol
    <2>2. table \in [own \cup copied -> SymbolSet]
      BY <1>table, <2>1
    <2> QED
      BY <1>4, <2>2 DEF Tables
  <1>6. /\ \A v \in UnitSet : v # u => symbols'[v] = symbols[v]
        /\ symbols'[u] = table /\ DOMAIN table = own \cup copied
        /\ \A n \in DOMAIN table : table[n].decl = n /\ table[n].flags = {}
    BY <1>1, <1>2, <1>3, <1>table DEF StateTyped, Registered, Symbol
  <1>7. \A n \in Names : Home(n) \in UnitSet
    BY <1>2, ProgramTyped DEF StateTyped
  <1>8. \A n \in Names : \A flag : HasFlag(n, flag)' <=> HasFlag(n, flag)
    <2> SUFFICES ASSUME NEW n \in Names, NEW flag PROVE HasFlag(n, flag)' <=> HasFlag(n, flag)
      OBVIOUS
    <2>1. CASE Home(n) = u
      <3>1. n \notin DOMAIN symbols[u]
        BY <1>1, <1>2, <1>3, <1>u, <2>1 DEF ScopesOK, NamesDone, StateTyped
      <3> QED
        BY <1>1, <1>3, <1>6, <2>1, <3>1, SameProgram DEF HasFlag
    <2>2. CASE Home(n) # u
      BY <1>1, <1>6, <1>7, <2>2, SameProgram DEF HasFlag
    <2> QED
      BY <2>1, <2>2
  <1>9. \A n \in Names : ~HasFlag(n, "INITIALIZED") /\ ~HasFlag(n, "COMPUTED") /\ n \notin Computed
    BY <1>2, <1>3 DEF FlagsOK, Computed
  <1>10. StateTyped'
    BY <1>1, <1>2, <1>3, <1>5 DEF StateTyped, Kinds
  <1>11. ScopesOK'
    <2>1. \A i \in DOMAIN Units : NamesDone(i)' <=> (NamesDone(i) \/ i = unit)
      BY <1>1, <1>2, <1>3 DEF NamesDone, StateTyped
    <2>2. ASSUME NEW i \in DOMAIN Units, NEW n \in Names, Home(n) = Units[i]
          PROVE  NamesDone(i)' <=> n \in DOMAIN symbols'[Units[i]]
      <3>1. CASE i = unit
        BY <1>6, <1>own, <1>u, <2>1, <2>2, <3>1
      <3>2. CASE i # unit
        <4>1. Units[i] # u /\ Units[i] \in UnitSet
          BY <1>3, <1>u, <3>2, UnitsAssumption DEF UnitSet
        <4> QED
          BY <1>2, <1>6, <2>1, <2>2, <3>2, <4>1 DEF ScopesOK
      <3> QED
        BY <3>1, <3>2
    <2>3. \A v \in UnitSet : \A n \in DOMAIN symbols'[v] :
            symbols'[v][n].decl = n /\ (Home(n) # v => symbols'[v][n].flags = {})
      <3> SUFFICES ASSUME NEW v \in UnitSet, NEW n \in DOMAIN symbols'[v]
                   PROVE  symbols'[v][n].decl = n /\ (Home(n) # v => symbols'[v][n].flags = {})
        OBVIOUS
      <3> QED
        BY <1>2, <1>6 DEF ScopesOK
    <2> QED
      BY <1>1, <2>2, <2>3, SameProgram DEF ScopesOK
  <1>12. FlagsOK'
    <2>1. \A n : Computing(n)' <=> Computing(n)
      BY <1>1 DEF Computing
    <2> QED
      BY <1>1, <1>2, <1>8, <2>1, SameProgram DEF FlagsOK
  <1>13. TypesOK'
    <2> SUFFICES ASSUME NEW i \in DOMAIN Units, NEW n \in Names, Home(n) = Units[i],
                        Decl(n).kind = "global", n \in DOMAIN symbols'[Units[i]]
                 PROVE  /\ symbols'[Units[i]][n].typed => Decl(n).size = NONE
                        /\ TypeTaken(i, n)' /\ Decl(n).size = NONE /\ ~Resolving(n)' =>
                             symbols'[Units[i]][n].typed /\ (Decl(n).const => HasFlag(n, "CONST")')
      BY <1>1, SameProgram DEF TypesOK
    <2>1. CASE i = unit
      <3>1. ~TypeTaken(i, n)'
        BY <1>1, <1>2, <1>3, <2>1 DEF TypeTaken, StateTyped
      <3>2. ~symbols'[Units[i]][n].typed
        <4>1. n \in own /\ symbols'[Units[i]][n] = Registered(n)
          BY <1>6, <1>own, <1>table, <1>u, <2>1
        <4>2. Registered(n) = Symbol(n, FALSE)
          BY Zenon DEF Registered
        <4> QED
          BY <4>1, <4>2 DEF Symbol
      <3> QED
        BY <3>1, <3>2
    <2>2. CASE i # unit
      <3>1. Units[i] # u /\ Units[i] \in UnitSet
        BY <1>3, <1>u, <2>2, UnitsAssumption DEF UnitSet
      <3>2. TypeTaken(i, n)' => TypeTaken(i, n)
        BY <1>1, <1>2, <1>3, <2>2 DEF TypeTaken, StateTyped
      <3>3. Resolving(n)' <=> Resolving(n)
        BY <1>1 DEF Resolving
      <3> QED
        BY <1>2, <1>6, <1>8, <3>1, <3>2, <3>3 DEF TypesOK
    <2> QED
      BY <2>1, <2>2
  <1>14. StackOK' /\ AnswerOK' /\ ReadsOK'
    BY <1>1 DEF StackOK, AnswerOK, ReadsOK, Frames
  <1>15. ValuesOK'
    BY <1>1, <1>8, <1>9, SameProgram DEF ValuesOK, Computed, Globals
  <1>16. CheckedOK'
    BY <1>1, <1>2, <1>3 DEF CheckedOK, CheckTaken, StateTyped
  <1>17. CyclesOK'
    <2>1. RecursionReported' <=> RecursionReported
      BY <1>1 DEF RecursionReported
    <2> QED
      BY <1>1, <1>2, <1>8, <1>9, <2>1, SameProgram DEF CyclesOK
  <1> QED
    BY <1>10, <1>11, <1>12, <1>13, <1>14, <1>15, <1>16, <1>17 DEF IInv

-----------------------------------------------------------------------------
(* Frames.                                                                 *)

\* A new frame, and what is in it.
LEMMA NewFrame ==
  ASSUME program \in Programs, NEW job \in Jobs, NEW n \in Names, NEW uses \in Seq(Names),
         NEW f, f = Frame(job, n, uses)
  PROVE  /\ f \in FrameSet /\ f.job = job /\ f.decl = n /\ f.scope = Home(n) /\ f.uses = uses
         /\ f.next = 1 /\ ~f.asked /\ f.foldable /\ f.value = Decl(n).literal
  <1>1. Decl(n).literal \in Int /\ Home(n) \in UnitSet
    BY ProgramTyped DEF Declaration
  <1> QED
    BY <1>1 DEF Frame, FrameSet

\* The top frame is the first.
LEMMA TopFrame ==
  ASSUME StateTyped, stack # <<>>
  PROVE  /\ Top = stack[1] /\ Top \in FrameSet /\ 1 \in DOMAIN stack
         /\ Len(stack) \in Nat /\ DOMAIN stack = 1..Len(stack)
  BY DEF StateTyped, Top

\* The top frame is replaced.
LEMMA TopReplaced ==
  ASSUME StateTyped, stack # <<>>, NEW f \in FrameSet, Replace(f)
  PROVE  /\ stack' \in Seq(FrameSet) /\ Len(stack') = Len(stack) /\ DOMAIN stack' = DOMAIN stack
         /\ stack'[1] = f /\ stack' # <<>>
         /\ \A k \in DOMAIN stack : k > 1 => stack'[k] = stack[k]
  BY DEF StateTyped, Replace

\* The top frame is removed.
LEMMA TopRemoved ==
  ASSUME StateTyped, stack # <<>>, stack' = Tail(stack)
  PROVE  /\ stack' \in Seq(FrameSet) /\ Len(stack') = Len(stack) - 1
         /\ \A k \in DOMAIN stack' : k + 1 \in DOMAIN stack /\ stack'[k] = stack[k + 1]
         /\ \A k \in DOMAIN stack : k > 1 => k - 1 \in DOMAIN stack' /\ stack'[k - 1] = stack[k]
  BY DEF StateTyped

\* A frame is put on top of others.
LEMMA FramePushed ==
  ASSUME NEW f \in FrameSet, NEW caller \in Seq(FrameSet), stack' = <<f>> \o caller
  PROVE  /\ stack' \in Seq(FrameSet) /\ Len(stack') = Len(caller) + 1 /\ stack' # <<>>
         /\ stack'[1] = f
         /\ \A k \in DOMAIN stack' : k > 1 => k - 1 \in DOMAIN caller /\ stack'[k] = caller[k - 1]
         /\ \A k \in DOMAIN caller : k + 1 \in DOMAIN stack' /\ stack'[k + 1] = caller[k]
  OBVIOUS

\* A loop that comes to a declaration passes this one only.
LEMMA PassedNext ==
  ASSUME StateTyped, NEW i \in Positions, Reaches(i), at' = i, program' = program,
         NEW n \in Names, Home(n) = Units[unit], Decl(n).kind \in LoopOver, Passed(n)'
  PROVE  Passed(n) \/ n = program.order[i]
  <1>1. PICK j \in Positions : j <= i /\ program.order[j] = n
    BY DEF Passed, Positions
  <1>2. Selected(j)
    BY <1>1 DEF Selected
  <1>3. j \in Nat /\ at \in Nat /\ i \in Nat
    BY ProgramTyped DEF StateTyped, Positions
  <1>4. j = i \/ j <= at
    BY <1>1, <1>2, <1>3 DEF Reaches, Positions
  <1> QED
    BY <1>1, <1>4 DEF Passed

\* A declaration that a loop comes to is one of a unit whose names are there.
LEMMA ReachedDeclaration ==
  ASSUME StateTyped, ScopesOK, NEW i \in Positions, Reaches(i), loop \in Kinds \cup {"check"}
  PROVE  LET n == program.order[i]
         IN  /\ n \in Names /\ Home(n) = Units[unit] /\ Decl(n).kind \in LoopOver
             /\ Home(n) \in UnitSet /\ n \in DOMAIN symbols[Home(n)]
             /\ unit \in DOMAIN Units /\ at \in Nat /\ i \in 0..Len(program.order)
  <1>1. program.order[i] \in Names /\ unit \in DOMAIN Units /\ NamesDone(unit)
    BY ProgramTyped, UnitsAssumption DEF StateTyped, NamesDone, Kinds
  <1>2. i \in 0..Len(program.order)
    BY ProgramTyped DEF StateTyped, Positions
  <1> QED
    BY <1>1, <1>2 DEF Reaches, Selected, ScopesOK, UnitSet, StateTyped

\* The type of a declaration is begun.
LEMMA ResolveTypeStep ==
  ASSUME IInv, ResolveType
  PROVE  IInv'
  <1>1. PICK i \in Positions : Reaches(i) /\ at' = i /\
          LET n == program.order[i]
          IN  stack' = <<Frame("size", n, IF Decl(n).size = NONE THEN <<>> ELSE <<Decl(n).size>>)>>
    BY DEF ResolveType, Positions
  <1>n. PICK n : n = program.order[i]
    OBVIOUS
  <1>uses. PICK uses : uses = IF Decl(n).size = NONE THEN <<>> ELSE <<Decl(n).size>>
    OBVIOUS
  <1>f. PICK f : f = Frame("size", n, uses)
    OBVIOUS
  <1>2. /\ program' = program /\ unit' = unit /\ loop' = loop /\ pass' = pass
        /\ symbols' = symbols /\ last_checked_pass' = last_checked_pass /\ errors' = errors
        /\ stack = <<>> /\ loop \in Kinds /\ at' = i /\ stack' = <<f>> /\ Reaches(i)
    BY <1>1, <1>n, <1>uses, <1>f DEF ResolveType, Idle
  <1>3. StateTyped /\ ScopesOK /\ FlagsOK /\ TypesOK /\ ValuesOK /\ CheckedOK /\ CyclesOK
    BY DEF IInv
  <1>4. /\ n \in Names /\ Home(n) = Units[unit] /\ Decl(n).kind = loop /\ Home(n) \in UnitSet
        /\ n \in DOMAIN symbols[Home(n)] /\ unit \in DOMAIN Units /\ i \in 0..Len(program.order)
    BY <1>2, <1>3, <1>n, ReachedDeclaration DEF LoopOver, Kinds
  <1>5. uses \in Seq(Names)
    BY <1>3, <1>4, <1>uses, ProgramTyped DEF StateTyped, Declaration
  <1>6. /\ f \in FrameSet /\ f.job = "size" /\ f.decl = n /\ f.scope = Home(n) /\ f.uses = uses
        /\ f.next = 1 /\ ~f.asked /\ f.foldable
    <2>1. "size" \in Jobs /\ program \in Programs
      BY <1>3 DEF StateTyped, Jobs
    <2> QED
      BY <1>4, <1>5, <1>f, <2>1, NewFrame
  <1>7. stack' \in Seq(FrameSet) /\ DOMAIN stack' = {1} /\ stack'[1] = f /\ Len(stack') = 1
    BY <1>2, <1>6
  <1>8. pass = 0
    BY <1>2, <1>3 DEF StateTyped, Kinds
  <1>9. StateTyped'
    BY <1>2, <1>3, <1>4, <1>7 DEF StateTyped
  <1>10. ScopesOK'
    BY <1>2, <1>3, SameProgram DEF ScopesOK, NamesDone
  <1>11. FlagsOK'
    <2>1. \A m : Computing(m)' <=> Computing(m)
      BY <1>2, <1>6, <1>7 DEF Computing
    <2> QED
      BY <1>2, <1>3, <2>1, SameProgram, SameSymbols DEF FlagsOK
  <1>12. TypesOK'
    <2>1. ASSUME NEW j \in DOMAIN Units, NEW m \in Names, Home(m) = Units[j], Decl(m).kind = "global",
                 TypeTaken(j, m)'
          PROVE  TypeTaken(j, m) \/ m = n
      <3>1. j = unit /\ loop = "global" /\ Passed(m)' => Passed(m) \/ m = n
        BY <1>1, <1>2, <1>3, <1>n, <2>1, PassedNext DEF LoopOver
      <3> QED
        BY <1>2, <2>1, <3>1 DEF TypeTaken
    <2>2. Resolving(n)' /\ \A m : ~Resolving(m)
      BY <1>2, <1>6, <1>7 DEF Resolving
    <2> QED
      BY <1>2, <1>3, <2>1, <2>2, SameProgram, SameSymbols DEF TypesOK
  <1>13. StackOK'
    BY <1>2, <1>4, <1>5, <1>6, <1>7, <1>8, <1>uses, SameProgram DEF StackOK, FrameOK
  <1>14. AnswerOK' /\ ReadsOK'
    <2>1. Top' = f
      BY <1>7 DEF Top
    <2> QED
      BY <1>6, <1>7, <2>1 DEF AnswerOK, ReadsOK, Frames
  <1>15. ValuesOK' /\ CyclesOK'
    BY <1>2, <1>3, SameProgram, SameSymbols DEF ValuesOK, CyclesOK, RecursionReported
  <1>16. CheckedOK'
    BY <1>2, <1>3, <1>8 DEF CheckedOK, CheckTaken, StateTyped, Kinds
  <1> QED
    BY <1>9, <1>10, <1>11, <1>12, <1>13, <1>14, <1>15, <1>16 DEF IInv

\* A body's local sizes are begun.
LEMMA CheckFunctionStep ==
  ASSUME IInv, CheckFunction
  PROVE  IInv'
  <1>1. PICK i \in Positions : Reaches(i) /\ at' = i /\
          LET n == program.order[i]
          IN  /\ Decl(n).kind = "function"
              /\ stack' = [k \in DOMAIN Decl(n).uses |-> Frame("local_size", n, <<Decl(n).uses[k]>>)]
    BY DEF CheckFunction, Positions
  <1>n. PICK n : n = program.order[i]
    OBVIOUS
  <1>2. /\ program' = program /\ unit' = unit /\ loop' = loop /\ pass' = pass
        /\ symbols' = symbols /\ last_checked_pass' = last_checked_pass /\ errors' = errors
        /\ stack = <<>> /\ loop = "check" /\ at' = i /\ Decl(n).kind = "function"
        /\ stack' = [k \in DOMAIN Decl(n).uses |-> Frame("local_size", n, <<Decl(n).uses[k]>>)]
    BY <1>1, <1>n DEF CheckFunction, Idle
  <1>3. StateTyped /\ ScopesOK /\ FlagsOK /\ TypesOK /\ ValuesOK /\ CheckedOK /\ CyclesOK
    BY DEF IInv
  <1>4. /\ n \in Names /\ Home(n) = Units[unit] /\ Home(n) \in UnitSet
        /\ n \in DOMAIN symbols[Home(n)] /\ unit \in DOMAIN Units /\ i \in 0..Len(program.order)
    BY <1>1, <1>2, <1>3, <1>n, ReachedDeclaration
  <1>5. Decl(n).uses \in Seq(Names)
    BY <1>3, <1>4, ProgramTyped DEF StateTyped, Declaration
  <1>6. ASSUME NEW k \in DOMAIN Decl(n).uses
        PROVE  /\ stack'[k] \in FrameSet /\ stack'[k].job = "local_size" /\ stack'[k].decl = n
               /\ stack'[k].scope = Home(n) /\ stack'[k].uses = <<Decl(n).uses[k]>>
               /\ stack'[k].next = 1 /\ ~stack'[k].asked
    <2>1. "local_size" \in Jobs /\ program \in Programs /\ <<Decl(n).uses[k]>> \in Seq(Names)
      BY <1>3, <1>5 DEF StateTyped, Jobs
    <2> QED
      <3>1. PICK uses \in Seq(Names) : uses = <<Decl(n).uses[k]>>
        BY <2>1
      <3>2. stack'[k] = Frame("local_size", n, uses)
        BY <1>2, <3>1
      <3>3. "local_size" \in Jobs /\ program \in Programs
        BY <2>1
      <3>4. PICK f : f = Frame("local_size", n, uses)
        OBVIOUS
      <3>5. /\ f \in FrameSet /\ f.job = "local_size" /\ f.decl = n /\ f.scope = Home(n) /\ f.uses = uses
            /\ f.next = 1 /\ ~f.asked
        BY <1>4, <3>3, <3>4, NewFrame
      <3>6. stack'[k] = f
        BY <3>2, <3>4
      <3> QED
        BY <3>1, <3>5, <3>6
  <1>7. stack' \in Seq(FrameSet) /\ DOMAIN stack' = DOMAIN Decl(n).uses
    <2>1. DOMAIN stack' = DOMAIN Decl(n).uses
      BY <1>2
    <2>2. stack' = [k \in 1..Len(Decl(n).uses) |-> stack'[k]]
      BY <1>2, <1>5
    <2>3. stack' \in [1..Len(Decl(n).uses) -> FrameSet]
      BY <1>5, <1>6, <2>2
    <2> QED
      BY <1>5, <2>1, <2>3
  <1>8. pass = 1 /\ pass' = 1 /\ symbols' = symbols /\ program' = program
    BY <1>2, <1>3 DEF StateTyped
  <1>a. \A k \in DOMAIN stack' : stack'[k].job = "local_size" /\ ~stack'[k].asked
    BY <1>6, <1>7
  <1>9. StateTyped'
    BY <1>2, <1>3, <1>4, <1>7 DEF StateTyped
  <1>10. ScopesOK'
    BY <1>2, <1>3, SameProgram DEF ScopesOK, NamesDone
  <1>11. FlagsOK'
    <2>0. stack = <<>>
      BY <1>2
    <2>1. \A m : Computing(m)' <=> Computing(m)
      BY <1>a, <2>0 DEF Computing
    <2> QED
      BY <1>2, <1>3, <2>1, SameProgram, SameSymbols DEF FlagsOK
  <1>12. TypesOK'
    <2>1. \A j, m : TypeTaken(j, m)' <=> TypeTaken(j, m)
      BY <1>2, <1>8 DEF TypeTaken
    <2>2. \A m : ~Resolving(m)
      BY <1>2 DEF Resolving
    <2> QED
      BY <1>2, <1>3, <2>1, <2>2, SameProgram, SameSymbols DEF TypesOK
  <1>13. StackOK'
    <2>1. \A k \in DOMAIN stack' : FrameOK(k)'
      <3> SUFFICES ASSUME NEW k \in DOMAIN stack' PROVE FrameOK(k)'
        OBVIOUS
      <3>1. stack'[k].uses = <<Decl(n).uses[k]>> /\ stack'[k].next = 1 /\ stack'[k].decl = n /\ stack'[k].scope = Home(n)
        BY <1>6, <1>7
      <3>2. Len(stack'[k].uses) = 1
        BY <3>1
      <3> QED
        BY <1>4, <1>8, <1>a, <3>1, <3>2, SameProgram DEF FrameOK
    <2>2. \A k \in DOMAIN stack' : stack'[k].job = "local_size" /\ ~stack'[k].asked
      BY <1>a
    <2>3. \A k \in DOMAIN stack' : k > 1 => k - 1 \in DOMAIN stack'
      BY <1>5, <1>7
    <2> QED
      BY <2>1, <2>2, <2>3 DEF StackOK
  <1>14. AnswerOK' /\ ReadsOK'
    <2>1. stack' # <<>> => 1 \in DOMAIN stack' /\ Top' = stack'[1]
      BY <1>7 DEF Top
    <2> QED
      BY <1>6, <1>7, <2>1 DEF AnswerOK, ReadsOK, Frames
  <1>15. ValuesOK' /\ CyclesOK'
    BY <1>2, <1>3, SameProgram, SameSymbols DEF ValuesOK, CyclesOK, RecursionReported
  <1>16. CheckedOK'
    <2>1. ASSUME NEW j \in DOMAIN Units, NEW m \in Globals, Home(m) = Units[j], CheckTaken(j, m)'
          PROVE  CheckTaken(j, m)
      <3>1. m \in Names /\ Decl(m).kind = "global" /\ m # n
        BY <1>2, <2>1 DEF Globals
      <3>2. j = unit /\ Passed(m)' => Passed(m)
        BY <1>1, <1>2, <1>3, <1>n, <2>1, <3>1, PassedNext DEF LoopOver
      <3> QED
        BY <1>2, <2>1, <3>2 DEF CheckTaken
    <2> QED
      BY <1>2, <1>3, <2>1, SameProgram, SameSymbols DEF CheckedOK
  <1> QED
    BY <1>9, <1>10, <1>11, <1>12, <1>13, <1>14, <1>15, <1>16 DEF IInv

-----------------------------------------------------------------------------
(* check_variable_declaration.                                             *)

\* No declaration was checked before the second pass.
LEMMA UncheckedAtFirst ==
  ASSUME StateTyped, FlagsOK, NEW n \in Names, pass = 0
  PROVE  last_checked_pass[n] = 0 /\ ~HasFlag(n, "INITIALIZED")
  BY DEF StateTyped, FlagsOK

\* A call that returns early at most reports a recursion.
LEMMA EarlyReturn ==
  ASSUME StateTyped, FlagsOK, NEW n \in Names, n \in DOMAIN symbols[Home(n)], ReturnEarly(Home(n), n)
  PROVE  /\ last_checked_pass' = last_checked_pass
         /\ errors' = IF pass = 1 /\ ~HasFlag(n, "INITIALIZED") /\ Computing(n)
                      THEN errors \cup {[kind |-> "recursive", decl |-> n]} ELSE errors
  <1>1. \A flag : HasFlag(n, flag) <=> flag \in symbols[Home(n)][n].flags
    BY DEF HasFlag
  <1>2. /\ HasFlag(n, "INITIALIZED") <=> last_checked_pass[n] = 1
        /\ HasFlag(n, "COMPUTING") <=> Computing(n)
        /\ HasFlag(n, "INITIALIZED") => pass = 1
    BY DEF FlagsOK
  <1>3. pass \in {0, 1} /\ last_checked_pass \in [Names -> {0, 1}]
    BY DEF StateTyped
  <1>4. last_checked_pass[n] # pass <=> pass = 1 /\ ~HasFlag(n, "INITIALIZED")
    BY <1>2, <1>3
  <1>5. last_checked_pass' = last_checked_pass
    BY <1>1, <1>2, <1>3 DEF ReturnEarly
  <1> QED
    BY <1>1, <1>2, <1>4, <1>5 DEF ReturnEarly

\* In the second pass a declaration that has a type is skipped only if it is
\* evaluated or being evaluated.
LEMMA WhySkipped ==
  ASSUME StateTyped, ScopesOK, FlagsOK, TypesOK, NEW n \in Names, n \in DOMAIN symbols[Home(n)],
         pass = 1, Decl(n).kind = "global", Decl(n).size = NONE, ~Resolving(n), Skipped(Home(n), n)
  PROVE  HasFlag(n, "INITIALIZED") \/ Computing(n)
  <1>1. PICK i \in DOMAIN Units : Home(n) = Units[i]
    BY ProgramTyped DEF StateTyped, UnitSet
  <1>2. symbols[Home(n)][n].typed
    BY <1>1 DEF TypesOK, TypeTaken
  <1>3. HasFlag(n, "INITIALIZED") \/ HasFlag(n, "COMPUTING")
    BY <1>2 DEF Skipped, HasFlag, FlagsOK
  <1> QED
    BY <1>3 DEF FlagsOK

\* What is not skipped is a global with a type, neither evaluated nor begun, and
\* the pass is the second.
LEMMA NotSkipped ==
  ASSUME StateTyped, ScopesOK, FlagsOK, TypesOK, NEW n \in Names, n \in DOMAIN symbols[Home(n)],
         Decl(n).kind = "global", ~Skipped(Home(n), n)
  PROVE  /\ pass = 1 /\ Decl(n).size = NONE
         /\ ~HasFlag(n, "INITIALIZED") /\ ~HasFlag(n, "COMPUTING") /\ ~Computing(n)
  <1>1. PICK i \in DOMAIN Units : Home(n) = Units[i]
    BY ProgramTyped DEF StateTyped, UnitSet
  <1>2. symbols[Home(n)][n].typed /\ symbols[Home(n)][n].decl = n
    BY ProgramTyped DEF Skipped, ScopesOK, StateTyped
  <1>3. Decl(n).size = NONE
    BY <1>1, <1>2 DEF TypesOK
  <1>4. ~HasFlag(n, "INITIALIZED") /\ ~HasFlag(n, "COMPUTING")
    BY <1>2 DEF Skipped, HasFlag
  <1>5. pass # 0
    BY UncheckedAtFirst DEF Skipped
  <1> QED
    BY <1>3, <1>4, <1>5 DEF FlagsOK, StateTyped

\* Values of mentioned names that stay the same.
LEMMA SameValues ==
  ASSUME program' = program, NEW n,
         \A i \in DOMAIN Decl(n).uses :
           symbols'[Home(n)][Decl(n).uses[i]].value = symbols[Home(n)][Decl(n).uses[i]].value
  PROVE  MentionedValues(n)' = MentionedValues(n)
  BY SameProgram DEF MentionedValues

\* What a symbol update does to flags and values.
LEMMA FlagUpdate ==
  ASSUME StateTyped, program' = program,
         NEW n \in Names, n \in DOMAIN symbols[Home(n)], NEW s \in SymbolSet,
         symbols' = [symbols EXCEPT ![Home(n)] = [symbols[Home(n)] EXCEPT ![n] = s]]
  PROVE  /\ symbols' \in [UnitSet -> Tables]
         /\ \A v \in UnitSet : DOMAIN symbols'[v] = DOMAIN symbols[v]
         /\ symbols'[Home(n)][n] = s
         /\ \A v \in UnitSet : \A m \in DOMAIN symbols[v] :
              v # Home(n) \/ m # n => symbols'[v][m] = symbols[v][m]
         /\ \A flag : HasFlag(n, flag)' <=> flag \in s.flags
         /\ \A m \in Names : \A flag : m # n => (HasFlag(m, flag)' <=> HasFlag(m, flag))
  <1>1. \A m \in Names : Home(m) \in UnitSet
    BY ProgramTyped DEF StateTyped
  <1>2. /\ symbols' \in [UnitSet -> Tables]
        /\ \A v \in UnitSet : DOMAIN symbols'[v] = DOMAIN symbols[v]
        /\ symbols'[Home(n)][n] = s
        /\ \A v \in UnitSet : \A m \in DOMAIN symbols[v] :
             v # Home(n) \/ m # n => symbols'[v][m] = symbols[v][m]
    BY <1>1, SymbolUpdate
  <1>3. \A flag : HasFlag(n, flag)' <=> flag \in s.flags
    BY <1>1, <1>2, SameProgram DEF HasFlag
  <1>4. \A m \in Names : \A flag : m # n => (HasFlag(m, flag)' <=> HasFlag(m, flag))
    BY <1>1, <1>2, SameProgram DEF HasFlag
  <1> QED
    BY <1>2, <1>3, <1>4

\* The frames of other are those of the stack, but that the top one has asked for
\* the constant n.
Asking(other, n) ==
  /\ other \in Seq(FrameSet) /\ Len(other) = Len(stack)
  /\ \A k \in DOMAIN stack : k > 1 => other[k] = stack[k]
  /\ stack # <<>> =>
       /\ other[1] = [stack[1] EXCEPT !.asked = TRUE]
       /\ stack[1].next <= Len(stack[1].uses) /\ stack[1].uses[stack[1].next] = n
       /\ Home(n) = stack[1].scope /\ Constant(n)

\* Such frames are the same in all other respects.
LEMMA AskingFrames ==
  ASSUME StateTyped, NEW n, NEW other, Asking(other, n)
  PROVE  /\ DOMAIN other = DOMAIN stack /\ DOMAIN stack = 1..Len(stack) /\ Len(stack) \in Nat
         /\ \A k \in DOMAIN stack :
              /\ other[k] \in FrameSet
              /\ other[k].job = stack[k].job /\ other[k].decl = stack[k].decl
              /\ other[k].scope = stack[k].scope /\ other[k].uses = stack[k].uses
              /\ other[k].next = stack[k].next /\ (other[k].foldable <=> stack[k].foldable)
              /\ other[k].value = stack[k].value
              /\ k > 1 => other[k] = stack[k]
              /\ k = 1 => other[k].asked /\ other[k].next <= Len(other[k].uses)
                            /\ other[k].uses[other[k].next] = n /\ Home(n) = other[k].scope /\ Constant(n)
  <1>1. DOMAIN other = DOMAIN stack /\ DOMAIN stack = 1..Len(stack) /\ Len(stack) \in Nat
    BY DEF StateTyped, Asking
  <1>2. ASSUME NEW k \in DOMAIN stack
        PROVE  /\ other[k] \in FrameSet
               /\ other[k].job = stack[k].job /\ other[k].decl = stack[k].decl
               /\ other[k].scope = stack[k].scope /\ other[k].uses = stack[k].uses
               /\ other[k].next = stack[k].next /\ (other[k].foldable <=> stack[k].foldable)
               /\ other[k].value = stack[k].value
               /\ k > 1 => other[k] = stack[k]
               /\ k = 1 => other[k].asked /\ other[k].next <= Len(other[k].uses)
                             /\ other[k].uses[other[k].next] = n /\ Home(n) = other[k].scope /\ Constant(n)
    <2>1. stack[k] \in FrameSet /\ other[k] \in FrameSet
      BY <1>1, FrameTyped DEF Asking
    <2>2. CASE k > 1
      BY <2>1, <2>2 DEF Asking
    <2>3. CASE k = 1
      <3>1. stack # <<>> /\ k = 1
        BY <1>1, <2>3
      <3>2. other[k] = [stack[k] EXCEPT !.asked = TRUE]
        BY <3>1 DEF Asking
      <3> QED
        BY <2>1, <3>1, <3>2 DEF Asking, FrameSet
    <2> QED
      BY <1>1, <2>2, <2>3
  <1> QED
    BY <1>1, <1>2

\* What a frame has read stays as it was.
LEMMA SameReads ==
  ASSUME program' = program, NEW g \in FrameSet, ReadOK(g),
         g.uses = Decl(g.decl).uses, g.next <= Len(g.uses) + 1,
         NEW h, h.decl = g.decl, h.uses = g.uses, h.next = g.next,
         h.foldable <=> g.foldable, h.value = g.value,
         Computed \subseteq Computed',
         \A m \in Computed : symbols'[Home(m)][m].value = symbols[Home(m)][m].value,
         \A m \in Names : HasFlag(m, "INITIALIZED") => HasFlag(m, "INITIALIZED")',
         RecursionReported => RecursionReported'
  PROVE  ReadOK(h)'
  <1>1. Foldable' = Foldable /\ \A m : Constants(m)' = Constants(m) /\ Home(m)' = Home(m) /\ Decl(m)' = Decl(m)
    BY SameProgram
  <1>2. \A i \in 1..(g.next - 1) : g.uses[i] \in Names
    BY DEF FrameSet
  <1>3. g.foldable =>
          /\ \A i \in 1..(g.next - 1) : g.uses[i] \in Computed /\ Home(g.uses[i]) = Home(g.decl)
          /\ g.value = SumOf(Decl(g.decl).literal,
                             [i \in 1..(g.next - 1) |-> symbols[Home(g.decl)][g.uses[i]].value])
    BY DEF ReadOK
  <1>4. g.foldable => [i \in 1..(g.next - 1) |-> symbols'[Home(g.decl)][g.uses[i]].value]
                        = [i \in 1..(g.next - 1) |-> symbols[Home(g.decl)][g.uses[i]].value]
    BY <1>3
  <1>5. h.foldable =>
          /\ \A i \in 1..(h.next - 1) : h.uses[i] \in Computed' /\ Home(h.uses[i])' = Home(h.decl)'
          /\ h.value = SumOf(Decl(h.decl)'.literal,
                             [i \in 1..(h.next - 1) |-> symbols'[Home(h.decl)'][h.uses[i]].value])
    BY <1>1, <1>3, <1>4
  <1>6. ~h.foldable =>
          \E i \in 1..(h.next - 1) : ~(h.uses[i] \in Foldable' /\ Home(h.uses[i])' = Home(h.decl)')
    BY <1>1 DEF ReadOK
  <1>7. ~RecursionReported' =>
          \A i \in 1..(h.next - 1) : h.uses[i] \in Constants(h.decl)' => HasFlag(h.uses[i], "INITIALIZED")'
    BY <1>1, <1>2 DEF ReadOK
  <1> QED
    BY <1>5, <1>6, <1>7 DEF ReadOK

\* The evaluation of a constant begins.
LEMMA EnterStep ==
  ASSUME IInv, NEW n \in Names, Decl(n).kind = "global", n \in DOMAIN symbols[Home(n)],
         ~Skipped(Home(n), n),
         NEW caller, Asking(caller, n), Enter(Home(n), n, caller),
         program' = program, unit' = unit, loop' = loop, pass' = pass,
         last_checked_pass' = last_checked_pass, errors' = errors, at' \in 0..Len(program.order),
         \A i \in DOMAIN Units, m \in Globals :
           Home(m) = Units[i] /\ CheckTaken(i, m)' => CheckTaken(i, m) \/ m = n
  PROVE  IInv'
  <1>1. /\ StateTyped /\ ScopesOK /\ FlagsOK /\ TypesOK /\ StackOK /\ AnswerOK /\ ReadsOK
        /\ ValuesOK /\ CheckedOK /\ CyclesOK
    BY DEF IInv
  <1>2. /\ pass = 1 /\ Decl(n).size = NONE
        /\ ~HasFlag(n, "INITIALIZED") /\ ~HasFlag(n, "COMPUTING") /\ ~Computing(n)
    BY <1>1, NotSkipped
  <1>3. Home(n) \in UnitSet /\ symbols[Home(n)][n] \in SymbolSet /\ Decl(n) \in Declaration
    BY <1>1, ProgramTyped, SymbolTyped DEF StateTyped
  <1>f. PICK f : f = Frame("initializer", n, Decl(n).uses)
    OBVIOUS
  <1>s. PICK s : s = [symbols[Home(n)][n] EXCEPT !.flags = @ \cup {"COMPUTING"}]
    OBVIOUS
  <1>4. /\ f \in FrameSet /\ f.job = "initializer" /\ f.decl = n /\ f.scope = Home(n)
        /\ f.uses = Decl(n).uses /\ f.next = 1 /\ ~f.asked /\ f.foldable /\ f.value = Decl(n).literal
    <2>1. "initializer" \in Jobs /\ program \in Programs /\ Decl(n).uses \in Seq(Names)
      BY <1>1, <1>3 DEF StateTyped, Jobs, Declaration
    <2> QED
      BY <1>f, <2>1, NewFrame
  <1>5. stack' = <<f>> \o caller
    BY <1>f DEF Enter
  <1>6. /\ s \in SymbolSet /\ s.flags = symbols[Home(n)][n].flags \cup {"COMPUTING"}
        /\ s.decl = symbols[Home(n)][n].decl /\ (s.typed <=> symbols[Home(n)][n].typed)
        /\ s.value = symbols[Home(n)][n].value
    BY <1>3, <1>s DEF SymbolSet, Flags
  <1>7. symbols' = [symbols EXCEPT ![Home(n)] = [symbols[Home(n)] EXCEPT ![n] = s]]
    BY <1>s DEF Enter
  <1>8. /\ symbols' \in [UnitSet -> Tables]
        /\ \A v \in UnitSet : DOMAIN symbols'[v] = DOMAIN symbols[v]
        /\ symbols'[Home(n)][n] = s
        /\ \A v \in UnitSet : \A m \in DOMAIN symbols[v] :
             v # Home(n) \/ m # n => symbols'[v][m] = symbols[v][m]
        /\ \A flag : HasFlag(n, flag)' <=> flag \in s.flags
        /\ \A m \in Names : \A flag : m # n => (HasFlag(m, flag)' <=> HasFlag(m, flag))
    BY <1>1, <1>6, <1>7, FlagUpdate
  <1>9. \A m \in Names : \A flag :
          HasFlag(m, flag)' <=> HasFlag(m, flag) \/ (m = n /\ flag = "COMPUTING")
    <2>1. \A flag : HasFlag(n, flag) <=> flag \in symbols[Home(n)][n].flags
      BY DEF HasFlag
    <2> QED
      BY <1>6, <1>8, <2>1
  <1>10. \A v \in UnitSet : \A m \in DOMAIN symbols[v] :
           /\ symbols'[v][m].decl = symbols[v][m].decl
           /\ symbols'[v][m].typed <=> symbols[v][m].typed
           /\ symbols'[v][m].value = symbols[v][m].value
    BY <1>6, <1>8
  <1>11. Computed' = Computed
    BY <1>9, SameProgram DEF Computed, Globals
  <1>a. \A m \in Computed : symbols'[Home(m)][m].value = symbols[Home(m)][m].value
    BY <1>1, <1>10, ProgramTyped DEF Computed, HasFlag, Globals, StateTyped
  <1>12. /\ DOMAIN caller = DOMAIN stack /\ DOMAIN stack = 1..Len(stack) /\ Len(stack) \in Nat
         /\ \A k \in DOMAIN stack :
              /\ caller[k] \in FrameSet
              /\ caller[k].job = stack[k].job /\ caller[k].decl = stack[k].decl
              /\ caller[k].scope = stack[k].scope /\ caller[k].uses = stack[k].uses
              /\ caller[k].next = stack[k].next /\ (caller[k].foldable <=> stack[k].foldable)
              /\ caller[k].value = stack[k].value
              /\ k > 1 => caller[k] = stack[k]
              /\ k = 1 => caller[k].asked /\ caller[k].next <= Len(caller[k].uses)
                            /\ caller[k].uses[caller[k].next] = n /\ Home(n) = caller[k].scope /\ Constant(n)
    BY <1>1, AskingFrames
  <1>13. /\ stack' \in Seq(FrameSet) /\ Len(stack') = Len(stack) + 1 /\ DOMAIN stack' = 1..(Len(stack) + 1)
         /\ stack' # <<>> /\ stack'[1] = f
         /\ \A k \in DOMAIN stack' : k > 1 => k - 1 \in DOMAIN stack /\ stack'[k] = caller[k - 1]
         /\ \A k \in DOMAIN stack : k + 1 \in DOMAIN stack' /\ stack'[k + 1] = caller[k]
    <2>1. caller \in Seq(FrameSet) /\ Len(caller) = Len(stack)
      BY DEF Asking
    <2> QED
      BY <1>4, <1>5, <1>12, <2>1, FramePushed
  <1>14. ASSUME NEW m PROVE Computing(m)' <=> Computing(m) \/ m = n
    <2>1. ASSUME Computing(m) PROVE Computing(m)'
      <3>1. PICK k \in DOMAIN stack : stack[k].job = "initializer" /\ stack[k].decl = m
        BY <2>1 DEF Computing
      <3>2. k + 1 \in DOMAIN stack' /\ stack'[k + 1].job = "initializer" /\ stack'[k + 1].decl = m
        BY <1>12, <1>13, <3>1
      <3> QED
        BY <3>2 DEF Computing
    <2>2. ASSUME m = n PROVE Computing(m)'
      <3>1. 1 \in DOMAIN stack' /\ stack'[1].job = "initializer" /\ stack'[1].decl = m
        BY <1>4, <1>12, <1>13, <2>2
      <3> QED
        BY <3>1 DEF Computing
    <2>3. ASSUME Computing(m)' PROVE Computing(m) \/ m = n
      <3>1. PICK k \in DOMAIN stack' : stack'[k].job = "initializer" /\ stack'[k].decl = m
        BY <2>3 DEF Computing
      <3>2. CASE k = 1
        BY <1>4, <1>13, <3>1, <3>2
      <3>3. CASE k # 1
        <4>1. k - 1 \in DOMAIN stack /\ stack'[k] = caller[k - 1]
          BY <1>13, <3>3
        <4>2. stack[k - 1].job = "initializer" /\ stack[k - 1].decl = m
          BY <1>12, <3>1, <4>1
        <4> QED
          BY <4>1, <4>2 DEF Computing
      <3> QED
        BY <3>2, <3>3
    <2> QED
      BY <2>1, <2>2, <2>3
  <1>15. \A m : ~Resolving(m) /\ ~Resolving(m)'
    <2>1. ASSUME NEW k \in DOMAIN stack PROVE stack[k].job # "size"
      <3>1. FrameOK(k)
        BY <1>1 DEF StackOK
      <3> QED
        BY <1>2, <3>1 DEF FrameOK
    <2>2. ASSUME NEW k \in DOMAIN stack' PROVE stack'[k].job # "size"
      <3>1. CASE k = 1
        BY <1>4, <1>13, <3>1
      <3>2. CASE k # 1
        <4>1. k - 1 \in DOMAIN stack /\ stack'[k] = caller[k - 1]
          BY <1>13, <3>2
        <4> QED
          BY <1>12, <2>1, <4>1
      <3> QED
        BY <3>1, <3>2
    <2> QED
      BY <2>1, <2>2 DEF Resolving
  <1>16. StateTyped'
    BY <1>1, <1>8, <1>13 DEF StateTyped
  <1>17. ScopesOK'
    <2>1. \A i : NamesDone(i)' <=> NamesDone(i)
      BY DEF NamesDone
    <2>2. \A i \in DOMAIN Units : DOMAIN symbols'[Units[i]] = DOMAIN symbols[Units[i]]
      BY <1>8 DEF UnitSet
    <2>3. \A v \in UnitSet : \A m \in DOMAIN symbols'[v] :
            symbols'[v][m].decl = m /\ (Home(m) # v => symbols'[v][m].flags = {})
      <3> SUFFICES ASSUME NEW v \in UnitSet, NEW m \in DOMAIN symbols[v]
                   PROVE  symbols'[v][m].decl = m /\ (Home(m) # v => symbols'[v][m].flags = {})
        BY <1>8
      <3> QED
        BY <1>1, <1>8, <1>10 DEF ScopesOK
    <2> QED
      BY <1>1, <2>1, <2>2, <2>3, SameProgram DEF ScopesOK
  <1>18. FlagsOK'
    BY <1>1, <1>2, <1>9, <1>14, SameProgram DEF FlagsOK
  <1>19. TypesOK'
    <2>1. \A i, m : TypeTaken(i, m)
      BY <1>2 DEF TypeTaken
    <2>2. \A i \in DOMAIN Units : Units[i] \in UnitSet
      BY DEF UnitSet
    <2> QED
      BY <1>1, <1>8, <1>9, <1>10, <1>15, <2>1, <2>2, SameProgram DEF TypesOK
  <1>20. StackOK'
    <2>1. ASSUME NEW k \in DOMAIN stack' PROVE FrameOK(k)'
      <3>1. CASE k = 1
        BY <1>2, <1>3, <1>4, <1>8, <1>13, <3>1, SameProgram DEF FrameOK
      <3>2. CASE k # 1
        <4>1. k - 1 \in DOMAIN stack /\ stack'[k] = caller[k - 1]
          BY <1>13, <3>2
        <4>2. FrameOK(k - 1) /\ stack[k - 1].job # "size"
          BY <1>1, <1>2, <4>1 DEF StackOK, FrameOK
        <4>3. stack[k - 1].scope \in UnitSet
          BY <1>1, <4>1, FrameTyped DEF FrameSet
        <4>4. stack'[k].asked => stack'[k].next <= Len(stack'[k].uses)
          BY <1>12, <4>1, <4>2 DEF FrameOK
        <4> QED
          BY <1>2, <1>8, <1>12, <4>1, <4>2, <4>3, <4>4, SameProgram DEF FrameOK
      <3> QED
        BY <3>1, <3>2
    <2>2. ASSUME NEW k \in DOMAIN stack', stack'[k].job = "initializer", NEW j \in DOMAIN stack', j < k
          PROVE  stack'[j].job = "initializer" /\ stack'[j].decl # stack'[k].decl
      <3>1. k - 1 \in DOMAIN stack /\ stack'[k] = caller[k - 1]
        BY <1>13, <2>2
      <3>2. stack[k - 1].job = "initializer"
        BY <1>12, <2>2, <3>1
      <3>3. CASE j = 1
        BY <1>2, <1>4, <1>12, <1>13, <3>1, <3>2, <3>3 DEF Computing
      <3>4. CASE j # 1
        <4>1. j - 1 \in DOMAIN stack /\ stack'[j] = caller[j - 1] /\ j - 1 < k - 1
          BY <1>13, <2>2, <3>4
        <4> QED
          BY <1>1, <1>12, <3>1, <3>2, <4>1 DEF StackOK
      <3> QED
        BY <3>3, <3>4
    <2>3. ASSUME NEW k \in DOMAIN stack', k > 1
          PROVE  /\ stack'[k - 1].job = "initializer" =>
                      /\ stack'[k].asked /\ stack'[k].uses[stack'[k].next] = stack'[k - 1].decl
                      /\ Home(stack'[k - 1].decl) = stack'[k].scope /\ Constant(stack'[k - 1].decl)
                 /\ stack'[k].asked => stack'[k - 1].job = "initializer"
      <3>1. k - 1 \in DOMAIN stack /\ stack'[k] = caller[k - 1]
        BY <1>13, <2>3
      <3>2. CASE k = 2
        BY <1>4, <1>12, <1>13, <3>1, <3>2
      <3>3. CASE k # 2
        <4>1. k - 2 \in DOMAIN stack /\ stack'[k - 1] = caller[k - 2] /\ k - 1 > 1
          BY <1>13, <2>3, <3>3
        <4>2. /\ stack'[k] = stack[k - 1] /\ stack'[k - 1].job = stack[(k - 1) - 1].job
              /\ stack'[k - 1].decl = stack[(k - 1) - 1].decl
          <5>1. (k - 1) - 1 = k - 2
            BY <1>12, <1>13
          <5> QED
            BY <1>12, <3>1, <4>1, <5>1
        <4> QED
          BY <1>1, <3>1, <4>1, <4>2 DEF StackOK
      <3> QED
        BY <3>2, <3>3
    <2> QED
      BY <2>1, <2>2, <2>3, SameProgram DEF StackOK
  <1>21. AnswerOK'
    <2>1. Top' = f
      BY <1>13 DEF Top
    <2> QED
      BY <1>4, <2>1 DEF AnswerOK
  <1>22. ReadsOK'
    <2>1. RecursionReported' <=> RecursionReported
      BY DEF RecursionReported
    <2>2. Foldable' = Foldable /\ \A m : Constants(m)' = Constants(m)
      BY SameProgram
    <2> SUFFICES ASSUME NEW h \in Frames', h.job = "initializer"
                 PROVE  ReadOK(h)'
      BY DEF ReadsOK
    <2>k. PICK k \in DOMAIN stack' : h = stack'[k]
      BY DEF Frames
    <2>3. CASE k = 1
      <3>1. h = f /\ 1..(f.next - 1) = {}
        BY <1>4, <1>13, <2>3, <2>k
      <3>2. [i \in 1..(f.next - 1) |-> symbols'[Home(n)][f.uses[i]].value] = <<>>
        BY <3>1
      <3>3. f.value = SumOf(Decl(n).literal, <<>>)
        BY <1>3, <1>4, SumOfNone DEF Declaration
      <3> QED
        BY <1>4, <3>1, <3>2, <3>3, SameProgram DEF ReadOK
    <2>4. CASE k # 1
      <3>1. k - 1 \in DOMAIN stack /\ stack'[k] = caller[k - 1]
        BY <1>13, <2>4
      <3>g. PICK g : g = stack[k - 1]
        OBVIOUS
      <3>2. /\ h.job = g.job /\ h.decl = g.decl /\ h.uses = g.uses
            /\ h.next = g.next /\ (h.foldable <=> g.foldable) /\ h.value = g.value
        BY <1>12, <2>k, <3>1, <3>g
      <3>3. g \in Frames /\ g.job = "initializer" /\ FrameOK(k - 1) /\ g \in FrameSet
        BY <1>1, <3>1, <3>2, <3>g, FrameTyped DEF Frames, StackOK
      <3>4. ReadOK(g) /\ g.uses = Decl(g.decl).uses /\ g.next <= Len(g.uses) + 1
        BY <1>1, <3>g, <3>3 DEF ReadsOK, FrameOK
      <3>5. \A m \in Names : HasFlag(m, "INITIALIZED") => HasFlag(m, "INITIALIZED")'
        BY <1>9
      <3> QED
        BY <1>1, <1>a, <1>11, <2>1, <3>2, <3>3, <3>4, <3>5, SameReads
    <2> QED
      BY <2>3, <2>4
  <1>23. ValuesOK'
    <2>2. ASSUME NEW m \in Computed
          PROVE  MentionedValues(m)' = MentionedValues(m)
      <3>1. \A i \in DOMAIN Decl(m).uses : Decl(m).uses[i] \in Computed /\ Home(Decl(m).uses[i]) = Home(m)
        BY <1>1, <2>2 DEF ValuesOK, Uses
      <3> QED
        BY <1>a, <3>1, SameValues
    <2>3. \A m \in Names : HasFlag(m, "INITIALIZED")' <=> HasFlag(m, "INITIALIZED")
      BY <1>9
    <2> QED
      BY <1>1, <1>a, <1>11, <2>2, <2>3, SameProgram DEF ValuesOK
  <1>24. CheckedOK'
    BY <1>1, <1>2, <1>9, SameProgram DEF CheckedOK, Globals
  <1>25. CyclesOK'
    <2>1. \A m \in Names : HasFlag(m, "INITIALIZED")' <=> HasFlag(m, "INITIALIZED")
      BY <1>9
    <2>2. \A m \in Names : Constants(m) \subseteq Names
      BY <1>1, ProgramTyped DEF Constants, Uses, Declaration, StateTyped
    <2> QED
      BY <1>1, <2>1, <2>2, SameProgram DEF CyclesOK, RecursionReported
  <1> QED
    BY <1>16, <1>17, <1>18, <1>19, <1>20, <1>21, <1>22, <1>23, <1>24, <1>25 DEF IInv

\* The second pass comes to a variable.
LEMMA CheckDeclarationStep ==
  ASSUME IInv, CheckDeclaration
  PROVE  IInv'
  <1>1. PICK i \in Positions : Reaches(i) /\ at' = i /\
          LET n == program.order[i]
          IN  /\ Decl(n).kind = "global"
              /\ IF Skipped(Home(n), n)
                 THEN ReturnEarly(Home(n), n) /\ UNCHANGED <<symbols, stack>>
                 ELSE Enter(Home(n), n, <<>>) /\ UNCHANGED <<last_checked_pass, errors>>
    BY DEF CheckDeclaration, Positions
  <1>n. PICK n : n = program.order[i]
    OBVIOUS
  <1>2. /\ program' = program /\ unit' = unit /\ loop' = loop /\ pass' = pass
        /\ stack = <<>> /\ loop = "check" /\ Decl(n).kind = "global"
    BY <1>1, <1>n DEF CheckDeclaration, Idle
  <1>3. /\ StateTyped /\ ScopesOK /\ FlagsOK /\ TypesOK /\ ValuesOK /\ CheckedOK /\ CyclesOK
    BY DEF IInv
  <1>4. /\ n \in Names /\ Home(n) = Units[unit] /\ Home(n) \in UnitSet
        /\ n \in DOMAIN symbols[Home(n)] /\ unit \in DOMAIN Units /\ i \in 0..Len(program.order)
    BY <1>1, <1>2, <1>3, <1>n, ReachedDeclaration
  <1>5. pass = 1
    BY <1>2, <1>3 DEF StateTyped
  <1>6. ASSUME NEW j \in DOMAIN Units, NEW m \in Globals, Home(m) = Units[j], CheckTaken(j, m)'
        PROVE  CheckTaken(j, m) \/ m = n
    <2>1. m \in Names /\ Decl(m).kind \in LoopOver
      BY <1>2, <1>6 DEF Globals, LoopOver
    <2>2. j = unit /\ Passed(m)' => Passed(m) \/ m = n
      BY <1>1, <1>2, <1>3, <1>n, <1>6, <2>1, PassedNext
    <2> QED
      BY <1>2, <1>6, <2>2 DEF CheckTaken
  <1>7. CASE ~Skipped(Home(n), n)
    <2>1. Enter(Home(n), n, <<>>) /\ last_checked_pass' = last_checked_pass /\ errors' = errors
      BY <1>1, <1>7, <1>n
    <2>2. Asking(<<>>, n)
      BY <1>2 DEF Asking
    <2>3. PICK caller : caller = <<>>
      OBVIOUS
    <2>4. Enter(Home(n), n, caller) /\ Asking(caller, n) /\ at' \in 0..Len(program.order)
      BY <1>1, <1>4, <2>1, <2>2, <2>3
    <2> QED
      BY <1>2, <1>4, <1>6, <1>7, <2>1, <2>4, EnterStep
  <1>8. CASE Skipped(Home(n), n)
    <2>1. ReturnEarly(Home(n), n) /\ symbols' = symbols /\ stack' = stack /\ at' = i
      BY <1>1, <1>8, <1>n
    <2>2. \A m : ~Computing(m) /\ ~Resolving(m) /\ ~Computing(m)' /\ ~Resolving(m)'
      BY <1>2, <2>1 DEF Computing, Resolving
    <2>3. last_checked_pass' = last_checked_pass /\ errors' = errors
      BY <1>3, <1>4, <2>1, <2>2, EarlyReturn
    <2>4. StateTyped'
      BY <1>2, <1>3, <1>4, <2>1, <2>3 DEF StateTyped
    <2>5. ScopesOK'
      BY <1>2, <1>3, <2>1, SameProgram DEF ScopesOK, NamesDone
    <2>6. FlagsOK'
      BY <1>2, <1>3, <2>1, <2>2, <2>3, SameProgram, SameSymbols DEF FlagsOK
    <2>7. TypesOK'
      <3>1. \A j, m : TypeTaken(j, m)
        BY <1>5 DEF TypeTaken
      <3> QED
        BY <1>2, <1>3, <2>1, <2>2, <3>1, SameProgram, SameSymbols DEF TypesOK
    <2>8. StackOK' /\ AnswerOK' /\ ReadsOK'
      BY <1>2, <2>1 DEF StackOK, AnswerOK, ReadsOK, Frames
    <2>9. ValuesOK' /\ CyclesOK'
      BY <1>2, <1>3, <2>1, <2>3, SameProgram, SameSymbols DEF ValuesOK, CyclesOK, RecursionReported
    <2>10. CheckedOK'
      <3>1. Decl(n).size = NONE => HasFlag(n, "INITIALIZED")
        BY <1>2, <1>3, <1>4, <1>5, <1>8, <2>2, WhySkipped
      <3> QED
        BY <1>2, <1>3, <1>6, <2>1, <3>1, SameProgram, SameSymbols DEF CheckedOK
    <2> QED
      BY <2>4, <2>5, <2>6, <2>7, <2>8, <2>9, <2>10 DEF IInv
  <1> QED
    BY <1>7, <1>8


-----------------------------------------------------------------------------
(* check_identifier.                                                       *)

\* A constant that is mentioned while it is being evaluated is recursive, and so
\* not foldable: each frame down to its own mentions the constant above.
LEMMA MentionedOnStack ==
  ASSUME StateTyped, StackOK, stack # <<>>, Top.job = "initializer", Top.next <= Len(Top.uses),
         NEW m, m = Name, Computing(m), Constant(m), Home(m) = Top.scope
  PROVE  m \notin Foldable /\ Recursive(m)
  <1>j. PICK j \in DOMAIN stack : stack[j].job = "initializer" /\ stack[j].decl = m
    BY DEF Computing
  <1>1. Top = stack[1] /\ 1 \in DOMAIN stack /\ DOMAIN stack = 1..Len(stack) /\ Len(stack) \in Nat
    BY TopFrame
  <1>2. j \in Nat /\ j >= 1 /\ 1..j \subseteq DOMAIN stack
    BY <1>1, <1>j
  <1>3. ASSUME NEW k \in 1..j PROVE stack[k].job = "initializer"
    BY <1>2, <1>3, <1>j DEF StackOK
  <1>4. ASSUME NEW k \in 1..j
        PROVE  /\ stack[k].uses = Decl(stack[k].decl).uses /\ stack[k].scope = Home(stack[k].decl)
               /\ stack[k].asked => stack[k].next <= Len(stack[k].uses)
               /\ stack[k] \in FrameSet
    <2>1. FrameOK(k) /\ k \in DOMAIN stack
      BY <1>2, <1>4 DEF StackOK
    <2> QED
      BY <1>3, <1>4, <2>1, FrameTyped DEF FrameOK
  <1>5. m \in Constants(stack[1].decl)
    <2>1. 1 \in 1..j
      BY <1>2
    <2>2. Top.next \in DOMAIN Top.uses
      BY <1>1, <1>4, <2>1 DEF FrameSet
    <2> QED
      BY <1>1, <1>4, <2>1, <2>2 DEF Constants, Uses, Name
  <1>6. ASSUME NEW k \in 2..j PROVE stack[k - 1].decl \in Constants(stack[k].decl)
    <2>1. k \in 1..j /\ k - 1 \in 1..j /\ k > 1 /\ k \in DOMAIN stack
      BY <1>2, <1>6
    <2>2. /\ stack[k].asked /\ stack[k].uses[stack[k].next] = stack[k - 1].decl
          /\ Home(stack[k - 1].decl) = stack[k].scope /\ Constant(stack[k - 1].decl)
      BY <1>3, <2>1 DEF StackOK
    <2>3. stack[k].next \in DOMAIN stack[k].uses
      BY <1>4, <2>1, <2>2 DEF FrameSet
    <2> QED
      BY <1>4, <2>1, <2>2, <2>3 DEF Constants, Uses
  <1>7. m \notin Foldable
    <2>chain. PICK chain : chain = {stack[k].decl : k \in 1..j}
      OBVIOUS
    <2>1. j \in 1..j /\ 1 \in 1..j /\ m \in chain
      BY <1>2, <1>j, <2>chain
    <2>2. ASSUME NEW n \in chain PROVE \E c \in Uses(n) : c \in chain
      <3>k. PICK k \in 1..j : n = stack[k].decl
        BY <2>chain
      <3>1. CASE k = 1
        BY <1>5, <2>1, <3>1, <3>k DEF Constants
      <3>2. CASE k # 1
        <4>1. k \in 2..j /\ k - 1 \in 1..j
          BY <1>2, <3>2
        <4> QED
          BY <1>6, <2>chain, <3>k, <4>1 DEF Constants
      <3> QED
        BY <3>1, <3>2
    <2> QED
      BY <2>1, <2>2, NoChainFolds
  <1>8. Recursive(m)
    <2> SUFFICES ASSUME NEW found \in SUBSET Globals,
                        \A n \in found \cup {m} : Constants(n) \subseteq found
                 PROVE  m \in found
      BY DEF Recursive
    <2>1. ASSUME NEW k \in 1..j PROVE stack[k].decl \in found \cup {m}
      <3> DEFINE Missing == {t \in Nat : t < j /\ stack[j - t].decl \notin found \cup {m}}
      <3>1. Missing = {}
        <4> SUFFICES ASSUME Missing # {} PROVE FALSE
          OBVIOUS
        <4>1. Missing \in SUBSET Nat
          OBVIOUS
        <4>2. PICK t \in Missing : \A u \in Missing : t <= u
          BY <4>1, LeastNat
        <4>3. t # 0
          BY <1>2, <1>j, <4>2
        <4>4. t - 1 \in Nat /\ t - 1 < j /\ t - 1 \notin Missing
          BY <1>2, <4>2, <4>3
        <4>5. stack[j - (t - 1)].decl \in found \cup {m}
          BY <4>4
        <4>6. j - (t - 1) \in 2..j /\ (j - (t - 1)) - 1 = j - t
          BY <1>2, <4>2, <4>3, <4>4
        <4>7. stack[j - t].decl \in Constants(stack[j - (t - 1)].decl)
          BY <1>6, <4>6
        <4> QED
          BY <4>2, <4>5, <4>7
      <3>2. j - k \in Nat /\ j - k < j /\ j - (j - k) = k
        BY <1>2, <2>1
      <3> QED
        BY <3>1, <3>2
    <2>2. 1 \in 1..j
      BY <1>2
    <2> QED
      BY <1>5, <2>1, <2>2
  <1> QED
    BY <1>7, <1>8

\* What the top frame mentions is a name of the table of its scope, and if it is
\* a constant there, it is one of that unit.
LEMMA MentionedName ==
  ASSUME StateTyped, ScopesOK, FlagsOK, StackOK, Mention, Visible, NEW m, m = Name
  PROVE  /\ Top \in FrameSet /\ m \in Names /\ Top.scope \in UnitSet
         /\ m \in DOMAIN symbols[Top.scope] /\ Mentioned = symbols[Top.scope][m]
         /\ Mentioned \in SymbolSet /\ Mentioned.decl = m
         /\ Home(m) # Top.scope => Mentioned.flags = {}
         /\ Home(m) = Top.scope => \A flag : HasFlag(m, flag) <=> flag \in Mentioned.flags
         /\ "CONST" \in Mentioned.flags => Home(m) = Top.scope /\ Constant(m)
  <1>1. Top \in FrameSet /\ stack # <<>>
    BY TopFrame DEF Mention
  <1>2. Top.scope \in UnitSet /\ m \in DOMAIN symbols[Top.scope] /\ Mentioned = symbols[Top.scope][m]
    BY <1>1 DEF FrameSet, Visible, Mentioned
  <1>3. Mentioned \in SymbolSet /\ m \in Names
    BY <1>2, SymbolTyped
  <1>4. Mentioned.decl = m /\ (Home(m) # Top.scope => Mentioned.flags = {})
    BY <1>2 DEF ScopesOK
  <1>5. Home(m) = Top.scope => \A flag : HasFlag(m, flag) <=> flag \in Mentioned.flags
    BY <1>2 DEF HasFlag
  <1>6. "CONST" \in Mentioned.flags => Home(m) = Top.scope /\ Constant(m)
    BY <1>3, <1>4, <1>5 DEF FlagsOK
  <1> QED
    BY <1>1, <1>2, <1>3, <1>4, <1>5, <1>6

\* A mentioned constant without a value is asked for.
LEMMA DemandStep ==
  ASSUME IInv, Demand
  PROVE  IInv'
  <1>m. PICK m : m = Name
    OBVIOUS
  <1>here. PICK here : here = [Top EXCEPT !.asked = TRUE]
    OBVIOUS
  <1>other. PICK other : other = <<here>> \o Tail(stack)
    OBVIOUS
  <1>1. /\ StateTyped /\ ScopesOK /\ FlagsOK /\ TypesOK /\ StackOK /\ AnswerOK /\ ReadsOK
        /\ ValuesOK /\ CheckedOK /\ CyclesOK
    BY DEF IInv
  <1>2. /\ Mention /\ Visible /\ ~Top.asked /\ Unresolved(Mentioned)
        /\ program' = program /\ unit' = unit /\ loop' = loop /\ at' = at /\ pass' = pass
    BY DEF Demand, place
  <1>3. /\ Top \in FrameSet /\ m \in Names /\ Top.scope \in UnitSet
        /\ m \in DOMAIN symbols[Top.scope] /\ Mentioned = symbols[Top.scope][m]
        /\ Mentioned \in SymbolSet /\ Mentioned.decl = m
        /\ Home(m) = Top.scope => \A flag : HasFlag(m, flag) <=> flag \in Mentioned.flags
        /\ "CONST" \in Mentioned.flags => Home(m) = Top.scope /\ Constant(m)
    BY <1>1, <1>2, <1>m, MentionedName
  <1>4. Home(m) = Top.scope /\ Constant(m) /\ m \in DOMAIN symbols[Home(m)]
    BY <1>2, <1>3 DEF Unresolved
  <1>5. /\ Top = stack[1] /\ 1 \in DOMAIN stack /\ DOMAIN stack = 1..Len(stack) /\ Len(stack) \in Nat
        /\ stack # <<>> /\ Top.next <= Len(Top.uses)
    BY <1>1, <1>2, TopFrame DEF Mention
  <1>6. Asking(other, m)
    <2>1. here \in FrameSet
      BY <1>3, <1>here DEF FrameSet
    <2>2. other \in Seq(FrameSet) /\ Len(other) = Len(stack) /\ other[1] = here
      BY <1>1, <1>5, <1>other, <2>1 DEF StateTyped
    <2>3. \A k \in DOMAIN stack : k > 1 => other[k] = stack[k]
      BY <1>1, <1>5, <1>other, <2>1 DEF StateTyped
    <2>4. Top.uses[Top.next] = m
      BY <1>m DEF Name
    <2> QED
      BY <1>4, <1>5, <1>here, <2>2, <2>3, <2>4 DEF Asking
  <1>7. CASE ~Skipped(Home(m), m)
    <2>1. Enter(Home(m), m, other) /\ last_checked_pass' = last_checked_pass /\ errors' = errors
      BY <1>3, <1>4, <1>7, <1>here, <1>other DEF Demand
    <2>2. \A i \in DOMAIN Units, n \in Globals :
            Home(n) = Units[i] /\ CheckTaken(i, n)' => CheckTaken(i, n) \/ n = m
      BY <1>2 DEF CheckTaken, Passed, Positions
    <2>3. at' \in 0..Len(program.order)
      BY <1>1, <1>2 DEF StateTyped
    <2>4. Decl(m).kind = "global"
      BY <1>4 DEF Constant
    <2> QED
      BY <1>2, <1>3, <1>4, <1>6, <1>7, <2>1, <2>2, <2>3, <2>4, EnterStep
  <1>8. CASE Skipped(Home(m), m)
    <2>1. ReturnEarly(Home(m), m) /\ stack' = other /\ symbols' = symbols
      BY <1>3, <1>4, <1>8, <1>here, <1>other DEF Demand, Replace
    <2>2. /\ last_checked_pass' = last_checked_pass
          /\ errors' = IF pass = 1 /\ ~HasFlag(m, "INITIALIZED") /\ Computing(m)
                       THEN errors \cup {[kind |-> "recursive", decl |-> m]} ELSE errors
      BY <1>1, <1>3, <1>4, <2>1, EarlyReturn
    <2>3. /\ DOMAIN stack' = DOMAIN stack
          /\ \A k \in DOMAIN stack :
               /\ stack'[k] \in FrameSet
               /\ stack'[k].job = stack[k].job /\ stack'[k].decl = stack[k].decl
               /\ stack'[k].scope = stack[k].scope /\ stack'[k].uses = stack[k].uses
               /\ stack'[k].next = stack[k].next /\ (stack'[k].foldable <=> stack[k].foldable)
               /\ stack'[k].value = stack[k].value
               /\ k > 1 => stack'[k] = stack[k]
               /\ k = 1 => stack'[k].asked /\ stack'[k].next <= Len(stack'[k].uses)
      BY <1>1, <1>6, <2>1, AskingFrames
    <2>4. \A n : (Computing(n)' <=> Computing(n)) /\ (Resolving(n)' <=> Resolving(n))
      BY <2>3 DEF Computing, Resolving
    <2>5. pass = 1 => ~Resolving(m)
      <3>1. ASSUME NEW k \in DOMAIN stack, pass = 1 PROVE stack[k].job # "size"
        <4>1. FrameOK(k)
          BY <1>1 DEF StackOK
        <4> QED
          BY <3>1, <4>1 DEF FrameOK
      <3> QED
        BY <3>1 DEF Resolving
    <2>6. pass = 1 => HasFlag(m, "INITIALIZED") \/ Computing(m)
      <3>1. Decl(m).kind = "global" /\ Decl(m).size = NONE
        BY <1>4 DEF Constant
      <3> QED
        BY <1>1, <1>3, <1>4, <1>8, <2>5, <3>1, WhySkipped
    <2>7. Computing(m) => m \notin Foldable /\ Recursive(m)
      <3>1. Computing(m) => Top.job = "initializer"
        BY <1>1, <1>5 DEF Computing, StackOK
      <3> QED
        BY <1>1, <1>4, <1>5, <1>m, <3>1, MentionedOnStack
    <2>8. RecursionReported' <=>
            RecursionReported \/ (pass = 1 /\ ~HasFlag(m, "INITIALIZED") /\ Computing(m))
      <3>new. PICK new : new <=> pass = 1 /\ ~HasFlag(m, "INITIALIZED") /\ Computing(m)
        OBVIOUS
      <3>1. errors' = IF new THEN errors \cup {[kind |-> "recursive", decl |-> m]} ELSE errors
        BY <2>2, <3>new
      <3>2. [kind |-> "recursive", decl |-> m].kind = "recursive"
        OBVIOUS
      <3>3. RecursionReported' <=> RecursionReported \/ new
        BY <3>1, <3>2 DEF RecursionReported
      <3> QED
        BY <3>new, <3>3
    <2>9. StateTyped'
      <3>1. other \in Seq(FrameSet)
        BY <1>6 DEF Asking
      <3> QED
        BY <1>1, <1>2, <2>1, <2>2, <3>1 DEF StateTyped
    <2>10. ScopesOK'
      BY <1>1, <1>2, <2>1, SameProgram DEF ScopesOK, NamesDone
    <2>11. FlagsOK'
      BY <1>1, <1>2, <2>1, <2>2, <2>4, SameProgram, SameSymbols DEF FlagsOK
    <2>12. TypesOK'
      <3>1. \A i, n : TypeTaken(i, n)' <=> TypeTaken(i, n)
        BY <1>2 DEF TypeTaken, Passed, Positions
      <3> QED
        BY <1>1, <1>2, <2>1, <2>4, <3>1, SameProgram, SameSymbols DEF TypesOK
    <2>13. StackOK'
      <3>1. ASSUME NEW k \in DOMAIN stack PROVE FrameOK(k)'
        <4>1. FrameOK(k)
          BY <1>1 DEF StackOK
        <4>2. stack'[k].asked => stack'[k].next <= Len(stack'[k].uses)
          BY <1>5, <2>3, <4>1 DEF FrameOK
        <4>3. Len(stack') = Len(stack)
          BY <1>6, <2>1 DEF Asking
        <4> QED
          BY <1>2, <2>1, <2>3, <4>1, <4>2, <4>3, SameProgram DEF FrameOK
      <3>2. \A k \in DOMAIN stack : k > 1 => k - 1 \in DOMAIN stack
        BY <1>5
      <3> QED
        BY <1>1, <1>2, <2>3, <3>1, <3>2, SameProgram DEF StackOK
    <2>14. AnswerOK'
      <3>1. Top' = stack'[1] /\ Top'.scope = Top.scope /\ Top'.next = Top.next /\ Top'.uses = Top.uses
        <4>1. Top' = stack'[1]
          BY <1>5, <2>1, <2>3, <1>6 DEF Top, Asking
        <4> QED
          BY <1>5, <2>3, <4>1
      <3>2. Name' = m
        BY <1>m, <3>1 DEF Name
      <3>3. Visible' /\ Home(Name)' = Top'.scope
        BY <1>2, <1>3, <1>4, <2>1, <3>1, <3>2, SameProgram DEF Visible
      <3>4. pass = 1 => \/ HasFlag(m, "INITIALIZED")
                        \/ HasFlag(m, "COMPUTING") /\ RecursionReported' /\ m \notin Foldable
        BY <1>1, <1>3, <2>6, <2>7, <2>8 DEF FlagsOK
      <3> QED
        BY <1>2, <2>1, <3>2, <3>3, <3>4, SameProgram, SameSymbols DEF AnswerOK
    <2>15. ReadsOK'
      <3> SUFFICES ASSUME NEW h \in Frames', h.job = "initializer" PROVE ReadOK(h)'
        BY DEF ReadsOK
      <3>k. PICK k \in DOMAIN stack : h = stack'[k]
        BY <2>3 DEF Frames
      <3>g. PICK g : g = stack[k]
        OBVIOUS
      <3>1. /\ h.decl = g.decl /\ h.uses = g.uses /\ h.next = g.next
            /\ (h.foldable <=> g.foldable) /\ h.value = g.value /\ g.job = "initializer"
        BY <2>3, <3>k, <3>g
      <3>2. g \in Frames /\ g \in FrameSet /\ FrameOK(k)
        BY <1>1, <3>g, FrameTyped DEF Frames, StackOK
      <3>3. ReadOK(g) /\ g.uses = Decl(g.decl).uses /\ g.next <= Len(g.uses) + 1
        BY <1>1, <3>1, <3>2, <3>g DEF ReadsOK, FrameOK
      <3>4. Computed \subseteq Computed' /\ \A n \in Names : HasFlag(n, "INITIALIZED") => HasFlag(n, "INITIALIZED")'
        BY <1>2, <2>1, SameSymbols
      <3> QED
        BY <1>2, <2>1, <2>8, <3>1, <3>2, <3>3, <3>4, SameReads
    <2>16. ValuesOK'
      BY <1>1, <1>2, <2>1, SameProgram, SameSymbols DEF ValuesOK
    <2>17. CheckedOK'
      <3>1. \A i, n : CheckTaken(i, n)' <=> CheckTaken(i, n)
        BY <1>2 DEF CheckTaken, Passed, Positions
      <3> QED
        BY <1>1, <1>2, <2>1, <3>1, SameProgram, SameSymbols DEF CheckedOK
    <2>18. CyclesOK'
      <3>1. m \in Globals
        BY <1>3, <1>4 DEF Globals, Constant
      <3> QED
        BY <1>1, <1>2, <1>4, <2>1, <2>7, <2>8, <3>1, SameProgram, SameSymbols DEF CyclesOK
    <2> QED
      BY <2>9, <2>10, <2>11, <2>12, <2>13, <2>14, <2>15, <2>16, <2>17, <2>18 DEF IInv
  <1> QED
    BY <1>7, <1>8

\* One more name is read.
LEMMA ReadMore ==
  ASSUME StateTyped, program' = program, symbols' = symbols,
         RecursionReported' <=> RecursionReported,
         NEW g \in FrameSet, ReadOK(g), g.next <= Len(g.uses), NEW m, m = g.uses[g.next],
         NEW h, h.decl = g.decl, h.uses = g.uses, h.next = g.next + 1,
         h.foldable => /\ g.foldable /\ m \in Computed /\ Home(m) = Home(g.decl)
                       /\ h.value = g.value + symbols[Home(m)][m].value,
         ~h.foldable => ~g.foldable \/ ~(m \in Foldable /\ Home(m) = Home(g.decl)),
         ~RecursionReported /\ m \in Constants(g.decl) => HasFlag(m, "INITIALIZED")
  PROVE  ReadOK(h)'
  <1>n. PICK n : n = g.decl
    OBVIOUS
  <1>k. PICK k : k = g.next
    OBVIOUS
  <1>1. k \in Nat /\ k >= 1 /\ h.next - 1 = k /\ k \in 1..k /\ 1..k = 1..(k - 1) \cup {k} /\ n \in Names
    BY <1>k, <1>n DEF FrameSet
  <1>2. h.decl = n /\ h.uses = g.uses /\ g.uses[k] = m /\ (\A i \in 1..k : g.uses[i] \in Names)
    BY <1>k, <1>n DEF FrameSet
  <1>3. /\ Foldable' = Foldable /\ Computed' = Computed
        /\ \A c : Constants(c)' = Constants(c) /\ Home(c)' = Home(c) /\ Decl(c)' = Decl(c)
        /\ \A c, flag : HasFlag(c, flag)' <=> HasFlag(c, flag)
    BY SameProgram, SameSymbols
  <1>4. ASSUME h.foldable
        PROVE  /\ \A i \in 1..k : h.uses[i] \in Computed /\ Home(h.uses[i]) = Home(n)
               /\ h.value = SumOf(Decl(n).literal, [i \in 1..k |-> symbols[Home(n)][h.uses[i]].value])
    <2>1. /\ \A i \in 1..(k - 1) : g.uses[i] \in Computed /\ Home(g.uses[i]) = Home(n)
          /\ g.value = SumOf(Decl(n).literal, [i \in 1..(k - 1) |-> symbols[Home(n)][g.uses[i]].value])
      BY <1>4, <1>k, <1>n DEF ReadOK
    <2>2. \A i \in 1..k : h.uses[i] \in Computed /\ Home(h.uses[i]) = Home(n)
      BY <1>1, <1>2, <1>4, <1>n, <2>1
    <2>3. \A i \in 1..k : symbols[Home(n)][h.uses[i]].value \in Int
      <3> SUFFICES ASSUME NEW i \in 1..k PROVE symbols[Home(n)][h.uses[i]].value \in Int
        OBVIOUS
      <3>1. Home(n) \in UnitSet /\ h.uses[i] \in DOMAIN symbols[Home(n)]
        BY <1>1, <2>2, ProgramTyped DEF Computed, HasFlag, StateTyped
      <3>2. symbols[Home(n)][h.uses[i]] \in SymbolSet
        BY <3>1, SymbolTyped
      <3> QED
        BY <3>2 DEF SymbolSet
    <2>values. PICK values : values = [i \in 1..(k - 1) |-> symbols[Home(n)][h.uses[i]].value]
      OBVIOUS
    <2>x. PICK x : x = symbols[Home(n)][m].value
      OBVIOUS
    <2>4. values \in Seq(Int) /\ Len(values) = k - 1 /\ x \in Int
      BY <1>1, <1>2, <2>3, <2>values, <2>x
    <2>5. [i \in 1..k |-> symbols[Home(n)][h.uses[i]].value] = Append(values, x)
      <3>a. PICK a : a = Append(values, x)
        OBVIOUS
      <3>1. a \in Seq(Int) /\ Len(a) = k
        BY <1>1, <2>4, <3>a
      <3>2. \A i \in 1..k : a[i] = symbols[Home(n)][h.uses[i]].value
        BY <1>1, <1>2, <2>4, <2>values, <2>x, <3>a
      <3>3. a \in [1..k -> Int]
        BY <3>1
      <3>4. a = [i \in 1..k |-> a[i]]
        BY <3>3
      <3> QED
        BY <3>a, <3>2, <3>4
    <2>6. Decl(n).literal \in Int
      BY <1>1, ProgramTyped DEF Declaration, StateTyped
    <2>7. SumOf(Decl(n).literal, Append(values, x)) = SumOf(Decl(n).literal, values) + x
      BY <2>4, <2>6, SumOfOneMore
    <2>8. g.value = SumOf(Decl(n).literal, values)
      BY <1>2, <2>1, <2>values
    <2>9. h.value = g.value + x
      BY <1>4, <1>n, <2>x
    <2> QED
      BY <2>2, <2>5, <2>7, <2>8, <2>9
  <1>5. ASSUME ~h.foldable PROVE \E i \in 1..k : ~(h.uses[i] \in Foldable /\ Home(h.uses[i]) = Home(n))
    <2>1. ~g.foldable => \E i \in 1..(k - 1) : ~(g.uses[i] \in Foldable /\ Home(g.uses[i]) = Home(n))
      BY <1>k, <1>n DEF ReadOK
    <2> QED
      BY <1>1, <1>2, <1>5, <1>n, <2>1
  <1>6. ~RecursionReported =>
          \A i \in 1..k : h.uses[i] \in Constants(n) => HasFlag(h.uses[i], "INITIALIZED")
    <2>1. ~RecursionReported =>
            \A i \in 1..(k - 1) : g.uses[i] \in Constants(n) => HasFlag(g.uses[i], "INITIALIZED")
      BY <1>k, <1>n DEF ReadOK
    <2> QED
      BY <1>1, <1>2, <1>n, <2>1
  <1>7. h.foldable =>
          /\ \A i \in 1..(h.next - 1) : h.uses[i] \in Computed' /\ Home(h.uses[i])' = Home(h.decl)'
          /\ h.value = SumOf(Decl(h.decl)'.literal,
                             [i \in 1..(h.next - 1) |-> symbols'[Home(h.decl)'][h.uses[i]].value])
    BY <1>1, <1>2, <1>3, <1>4
  <1>8. ~h.foldable =>
          \E i \in 1..(h.next - 1) : ~(h.uses[i] \in Foldable' /\ Home(h.uses[i])' = Home(h.decl)')
    BY <1>1, <1>2, <1>3, <1>5
  <1>9. ~RecursionReported' =>
          \A i \in 1..(h.next - 1) : h.uses[i] \in Constants(h.decl)' => HasFlag(h.uses[i], "INITIALIZED")'
    BY <1>1, <1>2, <1>3, <1>6
  <1> QED
    BY <1>7, <1>8, <1>9 DEF ReadOK

\* The top frame goes on to its next name.
LEMMA UseStep ==
  ASSUME IInv, Mention, NEW h \in FrameSet, Replace(h),
         h.job = Top.job, h.decl = Top.decl, h.scope = Top.scope, h.uses = Top.uses,
         h.next = Top.next + 1, ~h.asked, pass = 0 => ~h.foldable,
         Top.job = "initializer" => ReadOK(h)',
         RecursionReported' <=> RecursionReported,
         program' = program, place' = place, pass' = pass, symbols' = symbols,
         last_checked_pass' = last_checked_pass
  PROVE  IInv'
  <1>1. /\ StateTyped /\ ScopesOK /\ FlagsOK /\ TypesOK /\ StackOK /\ AnswerOK /\ ReadsOK
        /\ ValuesOK /\ CheckedOK /\ CyclesOK
    BY DEF IInv
  <1>2. unit' = unit /\ loop' = loop /\ at' = at
    BY DEF place
  <1>3. /\ Top = stack[1] /\ 1 \in DOMAIN stack /\ DOMAIN stack = 1..Len(stack) /\ Len(stack) \in Nat
        /\ Top \in FrameSet /\ stack # <<>> /\ Top.next <= Len(Top.uses)
    BY <1>1, TopFrame DEF Mention
  <1>4. /\ stack' \in Seq(FrameSet) /\ Len(stack') = Len(stack) /\ DOMAIN stack' = DOMAIN stack
        /\ stack'[1] = h /\ stack' # <<>>
        /\ \A k \in DOMAIN stack : k > 1 => stack'[k] = stack[k]
    BY <1>1, <1>3, TopReplaced
  <1>5. \A k \in DOMAIN stack : /\ stack'[k].job = stack[k].job /\ stack'[k].decl = stack[k].decl
                                /\ stack'[k].scope = stack[k].scope /\ stack'[k].uses = stack[k].uses
    <2> SUFFICES ASSUME NEW k \in DOMAIN stack
                 PROVE  /\ stack'[k].job = stack[k].job /\ stack'[k].decl = stack[k].decl
                        /\ stack'[k].scope = stack[k].scope /\ stack'[k].uses = stack[k].uses
      OBVIOUS
    <2>1. k = 1 \/ k > 1
      BY <1>3
    <2> QED
      BY <1>3, <1>4, <2>1
  <1>6. \A n : (Computing(n)' <=> Computing(n)) /\ (Resolving(n)' <=> Resolving(n))
    BY <1>4, <1>5 DEF Computing, Resolving
  <1>7. StateTyped'
    BY <1>1, <1>2, <1>4 DEF StateTyped
  <1>8. ScopesOK'
    BY <1>1, <1>2, SameProgram DEF ScopesOK, NamesDone
  <1>9. FlagsOK'
    BY <1>1, <1>6, SameProgram, SameSymbols DEF FlagsOK
  <1>10. TypesOK'
    <2>1. \A i, n : TypeTaken(i, n)' <=> TypeTaken(i, n)
      BY <1>2 DEF TypeTaken, Passed, Positions
    <2> QED
      BY <1>1, <1>6, <2>1, SameProgram, SameSymbols DEF TypesOK
  <1>11. StackOK'
    <2>1. FrameOK(1)'
      <3>1. FrameOK(1)
        BY <1>1, <1>3 DEF StackOK
      <3>2. h.next \in Nat /\ h.next # 1 /\ h.next <= Len(h.uses) + 1 /\ h.job = stack[1].job
        BY <1>3 DEF FrameSet
      <3>3. h.decl = stack[1].decl /\ h.scope = stack[1].scope /\ h.uses = stack[1].uses
        BY <1>3
      <3> QED
        BY <1>4, <3>1, <3>2, <3>3, SameProgram DEF FrameOK
    <2>2. ASSUME NEW k \in DOMAIN stack, k > 1 PROVE FrameOK(k)'
      <3>1. FrameOK(k) /\ stack'[k] = stack[k]
        BY <1>1, <1>4, <2>2 DEF StackOK
      <3> QED
        BY <1>4, <3>1, SameProgram DEF FrameOK
    <2>3. ASSUME NEW k \in DOMAIN stack PROVE FrameOK(k)'
      <3>1. k = 1 \/ k > 1
        BY <1>3
      <3> QED
        BY <2>1, <2>2, <3>1
    <2>4. \A k \in DOMAIN stack : k > 1 => k - 1 \in DOMAIN stack
      BY <1>3
    <2> QED
      BY <1>1, <1>4, <1>5, <2>3, <2>4, SameProgram DEF StackOK
  <1>12. AnswerOK'
    <2>1. Top' = h
      BY <1>4 DEF Top
    <2> QED
      BY <2>1 DEF AnswerOK
  <1>13. ReadsOK'
    <2> SUFFICES ASSUME NEW f \in Frames', f.job = "initializer" PROVE ReadOK(f)'
      BY DEF ReadsOK
    <2>k. PICK k \in DOMAIN stack : f = stack'[k]
      BY <1>4 DEF Frames
    <2>1. CASE k = 1
      BY <1>3, <1>4, <2>k, <2>1
    <2>2. CASE k # 1
      <3>1. k > 1 /\ f = stack[k]
        BY <1>3, <1>4, <2>k, <2>2
      <3>2. f \in Frames /\ f \in FrameSet /\ FrameOK(k)
        BY <1>1, <3>1, FrameTyped DEF Frames, StackOK
      <3>3. ReadOK(f) /\ f.uses = Decl(f.decl).uses /\ f.next <= Len(f.uses) + 1
        BY <1>1, <3>1, <3>2 DEF ReadsOK, FrameOK
      <3>4. Computed \subseteq Computed' /\ \A n \in Names : HasFlag(n, "INITIALIZED") => HasFlag(n, "INITIALIZED")'
        BY SameSymbols
      <3> QED
        BY <3>2, <3>3, <3>4, SameReads
    <2> QED
      BY <2>1, <2>2
  <1>14. ValuesOK'
    BY <1>1, SameProgram, SameSymbols DEF ValuesOK
  <1>15. CheckedOK'
    <2>1. \A i, n : CheckTaken(i, n)' <=> CheckTaken(i, n)
      BY <1>2 DEF CheckTaken, Passed, Positions
    <2> QED
      BY <1>1, <2>1, SameProgram, SameSymbols DEF CheckedOK
  <1>16. CyclesOK'
    BY <1>1, SameProgram, SameSymbols DEF CyclesOK
  <1> QED
    BY <1>7, <1>8, <1>9, <1>10, <1>11, <1>12, <1>13, <1>14, <1>15, <1>16 DEF IInv

\* In the second pass a global constant of its unit without a size is typed.
LEMMA ConstantTyped ==
  ASSUME StateTyped, ScopesOK, TypesOK, StackOK, pass = 1,
         NEW m \in Names, m \in DOMAIN symbols[Home(m)], Constant(m)
  PROVE  symbols[Home(m)][m].typed /\ HasFlag(m, "CONST")
  <1>1. PICK i \in DOMAIN Units : Home(m) = Units[i]
    BY ProgramTyped DEF StateTyped, UnitSet
  <1>2. ~Resolving(m)
    <2>1. ASSUME NEW k \in DOMAIN stack PROVE stack[k].job # "size"
      <3>1. FrameOK(k)
        BY DEF StackOK
      <3> QED
        BY <3>1 DEF FrameOK
    <2> QED
      BY <2>1 DEF Resolving
  <1> QED
    BY <1>1, <1>2 DEF TypesOK, TypeTaken, Constant

\* The frame that goes on after a name that is not there.
LEMMA NextFrameUntyped ==
  ASSUME NEW g \in FrameSet, ~g.asked,
         NEW h, h = [g EXCEPT !.next = @ + 1, !.typed = FALSE, !.foldable = FALSE]
  PROVE  /\ h \in FrameSet /\ h.job = g.job /\ h.decl = g.decl /\ h.scope = g.scope
         /\ h.uses = g.uses /\ h.next = g.next + 1 /\ ~h.asked /\ ~h.foldable
  <1>next. PICK next : next = g.next + 1
    OBVIOUS
  <1>1. next \in Nat \ {0}
    BY <1>next DEF FrameSet
  <1>2. h = [g EXCEPT !.next = next, !.typed = FALSE, !.foldable = FALSE]
    BY <1>next
  <1>3. h \in FrameSet
    BY <1>1, <1>2 DEF FrameSet
  <1>4. /\ h.job = g.job /\ h.decl = g.decl /\ h.scope = g.scope /\ h.uses = g.uses
        /\ h.next = next
    BY <1>1, <1>2 DEF FrameSet
  <1>5. ~h.asked /\ ~h.foldable
    BY <1>1, <1>2 DEF FrameSet
  <1> QED
    BY <1>next, <1>3, <1>4, <1>5

\* A name is read.
LEMMA UseNameStep ==
  ASSUME IInv, UseName
  PROVE  IInv'
  <1>m. PICK m : m = Name
    OBVIOUS
  <1>g. PICK g : g = Top
    OBVIOUS
  <1>sym. PICK sym : sym = Mentioned
    OBVIOUS
  <1>h. PICK h : h = [g EXCEPT
       !.next = @ + 1, !.asked = FALSE,
       !.typed = @ /\ sym.typed,
       !.foldable = @ /\ sym.typed /\ {"CONST", "COMPUTED"} \subseteq sym.flags,
       !.value = @ + sym.value]
    OBVIOUS
  <1>1. /\ StateTyped /\ ScopesOK /\ FlagsOK /\ TypesOK /\ StackOK /\ AnswerOK /\ ReadsOK
        /\ ValuesOK /\ CheckedOK /\ CyclesOK
    BY DEF IInv
  <1>2. /\ Mention /\ Visible /\ (g.asked \/ ~Unresolved(sym)) /\ Replace(h)
        /\ program' = program /\ place' = place /\ pass' = pass /\ symbols' = symbols
        /\ last_checked_pass' = last_checked_pass /\ errors' = errors
    BY <1>g, <1>sym, <1>h DEF UseName
  <1>3. /\ g \in FrameSet /\ m \in Names /\ g.scope \in UnitSet
        /\ m \in DOMAIN symbols[g.scope] /\ sym = symbols[g.scope][m]
        /\ sym \in SymbolSet /\ sym.decl = m
        /\ Home(m) # g.scope => sym.flags = {}
        /\ Home(m) = g.scope => \A flag : HasFlag(m, flag) <=> flag \in sym.flags
        /\ "CONST" \in sym.flags => Home(m) = g.scope /\ Constant(m)
    BY <1>1, <1>2, <1>m, <1>g, <1>sym, MentionedName
  <1>4. /\ g.next <= Len(g.uses) /\ m = g.uses[g.next] /\ stack # <<>> /\ g = stack[1]
        /\ 1 \in DOMAIN stack
    BY <1>1, <1>2, <1>m, <1>g, TopFrame DEF Mention, Name
  <1>5. /\ h \in FrameSet /\ h.job = g.job /\ h.decl = g.decl /\ h.scope = g.scope /\ h.uses = g.uses
        /\ h.next = g.next + 1 /\ ~h.asked /\ h.value = g.value + sym.value
        /\ h.foldable <=> g.foldable /\ sym.typed /\ "CONST" \in sym.flags /\ "COMPUTED" \in sym.flags
    <2>typed. PICK typed : typed = (g.typed /\ sym.typed)
      OBVIOUS
    <2>foldable. PICK foldable : foldable = (g.foldable /\ sym.typed /\ {"CONST", "COMPUTED"} \subseteq sym.flags)
      OBVIOUS
    <2>1. typed \in BOOLEAN /\ foldable \in BOOLEAN
      BY <2>typed, <2>foldable, Zenon
    <2>2. g.value + sym.value \in Int
      BY <1>3 DEF FrameSet, SymbolSet
    <2>next. PICK next : next = g.next + 1
      OBVIOUS
    <2>v. PICK v : v = g.value + sym.value
      OBVIOUS
    <2>3. h = [g EXCEPT !.next = next, !.asked = FALSE, !.typed = typed,
                        !.foldable = foldable, !.value = v]
      BY <1>h, <2>typed, <2>foldable, <2>next, <2>v, Zenon
    <2>4. foldable <=> g.foldable /\ sym.typed /\ {"CONST", "COMPUTED"} \subseteq sym.flags
      BY <2>foldable, Zenon
    <2>5. next \in Nat \ {0} /\ v \in Int /\ g \in FrameSet
      BY <1>3, <2>2, <2>next, <2>v DEF FrameSet
    <2>7. h \in FrameSet
      BY <2>1, <2>3, <2>5 DEF FrameSet
    <2>8. /\ h.job = g.job /\ h.decl = g.decl /\ h.scope = g.scope /\ h.uses = g.uses
          /\ h.next = next /\ h.value = v
      BY <2>1, <2>3, <2>5 DEF FrameSet
    <2>9. ~h.asked
      BY <2>1, <2>3, <2>5 DEF FrameSet
    <2>10. h.foldable <=> foldable
      BY <2>1, <2>3, <2>5 DEF FrameSet
    <2>6. foldable <=> g.foldable /\ sym.typed /\ "CONST" \in sym.flags /\ "COMPUTED" \in sym.flags
      BY <2>4
    <2> QED
      BY <2>6, <2>7, <2>8, <2>9, <2>10, <2>next, <2>v
  <1>6. "CONST" \in sym.flags /\ "COMPUTED" \in sym.flags =>
          pass = 1 /\ m \in Computed /\ Home(m) = g.scope
    BY <1>1, <1>3 DEF FlagsOK, Computed, Globals
  <1>7. pass = 0 => ~h.foldable
    BY <1>5, <1>6
  <1>8. RecursionReported' <=> RecursionReported
    BY <1>2 DEF RecursionReported
  <1>9. ASSUME g.job = "initializer" PROVE ReadOK(h)'
    <2>1. FrameOK(1) /\ g \in Frames
      BY <1>1, <1>4 DEF StackOK, Frames
    <2>2. ReadOK(g) /\ g.scope = Home(g.decl) /\ pass = 1
      BY <1>1, <1>4, <1>9, <2>1 DEF ReadsOK, FrameOK, StateTyped
    <2>3. Home(m) = g.scope /\ Constant(m) =>
            /\ sym.typed /\ "CONST" \in sym.flags
            /\ "COMPUTED" \in sym.flags \/ HasFlag(m, "INITIALIZED")
                 \/ (RecursionReported /\ m \notin Foldable)
      <3>1. Home(m) = g.scope /\ Constant(m) => sym.typed /\ "CONST" \in sym.flags
        BY <1>1, <1>3, <2>2, ConstantTyped
      <3>2. g.asked => HasFlag(m, "INITIALIZED") \/ (RecursionReported /\ m \notin Foldable)
        BY <1>1, <1>4, <1>g, <1>m, <2>2 DEF AnswerOK
      <3> QED
        BY <1>2, <3>1, <3>2 DEF Unresolved
    <2>4. h.foldable => /\ g.foldable /\ m \in Computed /\ Home(m) = Home(g.decl)
                        /\ h.value = g.value + symbols[Home(m)][m].value
      BY <1>3, <1>5, <1>6, <2>2
    <2>5. ~h.foldable => ~g.foldable \/ ~(m \in Foldable /\ Home(m) = Home(g.decl))
      <3> SUFFICES ASSUME g.foldable, m \in Foldable, Home(m) = g.scope PROVE h.foldable
        BY <2>2
      <3>1. Constant(m)
        BY FoldableMentions
      <3>2. sym.typed /\ "CONST" \in sym.flags /\ ("COMPUTED" \in sym.flags \/ HasFlag(m, "INITIALIZED"))
        BY <2>3, <3>1
      <3>3. HasFlag(m, "INITIALIZED") => HasFlag(m, "COMPUTED")
        BY <1>1, <1>3 DEF ValuesOK, Computed
      <3>4. "COMPUTED" \in sym.flags
        BY <1>3, <3>2, <3>3
      <3> QED
        BY <1>5, <3>2, <3>4
    <2>6. ~RecursionReported /\ m \in Constants(g.decl) => HasFlag(m, "INITIALIZED")
      <3>1. HasFlag(m, "COMPUTED") => HasFlag(m, "INITIALIZED")
        BY <1>1, <1>3 DEF FlagsOK
      <3> QED
        BY <1>3, <2>2, <2>3, <3>1 DEF Constants
    <2> QED
      BY <1>1, <1>2, <1>3, <1>4, <1>5, <1>8, <2>2, <2>4, <2>5, <2>6, ReadMore
  <1> QED
    BY <1>2, <1>5, <1>7, <1>8, <1>9, <1>g, UseStep

\* A name that is not there is read: it belongs to another unit.
LEMMA UseUndeclaredStep ==
  ASSUME IInv, UseUndeclared
  PROVE  IInv'
  <1>m. PICK m : m = Name
    OBVIOUS
  <1>g. PICK g : g = Top
    OBVIOUS
  <1>h. PICK h : h = [g EXCEPT !.next = @ + 1, !.typed = FALSE, !.foldable = FALSE]
    OBVIOUS
  <1>1. /\ StateTyped /\ ScopesOK /\ FlagsOK /\ TypesOK /\ StackOK /\ AnswerOK /\ ReadsOK
        /\ ValuesOK /\ CheckedOK /\ CyclesOK
    BY DEF IInv
  <1>2. /\ Mention /\ ~Visible /\ Replace(h)
        /\ errors' = errors \cup {[kind |-> "undeclared", decl |-> m]}
        /\ program' = program /\ place' = place /\ pass' = pass /\ symbols' = symbols
        /\ last_checked_pass' = last_checked_pass
    BY <1>g, <1>m, <1>h DEF UseUndeclared
  <1>3. /\ g.next <= Len(g.uses) /\ m = g.uses[g.next] /\ stack # <<>> /\ g = stack[1]
        /\ 1 \in DOMAIN stack /\ g \in FrameSet
    BY <1>1, <1>2, <1>m, <1>g, TopFrame DEF Mention, Name
  <1>4. ~g.asked
    BY <1>1, <1>2, <1>3, <1>g DEF AnswerOK
  <1>5. /\ h \in FrameSet /\ h.job = g.job /\ h.decl = g.decl /\ h.scope = g.scope /\ h.uses = g.uses
        /\ h.next = g.next + 1 /\ ~h.asked /\ ~h.foldable
    BY <1>3, <1>4, <1>h, NextFrameUntyped
  <1>6. RecursionReported' <=> RecursionReported
    <2>1. [kind |-> "undeclared", decl |-> m].kind # "recursive"
      OBVIOUS
    <2> QED
      BY <1>2, <2>1 DEF RecursionReported
  <1>7. ASSUME g.job = "initializer" PROVE ReadOK(h)'
    <2>1. FrameOK(1) /\ g \in Frames
      BY <1>1, <1>3 DEF StackOK, Frames
    <2>2. ReadOK(g) /\ g.scope = Home(g.decl) /\ pass = 1
      BY <1>1, <1>3, <1>7, <2>1 DEF ReadsOK, FrameOK, StateTyped
    <2>3. m \in Names /\ g.decl \in Names
      BY <1>3 DEF FrameSet
    <2>4. Home(m) # Home(g.decl)
      <3>1. PICK i \in DOMAIN Units : Home(g.decl) = Units[i]
        BY <1>1, <2>3, ProgramTyped DEF StateTyped, UnitSet
      <3>2. m \notin DOMAIN symbols[g.scope]
        BY <1>2, <1>g, <1>m DEF Visible
      <3> QED
        BY <1>1, <2>2, <2>3, <3>1, <3>2 DEF ScopesOK, NamesDone
    <2>5. m \notin Constants(g.decl)
      BY <2>4 DEF Constants
    <2> QED
      BY <1>1, <1>2, <1>3, <1>5, <1>6, <2>2, <2>4, <2>5, ReadMore
  <1> QED
    BY <1>2, <1>5, <1>6, <1>7, <1>g, UseStep


-----------------------------------------------------------------------------
(* The ends of what was begun.                                             *)

\* The frames that stay when the top one ends.
LEMMA PoppedFrames ==
  ASSUME StateTyped, StackOK, stack # <<>>, stack' = Tail(stack), program' = program, pass' = pass,
         \A v \in UnitSet : DOMAIN symbols'[v] = DOMAIN symbols[v]
  PROVE  /\ StackOK' /\ stack' \in Seq(FrameSet)
         /\ \A h \in Frames' : h \in Frames /\ h \in FrameSet
         /\ \A n : ~Resolving(n)'
         /\ \A n : Computing(n)' <=> Computing(n) /\ ~(Top.job = "initializer" /\ Top.decl = n)
         /\ stack' # <<>> => 2 \in DOMAIN stack /\ Top' = stack[2]
  <1>1. /\ Top = stack[1] /\ 1 \in DOMAIN stack /\ DOMAIN stack = 1..Len(stack) /\ Len(stack) \in Nat
    BY TopFrame
  <1>2. /\ stack' \in Seq(FrameSet) /\ Len(stack') = Len(stack) - 1
        /\ \A k \in DOMAIN stack' : k + 1 \in DOMAIN stack /\ stack'[k] = stack[k + 1]
        /\ \A k \in DOMAIN stack : k > 1 => k - 1 \in DOMAIN stack' /\ stack'[k - 1] = stack[k]
    BY TopRemoved
  <1>3. DOMAIN stack' = 1..(Len(stack) - 1)
    BY <1>1, <1>2
  <1>4. ASSUME NEW k \in DOMAIN stack' PROVE stack'[k].job # "size"
    <2>1. FrameOK(k + 1) /\ k + 1 \in DOMAIN stack /\ Len(stack) # 1
      BY <1>1, <1>2, <1>3, <1>4 DEF StackOK
    <2> QED
      BY <1>2, <2>1 DEF FrameOK
  <1>5. ASSUME NEW h \in Frames' PROVE h \in Frames /\ h \in FrameSet
    <2>1. PICK k \in DOMAIN stack' : h = stack'[k]
      BY <1>5 DEF Frames
    <2> QED
      BY <1>2, <2>1, FrameTyped DEF Frames
  <1>6. \A n : ~Resolving(n)'
    BY <1>4 DEF Resolving
  <1>7. ASSUME NEW n
        PROVE  Computing(n)' <=> Computing(n) /\ ~(Top.job = "initializer" /\ Top.decl = n)
    <2>1. ASSUME Computing(n)' PROVE Computing(n) /\ ~(Top.job = "initializer" /\ Top.decl = n)
      <3>1. PICK k \in DOMAIN stack' : stack'[k].job = "initializer" /\ stack'[k].decl = n
        BY <2>1 DEF Computing
      <3>2. k + 1 \in DOMAIN stack /\ stack[k + 1].job = "initializer" /\ stack[k + 1].decl = n
        BY <1>2, <3>1
      <3>3. 1 < k + 1
        BY <1>1, <1>3
      <3>4. stack[1].decl # stack[k + 1].decl
        BY <1>1, <3>2, <3>3 DEF StackOK
      <3> QED
        BY <1>1, <3>2, <3>4 DEF Computing
    <2>2. ASSUME Computing(n), ~(Top.job = "initializer" /\ Top.decl = n) PROVE Computing(n)'
      <3>1. PICK k \in DOMAIN stack : stack[k].job = "initializer" /\ stack[k].decl = n
        BY <2>2 DEF Computing
      <3>2. k > 1
        BY <1>1, <2>2, <3>1
      <3>3. k - 1 \in DOMAIN stack' /\ stack'[k - 1] = stack[k]
        BY <1>2, <3>2
      <3> QED
        BY <3>1, <3>3 DEF Computing
    <2> QED
      BY <2>1, <2>2
  <1>8. stack' # <<>> => 2 \in DOMAIN stack /\ Top' = stack[2]
    <2>1. stack' # <<>> => 1 \in DOMAIN stack' /\ Top' = stack'[1]
      BY <1>2 DEF Top
    <2>2. 1 + 1 = 2
      OBVIOUS
    <2> QED
      BY <1>2, <2>1, <2>2
  <1>9. StackOK'
    <2>1. ASSUME NEW k \in DOMAIN stack' PROVE FrameOK(k)'
      <3>1. FrameOK(k + 1) /\ stack'[k] = stack[k + 1] /\ stack[k + 1].job # "size" /\ k + 1 \in DOMAIN stack
        BY <1>2, <1>4, <2>1 DEF StackOK
      <3>2. stack[k + 1].scope \in UnitSet
        BY <3>1, FrameTyped DEF FrameSet
      <3> QED
        BY <3>1, <3>2, SameProgram DEF FrameOK
    <2>2. ASSUME NEW k \in DOMAIN stack', stack'[k].job = "initializer", NEW j \in DOMAIN stack', j < k
          PROVE  stack'[j].job = "initializer" /\ stack'[j].decl # stack'[k].decl
      <3>1. /\ k + 1 \in DOMAIN stack /\ stack'[k] = stack[k + 1]
            /\ j + 1 \in DOMAIN stack /\ stack'[j] = stack[j + 1] /\ j + 1 < k + 1
        BY <1>2, <1>3, <2>2
      <3> QED
        BY <1>2, <2>2, <3>1 DEF StackOK
    <2>3. ASSUME NEW k \in DOMAIN stack', k > 1
          PROVE  /\ stack'[k - 1].job = "initializer" =>
                      /\ stack'[k].asked /\ stack'[k].uses[stack'[k].next] = stack'[k - 1].decl
                      /\ Home(stack'[k - 1].decl) = stack'[k].scope /\ Constant(stack'[k - 1].decl)
                 /\ stack'[k].asked => stack'[k - 1].job = "initializer"
      <3>k. PICK i : i = k + 1
        OBVIOUS
      <3>1. i \in DOMAIN stack /\ stack'[k] = stack[i] /\ i > 1 /\ i - 1 = k
        BY <1>2, <1>3, <3>k
      <3>2. k - 1 \in DOMAIN stack' /\ (k - 1) + 1 = k
        BY <1>1, <1>3, <2>3
      <3>3. stack'[k - 1] = stack[i - 1]
        BY <1>2, <3>1, <3>2
      <3> QED
        BY <3>1, <3>3 DEF StackOK
    <2> QED
      BY <2>1, <2>2, <2>3, SameProgram DEF StackOK
  <1> QED
    BY <1>2, <1>5, <1>6, <1>7, <1>8, <1>9

\* An array size is given up or reported, which is not a recursion.
LEMMA SizeErrorIsNoRecursion ==
  ASSUME SizeError
  PROVE  RecursionReported' <=> RecursionReported
  <1>n. PICK n : n = Top.decl
    OBVIOUS
  <1>const. PICK const : const \in {{}, {[kind |-> "not_const", decl |-> n]}} /\
              const = IF Top.typed /\ ~Top.foldable THEN {[kind |-> "not_const", decl |-> Top.decl]} ELSE {}
    BY <1>n
  <1>void. PICK void : void \in {{}, {[kind |-> "void_parameter", decl |-> n]}} /\
              void = IF Top.job = "size" /\ Decl(Top.decl).kind = "function" /\ ~Top.foldable
                     THEN {[kind |-> "void_parameter", decl |-> Top.decl]} ELSE {}
    BY <1>n
  <1>1. errors' = errors \cup const \cup void
    BY <1>const, <1>void DEF SizeError
  <1>2. \A e \in const \cup void : e.kind # "recursive"
    BY <1>const, <1>void
  <1> QED
    BY <1>1, <1>2 DEF RecursionReported

\* The size of a local array is read to its end.
LEMMA FinishLocalSizeStep ==
  ASSUME IInv, FinishLocalSize
  PROVE  IInv'
  <1>1. /\ StateTyped /\ ScopesOK /\ FlagsOK /\ TypesOK /\ StackOK /\ AnswerOK /\ ReadsOK
        /\ ValuesOK /\ CheckedOK /\ CyclesOK
    BY DEF IInv
  <1>2. /\ stack # <<>> /\ Top.job = "local_size" /\ SizeError /\ stack' = Tail(stack)
        /\ program' = program /\ unit' = unit /\ loop' = loop /\ at' = at /\ pass' = pass
        /\ symbols' = symbols /\ last_checked_pass' = last_checked_pass
    BY DEF FinishLocalSize, Ended, place
  <1>3. /\ StackOK' /\ stack' \in Seq(FrameSet)
        /\ \A h \in Frames' : h \in Frames /\ h \in FrameSet
        /\ \A n : ~Resolving(n)'
        /\ \A n : Computing(n)' <=> Computing(n) /\ ~(Top.job = "initializer" /\ Top.decl = n)
        /\ stack' # <<>> => 2 \in DOMAIN stack /\ Top' = stack[2]
    BY <1>1, <1>2, PoppedFrames
  <1>4. RecursionReported' <=> RecursionReported
    BY <1>2, SizeErrorIsNoRecursion
  <1>5. pass = 1 /\ \A n : ~Resolving(n)
    <2>1. Top = stack[1] /\ 1 \in DOMAIN stack
      BY <1>1, <1>2, TopFrame
    <2>2. FrameOK(1)
      BY <1>1, <2>1 DEF StackOK
    <2>3. pass # 0
      BY <1>2, <2>1, <2>2 DEF FrameOK
    <2>4. pass = 1
      BY <1>1, <2>3 DEF StateTyped
    <2>5. ASSUME NEW k \in DOMAIN stack PROVE stack[k].job # "size"
      <3>1. FrameOK(k)
        BY <1>1 DEF StackOK
      <3> QED
        BY <2>4, <3>1 DEF FrameOK
    <2> QED
      BY <2>4, <2>5 DEF Resolving
  <1>6. StateTyped'
    BY <1>1, <1>2, <1>3 DEF StateTyped
  <1>7. ScopesOK'
    BY <1>1, <1>2, SameProgram DEF ScopesOK, NamesDone
  <1>8. FlagsOK'
    BY <1>1, <1>2, <1>3, SameProgram, SameSymbols DEF FlagsOK
  <1>9. TypesOK'
    <2>1. \A i, n : TypeTaken(i, n)' <=> TypeTaken(i, n)
      BY <1>2 DEF TypeTaken, Passed, Positions
    <2> QED
      BY <1>1, <1>2, <1>3, <1>5, <2>1, SameProgram, SameSymbols DEF TypesOK
  <1>10. AnswerOK'
    <2>1. 2 \in DOMAIN stack => ~stack[2].asked
      <3>1. 2 \in DOMAIN stack /\ stack[2].asked => stack[2 - 1].job = "initializer"
        BY <1>1 DEF StackOK
      <3>2. Top = stack[1] /\ 2 - 1 = 1
        BY <1>1, <1>2, TopFrame
      <3> QED
        BY <1>2, <3>1, <3>2
    <2> QED
      BY <1>3, <2>1 DEF AnswerOK
  <1>11. ReadsOK'
    <2> SUFFICES ASSUME NEW h \in Frames', h.job = "initializer" PROVE ReadOK(h)'
      BY DEF ReadsOK
    <2>1. PICK k \in DOMAIN stack : h = stack[k]
      BY <1>3 DEF Frames
    <2>2. FrameOK(k) /\ h \in Frames /\ h \in FrameSet
      BY <1>1, <1>3, <2>1 DEF StackOK
    <2>3. ReadOK(h) /\ h.uses = Decl(h.decl).uses /\ h.next <= Len(h.uses) + 1
      BY <1>1, <2>1, <2>2 DEF ReadsOK, FrameOK
    <2>4. Computed \subseteq Computed' /\ \A n \in Names : HasFlag(n, "INITIALIZED") => HasFlag(n, "INITIALIZED")'
      BY <1>2, SameSymbols
    <2> QED
      BY <1>2, <1>4, <2>2, <2>3, <2>4, SameReads
  <1>12. ValuesOK'
    BY <1>1, <1>2, SameProgram, SameSymbols DEF ValuesOK
  <1>13. CheckedOK'
    <2>1. \A i, n : CheckTaken(i, n)' <=> CheckTaken(i, n)
      BY <1>2 DEF CheckTaken, Passed, Positions
    <2> QED
      BY <1>1, <1>2, <2>1, SameProgram, SameSymbols DEF CheckedOK
  <1>14. CyclesOK'
    BY <1>1, <1>2, <1>4, SameProgram, SameSymbols DEF CyclesOK
  <1> QED
    BY <1>3, <1>6, <1>7, <1>8, <1>9, <1>10, <1>11, <1>12, <1>13, <1>14 DEF IInv

\* A type is resolved: it is there unless it has a size, which no constant can
\* give it in the first pass.
LEMMA FinishTypeStep ==
  ASSUME IInv, FinishType
  PROVE  IInv'
  <1>n. PICK n : n = Top.decl
    OBVIOUS
  <1>old. PICK old : old = symbols[Home(n)][n]
    OBVIOUS
  <1>s. PICK s : s = [old EXCEPT !.typed = Top.foldable,
                       !.flags = IF Top.foldable /\ Decl(n).const THEN @ \cup {"CONST"} ELSE @]
    OBVIOUS
  <1>1. /\ StateTyped /\ ScopesOK /\ FlagsOK /\ TypesOK /\ StackOK /\ AnswerOK /\ ReadsOK
        /\ ValuesOK /\ CheckedOK /\ CyclesOK
    BY DEF IInv
  <1>2. /\ stack # <<>> /\ Top.job = "size" /\ Top.next > Len(Top.uses) /\ SizeError /\ stack' = Tail(stack)
        /\ program' = program /\ unit' = unit /\ loop' = loop /\ at' = at /\ pass' = pass
        /\ last_checked_pass' = last_checked_pass
        /\ symbols' = [symbols EXCEPT ![Home(n)] = [symbols[Home(n)] EXCEPT ![n] = s]]
    BY <1>n, <1>old, <1>s DEF FinishType, Ended, place
  <1>3. Top = stack[1] /\ 1 \in DOMAIN stack /\ Top \in FrameSet /\ DOMAIN stack = 1..Len(stack)
    BY <1>1, <1>2, TopFrame
  <1>4. /\ Len(stack) = 1 /\ pass = 0 /\ n \in Names /\ n \in DOMAIN symbols[Home(n)]
        /\ (Top.foldable <=> Decl(n).size = NONE)
    <2>1. FrameOK(1)
      BY <1>1, <1>3 DEF StackOK
    <2>2. /\ Len(stack) = 1 /\ pass = 0 /\ n \in DOMAIN symbols[Home(n)] /\ Top.scope = Home(n)
          /\ Top.uses = IF Decl(n).size = NONE THEN <<>> ELSE <<Decl(n).size>>
          /\ Top.foldable <=> Top.next = 1
          /\ Top.next <= Len(Top.uses) + 1
      BY <1>2, <1>3, <1>n, <2>1 DEF FrameOK
    <2>3. Top.next \in Nat /\ n \in Names
      BY <1>3, <1>n DEF FrameSet
    <2>4. CASE Decl(n).size = NONE
      <3>1. Len(Top.uses) = 0
        BY <2>2, <2>4
      <3> QED
        BY <1>2, <2>2, <2>3, <2>4, <3>1
    <2>5. CASE Decl(n).size # NONE
      <3>1. Len(Top.uses) = 1
        BY <2>2, <2>5
      <3> QED
        BY <1>2, <2>2, <2>3, <2>5, <3>1
    <2> QED
      BY <2>4, <2>5
  <1>5. stack' = <<>>
    BY <1>1, <1>2, <1>4 DEF StateTyped
  <1>6. old \in SymbolSet /\ Home(n) \in UnitSet /\ old.decl = n
        /\ \A flag : HasFlag(n, flag) <=> flag \in old.flags
    BY <1>1, <1>4, <1>old, ProgramTyped, SymbolTyped DEF StateTyped, ScopesOK, HasFlag
  <1>7. /\ s \in SymbolSet /\ s.decl = n /\ (s.typed <=> Decl(n).size = NONE)
        /\ s.flags = IF Decl(n).size = NONE /\ Decl(n).const THEN old.flags \cup {"CONST"} ELSE old.flags
    <2>typed. PICK typed : typed = Top.foldable
      OBVIOUS
    <2>flags. PICK flags : flags = IF typed /\ Decl(n).const THEN old.flags \cup {"CONST"} ELSE old.flags
      OBVIOUS
    <2>1. typed \in BOOLEAN
      BY <1>3, <2>typed DEF FrameSet
    <2>2. flags \in SUBSET Flags
      BY <1>6, <2>flags DEF SymbolSet, Flags
    <2>3. s = [old EXCEPT !.typed = typed, !.flags = flags]
      BY <1>s, <2>typed, <2>flags
    <2>4. s \in SymbolSet /\ s.decl = n /\ s.flags = flags
      BY <1>6, <2>1, <2>2, <2>3 DEF SymbolSet
    <2>5. s.typed <=> typed
      BY <1>6, <2>1, <2>3 DEF SymbolSet
    <2>6. typed <=> Decl(n).size = NONE
      BY <1>4, <2>typed, Zenon
    <2> QED
      BY <2>4, <2>5, <2>6, <2>flags
  <1>8. /\ symbols' \in [UnitSet -> Tables]
        /\ \A v \in UnitSet : DOMAIN symbols'[v] = DOMAIN symbols[v]
        /\ symbols'[Home(n)][n] = s
        /\ \A v \in UnitSet : \A m \in DOMAIN symbols[v] :
             v # Home(n) \/ m # n => symbols'[v][m] = symbols[v][m]
        /\ \A flag : HasFlag(n, flag)' <=> flag \in s.flags
        /\ \A m \in Names : \A flag : m # n => (HasFlag(m, flag)' <=> HasFlag(m, flag))
    BY <1>1, <1>2, <1>4, <1>7, FlagUpdate
  <1>9. /\ \A m \in Names : \A flag : flag # "CONST" => (HasFlag(m, flag)' <=> HasFlag(m, flag))
        /\ HasFlag(n, "CONST")' <=> HasFlag(n, "CONST") \/ (Decl(n).size = NONE /\ Decl(n).const)
    BY <1>6, <1>7, <1>8
  <1>10. \A m : ~Computing(m) /\ ~Computing(m)' /\ ~Resolving(m)' /\ (m # n => ~Resolving(m))
    BY <1>2, <1>3, <1>4, <1>5, <1>n DEF Computing, Resolving
  <1>11. RecursionReported' <=> RecursionReported
    BY <1>2, SizeErrorIsNoRecursion
  <1>12. \A m \in Names : ~HasFlag(m, "INITIALIZED") /\ ~HasFlag(m, "COMPUTED")
    BY <1>1, <1>4, UncheckedAtFirst DEF FlagsOK
  <1>13. StateTyped'
    BY <1>1, <1>2, <1>5, <1>8 DEF StateTyped
  <1>14. ScopesOK'
    <2>1. \A i : NamesDone(i)' <=> NamesDone(i)
      BY <1>2 DEF NamesDone
    <2>2. \A i \in DOMAIN Units : DOMAIN symbols'[Units[i]] = DOMAIN symbols[Units[i]]
      BY <1>8 DEF UnitSet
    <2>3. \A v \in UnitSet : \A m \in DOMAIN symbols'[v] :
            symbols'[v][m].decl = m /\ (Home(m) # v => symbols'[v][m].flags = {})
      <3> SUFFICES ASSUME NEW v \in UnitSet, NEW m \in DOMAIN symbols[v]
                   PROVE  symbols'[v][m].decl = m /\ (Home(m) # v => symbols'[v][m].flags = {})
        BY <1>8
      <3>1. CASE v = Home(n) /\ m = n
        BY <1>7, <1>8, <3>1
      <3>2. CASE ~(v = Home(n) /\ m = n)
        BY <1>1, <1>8, <3>2 DEF ScopesOK
      <3> QED
        BY <3>1, <3>2
    <2> QED
      BY <1>1, <1>2, <2>1, <2>2, <2>3, SameProgram DEF ScopesOK
  <1>15. FlagsOK'
    <2>1. HasFlag(n, "CONST")' => Constant(n)
      <3>1. Decl(n).const => Decl(n).kind = "global"
        BY <1>1, <1>4, ProgramTyped DEF StateTyped
      <3> QED
        BY <1>1, <1>4, <1>9, <3>1 DEF FlagsOK, Constant
    <2>2. \A m \in Names : HasFlag(m, "CONST")' => Constant(m)
      BY <1>1, <1>8, <2>1 DEF FlagsOK
    <2>3. \A m \in Names : ~HasFlag(m, "COMPUTING")
      BY <1>1, <1>10 DEF FlagsOK
    <2> QED
      BY <1>1, <1>2, <1>9, <1>10, <1>12, <2>2, <2>3, SameProgram DEF FlagsOK
  <1>16. TypesOK'
    <2> SUFFICES ASSUME NEW i \in DOMAIN Units, NEW m \in Names, Home(m) = Units[i],
                        Decl(m).kind = "global", m \in DOMAIN symbols'[Units[i]]
                 PROVE  /\ symbols'[Units[i]][m].typed => Decl(m).size = NONE
                        /\ TypeTaken(i, m)' /\ Decl(m).size = NONE =>
                             symbols'[Units[i]][m].typed /\ (Decl(m).const => HasFlag(m, "CONST")')
      BY <1>2, SameProgram DEF TypesOK
    <2>1. CASE m = n
      BY <1>7, <1>8, <1>9, <2>1
    <2>2. CASE m # n
      <3>1. TypeTaken(i, m)' <=> TypeTaken(i, m)
        BY <1>2 DEF TypeTaken, Passed, Positions
      <3>2. Units[i] \in UnitSet
        BY DEF UnitSet
      <3>3. m \in DOMAIN symbols[Units[i]] /\ symbols'[Units[i]][m] = symbols[Units[i]][m]
        BY <1>8, <2>2, <3>2
      <3> QED
        BY <1>1, <1>8, <1>10, <2>2, <3>1, <3>3 DEF TypesOK
    <2> QED
      BY <2>1, <2>2
  <1>17. StackOK' /\ AnswerOK' /\ ReadsOK'
    BY <1>5 DEF StackOK, AnswerOK, ReadsOK, Frames
  <1>18. ValuesOK'
    <2>1. Computed' = {}
      BY <1>9, <1>12, SameProgram DEF Computed, Globals
    <2>2. \A m \in Names : ~HasFlag(m, "INITIALIZED")'
      BY <1>9, <1>12
    <2> QED
      BY <2>1, <2>2 DEF ValuesOK
  <1>19. CheckedOK'
    <2>1. \A i, m : ~CheckTaken(i, m)'
      BY <1>1, <1>2, <1>4 DEF CheckTaken, StateTyped
    <2> QED
      BY <2>1 DEF CheckedOK
  <1>20. CyclesOK'
    <2>1. \A m \in Names : ~HasFlag(m, "INITIALIZED")'
      BY <1>9, <1>12
    <2> QED
      BY <1>1, <1>2, <1>11, <2>1, SameProgram DEF CyclesOK
  <1> QED
    BY <1>13, <1>14, <1>15, <1>16, <1>17, <1>18, <1>19, <1>20 DEF IInv

\* An initializer is evaluated.
LEMMA FinishInitializerStep ==
  ASSUME IInv, FinishInitializer
  PROVE  IInv'
  <1>n. PICK n : n = Top.decl
    OBVIOUS
  <1>f. PICK f : f = Top
    OBVIOUS
  <1>old. PICK old : old = symbols[Home(n)][n]
    OBVIOUS
  <1>computed. PICK computed : computed <=> Decl(n).const /\ f.foldable
    OBVIOUS
  <1>s. PICK s : s = [old EXCEPT !.flags = (@ \ {"COMPUTING"}) \cup {"INITIALIZED"}
                                  \cup IF Decl(n).const /\ f.foldable THEN {"CONST", "COMPUTED"} ELSE {},
                       !.value = IF Decl(n).const /\ f.foldable THEN f.value ELSE @]
    OBVIOUS
  <1>1. /\ StateTyped /\ ScopesOK /\ FlagsOK /\ TypesOK /\ StackOK /\ AnswerOK /\ ReadsOK
        /\ ValuesOK /\ CheckedOK /\ CyclesOK
    BY DEF IInv
  <1>2. /\ f = stack[1] /\ 1 \in DOMAIN stack /\ f \in FrameSet /\ stack # <<>> /\ f.job = "initializer"
        /\ n \in Names /\ DOMAIN stack = 1..Len(stack)
    BY <1>1, <1>f, <1>n, TopFrame DEF FinishInitializer, Ended, FrameSet
  <1>3. /\ FrameOK(1) /\ f \in Frames /\ ReadOK(f)
    BY <1>1, <1>2 DEF StackOK, ReadsOK, Frames
  <1>4. /\ f.scope = Home(n) /\ n \in DOMAIN symbols[Home(n)] /\ f.uses = Decl(n).uses
        /\ Decl(n).kind = "global" /\ Decl(n).size = NONE /\ pass = 1 /\ f.next - 1 = Len(f.uses)
        /\ f.decl = n /\ Len(f.uses) \in Nat
    <2>1. f.next > Len(f.uses)
      BY <1>f DEF FinishInitializer, Ended
    <2> QED
      BY <1>1, <1>2, <1>3, <1>f, <1>n, <2>1 DEF FrameOK, FrameSet, StateTyped
  <1>5. /\ stack' = Tail(stack) /\ errors' = errors
        /\ program' = program /\ unit' = unit /\ loop' = loop /\ at' = at /\ pass' = pass
        /\ symbols' = [symbols EXCEPT ![Home(n)] = [symbols[Home(n)] EXCEPT ![n] = s]]
        /\ last_checked_pass' = [last_checked_pass EXCEPT ![n] = 1]
    BY <1>4, <1>f, <1>n, <1>old, <1>s DEF FinishInitializer, place
  <1>6. /\ Computing(n) /\ HasFlag(n, "COMPUTING") /\ ~HasFlag(n, "INITIALIZED")
        /\ ~HasFlag(n, "COMPUTED") /\ n \notin Computed
    BY <1>1, <1>2, <1>4 DEF Computing, FlagsOK, Computed
  <1>7. /\ old \in SymbolSet /\ Home(n) \in UnitSet /\ Decl(n) \in Declaration
        /\ \A flag : HasFlag(n, flag) <=> flag \in old.flags
    BY <1>1, <1>2, <1>4, <1>old, ProgramTyped, SymbolTyped DEF StateTyped, HasFlag
  <1>8. /\ s \in SymbolSet /\ s.decl = old.decl /\ (s.typed <=> old.typed)
        /\ s.flags = (old.flags \ {"COMPUTING"}) \cup {"INITIALIZED"}
                       \cup IF computed THEN {"CONST", "COMPUTED"} ELSE {}
        /\ computed => s.value = f.value
        /\ ~computed => s.value = old.value
    <2>flags. PICK flags : flags = (old.flags \ {"COMPUTING"}) \cup {"INITIALIZED"}
                                     \cup IF computed THEN {"CONST", "COMPUTED"} ELSE {}
      OBVIOUS
    <2>v. PICK v : v = IF computed THEN f.value ELSE old.value
      OBVIOUS
    <2>1. flags \in SUBSET Flags /\ v \in Int
      BY <1>2, <1>7, <2>flags, <2>v DEF SymbolSet, Flags, FrameSet
    <2>2. s = [old EXCEPT !.flags = flags, !.value = v]
      BY <1>s, <1>computed, <2>flags, <2>v
    <2>3. s \in SymbolSet /\ s.decl = old.decl /\ (s.typed <=> old.typed) /\ s.flags = flags /\ s.value = v
      BY <1>7, <2>1, <2>2 DEF SymbolSet
    <2> QED
      BY <2>3, <2>flags, <2>v
  <1>9. /\ symbols' \in [UnitSet -> Tables]
        /\ \A v \in UnitSet : DOMAIN symbols'[v] = DOMAIN symbols[v]
        /\ symbols'[Home(n)][n] = s
        /\ \A v \in UnitSet : \A m \in DOMAIN symbols[v] :
             v # Home(n) \/ m # n => symbols'[v][m] = symbols[v][m]
        /\ \A flag : HasFlag(n, flag)' <=> flag \in s.flags
        /\ \A m \in Names : \A flag : m # n => (HasFlag(m, flag)' <=> HasFlag(m, flag))
    BY <1>1, <1>2, <1>4, <1>5, <1>8, FlagUpdate
  <1>10. /\ HasFlag(n, "INITIALIZED")' /\ ~HasFlag(n, "COMPUTING")'
         /\ HasFlag(n, "COMPUTED")' <=> computed
         /\ HasFlag(n, "CONST")' <=> HasFlag(n, "CONST") \/ computed
    BY <1>6, <1>7, <1>8, <1>9
  <1>11. \A m \in Names : HasFlag(m, "INITIALIZED")' <=> HasFlag(m, "INITIALIZED") \/ m = n
    BY <1>9, <1>10
  <1>12. Computed' = IF computed THEN Computed \cup {n} ELSE Computed
    BY <1>2, <1>4, <1>6, <1>9, <1>10, SameProgram, <1>5 DEF Computed, Globals
  <1>13. \A m \in Computed : symbols'[Home(m)][m].value = symbols[Home(m)][m].value
    <2> SUFFICES ASSUME NEW m \in Computed PROVE symbols'[Home(m)][m] = symbols[Home(m)][m]
      OBVIOUS
    <2>1. m # n /\ m \in Names /\ Home(m) \in UnitSet /\ m \in DOMAIN symbols[Home(m)]
      BY <1>1, <1>6, ProgramTyped DEF Computed, Globals, HasFlag, StateTyped
    <2> QED
      BY <1>9, <2>1
  <1>14. /\ StackOK' /\ stack' \in Seq(FrameSet)
         /\ \A h \in Frames' : h \in Frames /\ h \in FrameSet
         /\ \A m : ~Resolving(m)'
         /\ \A m : Computing(m)' <=> Computing(m) /\ ~(Top.job = "initializer" /\ Top.decl = m)
         /\ stack' # <<>> => 2 \in DOMAIN stack /\ Top' = stack[2]
    BY <1>1, <1>2, <1>5, <1>9, PoppedFrames
  <1>15. RecursionReported' <=> RecursionReported
    BY <1>5 DEF RecursionReported
  <1>16. StateTyped'
    BY <1>1, <1>5, <1>9, <1>14 DEF StateTyped
  <1>17. ScopesOK'
    <2>1. \A i : NamesDone(i)' <=> NamesDone(i)
      BY <1>5 DEF NamesDone
    <2>2. \A i \in DOMAIN Units : DOMAIN symbols'[Units[i]] = DOMAIN symbols[Units[i]]
      BY <1>9 DEF UnitSet
    <2>3. \A v \in UnitSet : \A m \in DOMAIN symbols'[v] :
            symbols'[v][m].decl = m /\ (Home(m) # v => symbols'[v][m].flags = {})
      <3> SUFFICES ASSUME NEW v \in UnitSet, NEW m \in DOMAIN symbols[v]
                   PROVE  symbols'[v][m].decl = m /\ (Home(m) # v => symbols'[v][m].flags = {})
        BY <1>9
      <3>1. CASE v = Home(n) /\ m = n
        BY <1>1, <1>7, <1>8, <1>9, <1>old, <3>1 DEF ScopesOK
      <3>2. CASE ~(v = Home(n) /\ m = n)
        BY <1>1, <1>9, <3>2 DEF ScopesOK
      <3> QED
        BY <3>1, <3>2
    <2> QED
      BY <1>1, <1>5, <2>1, <2>2, <2>3, SameProgram DEF ScopesOK
  <1>18. FlagsOK'
    <2>1. last_checked_pass'[n] = 1 /\ \A m \in Names : m # n => last_checked_pass'[m] = last_checked_pass[m]
      BY <1>1, <1>2, <1>5 DEF StateTyped
    <2>2. ~Computing(n)' /\ \A m \in Names : m # n => (Computing(m)' <=> Computing(m))
      BY <1>2, <1>14, <1>f, <1>n
    <2>3. computed => Constant(n)
      BY <1>4, <1>computed DEF Constant
    <2>4. HasFlag(n, "CONST") => Constant(n)
      BY <1>1, <1>2 DEF FlagsOK
    <2> SUFFICES ASSUME NEW m \in Names
                 PROVE  /\ HasFlag(m, "INITIALIZED")' <=> last_checked_pass'[m] = 1
                        /\ HasFlag(m, "COMPUTING")' <=> Computing(m)'
                        /\ HasFlag(m, "INITIALIZED")' =>
                             pass = 1 /\ Decl(m).kind = "global" /\ Decl(m).size = NONE /\ ~Computing(m)'
                        /\ HasFlag(m, "COMPUTED")' => HasFlag(m, "CONST")' /\ HasFlag(m, "INITIALIZED")'
                        /\ HasFlag(m, "CONST")' => Constant(m)
      BY <1>5, SameProgram DEF FlagsOK
    <2>5. CASE m = n
      BY <1>4, <1>10, <2>1, <2>2, <2>3, <2>4, <2>5
    <2>6. CASE m # n
      BY <1>1, <1>9, <2>1, <2>2, <2>6 DEF FlagsOK
    <2> QED
      BY <2>5, <2>6
  <1>19. TypesOK'
    <2> SUFFICES ASSUME NEW i \in DOMAIN Units, NEW m \in Names, Home(m) = Units[i],
                        Decl(m).kind = "global", m \in DOMAIN symbols'[Units[i]]
                 PROVE  /\ symbols'[Units[i]][m].typed => Decl(m).size = NONE
                        /\ Decl(m).size = NONE =>
                             symbols'[Units[i]][m].typed /\ (Decl(m).const => HasFlag(m, "CONST")')
      BY <1>5, SameProgram DEF TypesOK
    <2>1. Units[i] \in UnitSet /\ m \in DOMAIN symbols[Units[i]]
      BY <1>9 DEF UnitSet
    <2>2. ~Resolving(m)
      <3>1. ASSUME NEW k \in DOMAIN stack PROVE stack[k].job # "size"
        <4>1. FrameOK(k)
          BY <1>1 DEF StackOK
        <4> QED
          BY <1>4, <4>1 DEF FrameOK
      <3> QED
        BY <3>1 DEF Resolving
    <2>3. /\ symbols[Units[i]][m].typed => Decl(m).size = NONE
          /\ Decl(m).size = NONE =>
               symbols[Units[i]][m].typed /\ (Decl(m).const => HasFlag(m, "CONST"))
      BY <1>1, <1>4, <2>1, <2>2 DEF TypesOK, TypeTaken
    <2>4. symbols'[Units[i]][m].typed <=> symbols[Units[i]][m].typed
      BY <1>8, <1>9, <1>old, <2>1
    <2>5. HasFlag(m, "CONST") => HasFlag(m, "CONST")'
      BY <1>9, <1>10
    <2> QED
      BY <2>3, <2>4, <2>5
  <1>20. AnswerOK'
    <2> SUFFICES ASSUME stack' # <<>>, Top'.asked
                 PROVE  Visible' /\ Home(Name)' = Top'.scope /\ HasFlag(Name, "INITIALIZED")'
      BY DEF AnswerOK
    <2>1. 2 \in DOMAIN stack /\ Top' = stack[2]
      BY <1>14
    <2>2. stack[2].uses[stack[2].next] = n /\ Home(n) = stack[2].scope
      <3>1. 2 - 1 = 1 /\ 2 > 1
        OBVIOUS
      <3> QED
        BY <1>1, <1>2, <1>4, <2>1, <3>1 DEF StackOK
    <2>3. Name' = n
      BY <2>1, <2>2 DEF Name
    <2> QED
      BY <1>4, <1>5, <1>7, <1>9, <1>10, <2>1, <2>2, <2>3, SameProgram DEF Visible
  <1>21. ReadsOK'
    <2> SUFFICES ASSUME NEW h \in Frames', h.job = "initializer" PROVE ReadOK(h)'
      BY DEF ReadsOK
    <2>1. PICK k \in DOMAIN stack : h = stack[k]
      BY <1>14 DEF Frames
    <2>2. FrameOK(k) /\ h \in Frames /\ h \in FrameSet
      BY <1>1, <1>14, <2>1 DEF StackOK
    <2>3. ReadOK(h) /\ h.uses = Decl(h.decl).uses /\ h.next <= Len(h.uses) + 1
      BY <1>1, <2>1, <2>2 DEF ReadsOK, FrameOK
    <2>4. Computed \subseteq Computed' /\ \A m \in Names : HasFlag(m, "INITIALIZED") => HasFlag(m, "INITIALIZED")'
      BY <1>11, <1>12
    <2> QED
      BY <1>5, <1>13, <1>15, <2>2, <2>3, <2>4, SameReads
  <1>22. ValuesOK'
    <2>1. \A i \in DOMAIN f.uses : i \in 1..(f.next - 1)
      BY <1>4
    <2>2. f.foldable =>
            /\ \A m \in Uses(n) : m \in Computed /\ Home(m) = Home(n)
            /\ f.value = SumOf(Decl(n).literal, MentionedValues(n))
      <3>1. DOMAIN f.uses = 1..(f.next - 1)
        BY <1>2, <1>4 DEF FrameSet
      <3>2. MentionedValues(n) = [i \in 1..(f.next - 1) |-> symbols[Home(n)][f.uses[i]].value]
        BY <1>4, <3>1 DEF MentionedValues
      <3> QED
        BY <1>3, <1>4, <2>1, <3>2 DEF ReadOK, Uses
    <2>3. ASSUME NEW m \in Names, \A c \in Uses(m) : c \in Computed /\ Home(c) = Home(m)
          PROVE  MentionedValues(m)' = MentionedValues(m)
      <3>1. \A i \in DOMAIN Decl(m).uses : Decl(m).uses[i] \in Computed /\ Home(Decl(m).uses[i]) = Home(m)
        BY <2>3 DEF Uses
      <3> QED
        BY <1>5, <1>13, <3>1, SameValues
    <2>4. ASSUME NEW m \in Computed'
          PROVE  /\ \A c \in Uses(m) : c \in Computed /\ Home(c) = Home(m)
                 /\ symbols'[Home(m)][m].value = SumOf(Decl(m).literal, MentionedValues(m)')
      <3>1. m \in Names
        BY <1>2, <1>12, <2>4 DEF Computed, Globals
      <3>2. CASE m \in Computed
        BY <1>1, <1>13, <2>3, <3>1, <3>2 DEF ValuesOK
      <3>3. CASE m \notin Computed
        <4>1. computed /\ m = n /\ f.foldable
          BY <1>12, <1>computed, <2>4, <3>3
        <4> QED
          BY <1>8, <1>9, <2>2, <2>3, <3>1, <4>1
      <3> QED
        BY <3>2, <3>3
    <2>5. n \in Foldable <=> computed
      <3>1. ASSUME computed PROVE n \in Foldable
        <4>1. f.foldable /\ Constant(n) /\ n \in Globals
          BY <1>2, <1>4, <1>computed, <3>1 DEF Constant, Globals
        <4>2. ASSUME NEW m \in Uses(n) PROVE m \in Foldable /\ Home(m) = Home(n)
          <5>1. m \in Computed /\ Home(m) = Home(n) /\ m \in Names
            BY <2>2, <4>1, <4>2 DEF Computed, Globals
          <5>2. HasFlag(m, "INITIALIZED")
            BY <1>1, <5>1 DEF FlagsOK, Computed
          <5> QED
            BY <1>1, <5>1, <5>2 DEF ValuesOK
        <4> QED
          BY <4>1, <4>2, FoldableComplete DEF Complete
      <3>2. ASSUME n \in Foldable PROVE computed
        <4>1. Constant(n) /\ \A m \in Uses(n) : m \in Foldable /\ Home(m) = Home(n)
          BY <3>2, FoldableMentions
        <4>2. \A i \in 1..(f.next - 1) : f.uses[i] \in Uses(n)
          BY <1>2, <1>4 DEF Uses, FrameSet
        <4>3. f.foldable
          BY <1>3, <1>4, <4>1, <4>2 DEF ReadOK
        <4> QED
          BY <1>computed, <4>1, <4>3 DEF Constant
      <3> QED
        BY <3>1, <3>2
    <2>6. ASSUME NEW m \in Names, HasFlag(m, "INITIALIZED")'
          PROVE  m \in Foldable <=> m \in Computed'
      <3>1. CASE m = n
        BY <1>6, <1>12, <2>5, <3>1
      <3>2. CASE m # n
        BY <1>1, <1>11, <1>12, <2>6, <3>2 DEF ValuesOK
      <3> QED
        BY <3>1, <3>2
    <2>7. Computed \subseteq Computed'
      BY <1>12
    <2> QED
      BY <1>5, <2>4, <2>6, <2>7, SameProgram DEF ValuesOK
  <1>23. CheckedOK'
    <2>1. \A i, m : CheckTaken(i, m)' <=> CheckTaken(i, m)
      BY <1>5 DEF CheckTaken, Passed, Positions
    <2>2. \A m \in Names : HasFlag(m, "INITIALIZED") \/ HasFlag(m, "COMPUTING") =>
            HasFlag(m, "INITIALIZED")' \/ HasFlag(m, "COMPUTING")'
      BY <1>9, <1>10
    <2> QED
      BY <1>1, <1>5, <2>1, <2>2, SameProgram DEF CheckedOK, Globals
  <1>24. CyclesOK'
    <2>1. CASE RecursionReported
      BY <1>1, <1>5, <1>15, <2>1, SameProgram DEF CyclesOK
    <2>2. CASE ~RecursionReported
      <3>1. \A m \in Names : HasFlag(m, "INITIALIZED") =>
              /\ \A c \in Constants(m) : HasFlag(c, "INITIALIZED")
              /\ ~Recursive(m)
        BY <1>1, <2>2 DEF CyclesOK
      <3>2. \A c \in Constants(n) : HasFlag(c, "INITIALIZED")
        <4> SUFFICES ASSUME NEW c \in Constants(n) PROVE HasFlag(c, "INITIALIZED")
          OBVIOUS
        <4>1. PICK i \in DOMAIN Decl(n).uses : c = Decl(n).uses[i]
          BY DEF Constants, Uses
        <4>2. i \in 1..(f.next - 1) /\ f.uses[i] = c
          BY <1>2, <1>4, <4>1 DEF FrameSet
        <4> QED
          BY <1>3, <1>4, <2>2, <4>2 DEF ReadOK
      <3>3. ~Recursive(n)
        <4>found. PICK found : found = {m \in Globals : HasFlag(m, "INITIALIZED")}
          OBVIOUS
        <4>1. \A m \in Names : \A c \in Constants(m) : c \in Globals
          BY <1>1, ProgramTyped DEF Constants, Constant, Uses, Globals, Declaration, StateTyped
        <4>2. \A m \in found \cup {n} : Constants(m) \subseteq found
          BY <1>2, <3>1, <3>2, <4>1, <4>found DEF Globals
        <4>3. found \in SUBSET Globals /\ n \notin found
          BY <1>6, <4>found
        <4> QED
          BY <4>2, <4>3, NotRecursive
      <3>4. ASSUME NEW m \in Names, HasFlag(m, "INITIALIZED")'
            PROVE  (\A c \in Constants(m) : HasFlag(c, "INITIALIZED")') /\ ~Recursive(m)
        <4>1. (\A c \in Constants(m) : HasFlag(c, "INITIALIZED")) /\ ~Recursive(m)
          BY <1>11, <3>1, <3>2, <3>3, <3>4
        <4>2. Constants(m) \subseteq Names
          BY <1>1, ProgramTyped DEF Constants, Uses, Declaration, StateTyped
        <4> QED
          BY <1>11, <4>1, <4>2
      <3> QED
        BY <1>5, <1>15, <2>2, <3>4, SameProgram DEF CyclesOK
    <2> QED
      BY <2>1, <2>2
  <1> QED
    BY <1>14, <1>16, <1>17, <1>18, <1>19, <1>20, <1>21, <1>22, <1>23, <1>24 DEF IInv

-----------------------------------------------------------------------------
(* The invariant.                                                          *)

\* It holds before anything is registered.
LEMMA InitOK ==
  ASSUME Init
  PROVE  IInv
  <1>1. /\ program \in Programs /\ unit = 1 /\ loop = "names" /\ at = 0 /\ pass = 0
        /\ symbols = [u \in UnitSet |-> <<>>] /\ last_checked_pass = [n \in Names |-> 0]
        /\ stack = <<>> /\ errors = {}
    BY DEF Init
  <1>2. StateTyped
    <2>1. <<>> \in Tables
      <3>1. <<>> \in [{} -> SymbolSet] /\ {} \in SUBSET Names
        OBVIOUS
      <3> QED
        BY <3>1 DEF Tables
    <2>2. symbols \in [UnitSet -> Tables]
      BY <1>1, <2>1
    <2>3. unit \in 1..Len(Units) /\ at \in 0..Len(program.order)
      BY <1>1, UnitsAssumption, ProgramTyped
    <2> QED
      BY <1>1, <2>2, <2>3 DEF StateTyped
  <1>3. \A u \in UnitSet : DOMAIN symbols[u] = {}
    BY <1>1
  <1>4. \A n \in Names : \A flag : ~HasFlag(n, flag)
    BY <1>1, <1>3, ProgramTyped DEF HasFlag
  <1>5. Computed = {}
    BY <1>4 DEF Computed, Globals
  <1>6. ScopesOK
    <2>1. ASSUME NEW i \in DOMAIN Units PROVE ~NamesDone(i) /\ Units[i] \in UnitSet
      BY <1>1, UnitsAssumption DEF NamesDone, UnitSet
    <2> QED
      BY <1>3, <2>1 DEF ScopesOK
  <1>7. FlagsOK
    <2>1. \A n : ~Computing(n)
      BY <1>1 DEF Computing
    <2> QED
      BY <1>1, <1>4, <2>1 DEF FlagsOK
  <1>8. TypesOK
    <2>1. \A i \in DOMAIN Units : Units[i] \in UnitSet
      BY DEF UnitSet
    <2> QED
      BY <1>3, <2>1 DEF TypesOK
  <1>9. StackOK /\ AnswerOK /\ ReadsOK
    BY <1>1 DEF StackOK, AnswerOK, ReadsOK, Frames
  <1>10. ValuesOK
    BY <1>4, <1>5 DEF ValuesOK
  <1>11. CheckedOK
    BY <1>1 DEF CheckedOK, CheckTaken
  <1>12. CyclesOK
    BY <1>1, <1>4 DEF CyclesOK, RecursionReported
  <1> QED
    BY <1>2, <1>6, <1>7, <1>8, <1>9, <1>10, <1>11, <1>12 DEF IInv

\* Nothing happens, or nothing is left to do.
LEMMA StutterStep ==
  ASSUME IInv, UNCHANGED vars
  PROVE  IInv'
  <1>1. /\ StateTyped /\ ScopesOK /\ FlagsOK /\ TypesOK /\ StackOK /\ AnswerOK /\ ReadsOK
        /\ ValuesOK /\ CheckedOK /\ CyclesOK
    BY DEF IInv
  <1>2. /\ program' = program /\ unit' = unit /\ loop' = loop /\ at' = at /\ pass' = pass
        /\ symbols' = symbols /\ last_checked_pass' = last_checked_pass /\ stack' = stack
        /\ errors' = errors
    BY DEF vars
  <1>3. StateTyped'
    BY <1>1, <1>2 DEF StateTyped
  <1>4. ScopesOK'
    BY <1>1, <1>2, SameProgram DEF ScopesOK, NamesDone
  <1>5. \A n : (Computing(n)' <=> Computing(n)) /\ (Resolving(n)' <=> Resolving(n))
    BY <1>2 DEF Computing, Resolving
  <1>6. FlagsOK'
    BY <1>1, <1>2, <1>5, SameProgram, SameSymbols DEF FlagsOK
  <1>7. TypesOK'
    <2>1. \A i, n : TypeTaken(i, n)' <=> TypeTaken(i, n)
      BY <1>2 DEF TypeTaken, Passed, Positions
    <2> QED
      BY <1>1, <1>2, <1>5, <2>1, SameProgram, SameSymbols DEF TypesOK
  <1>8. StackOK'
    <2>1. \A k \in DOMAIN stack : FrameOK(k)' <=> FrameOK(k)
      BY <1>2, SameProgram DEF FrameOK
    <2> QED
      BY <1>1, <1>2, <2>1, SameProgram DEF StackOK
  <1>9. RecursionReported' <=> RecursionReported
    BY <1>2 DEF RecursionReported
  <1>10. AnswerOK'
    <2>1. Top' = Top /\ Name' = Name /\ (Visible' <=> Visible)
      BY <1>2 DEF Top, Name, Visible
    <2> QED
      BY <1>1, <1>2, <1>9, <2>1, SameProgram, SameSymbols DEF AnswerOK
  <1>11. ReadsOK'
    <2> SUFFICES ASSUME NEW h \in Frames', h.job = "initializer" PROVE ReadOK(h)'
      BY DEF ReadsOK
    <2>1. PICK k \in DOMAIN stack : h = stack[k]
      BY <1>2 DEF Frames
    <2>2. FrameOK(k) /\ h \in Frames /\ h \in FrameSet
      BY <1>1, <2>1, FrameTyped DEF StackOK, Frames
    <2>3. ReadOK(h) /\ h.uses = Decl(h.decl).uses /\ h.next <= Len(h.uses) + 1
      BY <1>1, <2>1, <2>2 DEF ReadsOK, FrameOK
    <2>4. Computed \subseteq Computed' /\ \A n \in Names : HasFlag(n, "INITIALIZED") => HasFlag(n, "INITIALIZED")'
      BY <1>2, SameSymbols
    <2> QED
      BY <1>2, <1>9, <2>2, <2>3, <2>4, SameReads
  <1>12. ValuesOK'
    BY <1>1, <1>2, SameProgram, SameSymbols DEF ValuesOK
  <1>13. CheckedOK'
    <2>1. \A i, n : CheckTaken(i, n)' <=> CheckTaken(i, n)
      BY <1>2 DEF CheckTaken, Passed, Positions
    <2> QED
      BY <1>1, <1>2, <2>1, SameProgram, SameSymbols DEF CheckedOK
  <1>14. CyclesOK'
    BY <1>1, <1>2, <1>9, SameProgram, SameSymbols DEF CyclesOK
  <1> QED
    BY <1>3, <1>4, <1>6, <1>7, <1>8, <1>10, <1>11, <1>12, <1>13, <1>14 DEF IInv

\* The inductive invariant holds in every state of every program.
THEOREM InvariantHolds == Spec => []IInv
  <1>1. Init => IInv
    BY InitOK
  <1>2. IInv /\ [Next]_vars => IInv'
    <2> SUFFICES ASSUME IInv, [Next]_vars PROVE IInv'
      OBVIOUS
    <2>1. CASE RegisterNames
      BY <2>1, RegisterStep
    <2>2. CASE PlaceSteps
      BY <2>2, PlaceStep
    <2>3. CASE ResolveType
      BY <2>3, ResolveTypeStep
    <2>4. CASE CheckDeclaration
      BY <2>4, CheckDeclarationStep
    <2>5. CASE CheckFunction
      BY <2>5, CheckFunctionStep
    <2>6. CASE Demand
      BY <2>6, DemandStep
    <2>7. CASE UseName
      BY <2>7, UseNameStep
    <2>8. CASE UseUndeclared
      BY <2>8, UseUndeclaredStep
    <2>9. CASE FinishLocalSize
      BY <2>9, FinishLocalSizeStep
    <2>10. CASE FinishType
      BY <2>10, FinishTypeStep
    <2>11. CASE FinishInitializer
      BY <2>11, FinishInitializerStep
    <2>12. CASE Finished
      BY <2>12, StutterStep DEF Finished
    <2>13. CASE UNCHANGED vars
      BY <2>13, StutterStep
    <2> QED
      BY <2>1, <2>2, <2>3, <2>4, <2>5, <2>6, <2>7, <2>8, <2>9, <2>10, <2>11, <2>12, <2>13
      DEF Next, PlaceSteps
  <1> QED
    BY <1>1, <1>2, PTL DEF Spec

-----------------------------------------------------------------------------
(* What follows from it.                                                   *)

\* At the end every variable without a size is evaluated.
LEMMA AllEvaluated ==
  ASSUME IInv, Done, NEW n \in Globals, Decl(n).size = NONE
  PROVE  HasFlag(n, "INITIALIZED")
  <1>1. n \in Names /\ StateTyped /\ CheckedOK /\ FlagsOK /\ loop = "done" /\ stack = <<>>
    BY DEF IInv, Globals, Done
  <1>2. PICK i \in DOMAIN Units : Home(n) = Units[i]
    BY <1>1, ProgramTyped DEF StateTyped, UnitSet
  <1>3. HasFlag(n, "INITIALIZED") \/ HasFlag(n, "COMPUTING")
    BY <1>1, <1>2 DEF CheckedOK, CheckTaken
  <1>4. ~Computing(n)
    BY <1>1 DEF Computing
  <1> QED
    BY <1>1, <1>3, <1>4 DEF FlagsOK

\* A constant has the value that its declarations determine, whatever order they
\* are declared and mentioned in, and at the end every foldable constant has one.
THEOREM ConstantsFoldHolds == Spec => []ConstantsFold
  <1>1. IInv => ConstantsFold
    <2> SUFFICES ASSUME IInv PROVE ConstantsFold
      OBVIOUS
    <2>1. ValuesOK /\ FlagsOK
      BY DEF IInv
    <2>2. ASSUME NEW n \in Computed
          PROVE  n \in Foldable /\ symbols[Home(n)][n].value = SumOf(Decl(n).literal, MentionedValues(n))
      <3>1. HasFlag(n, "INITIALIZED") /\ n \in Names
        BY <2>1, <2>2 DEF FlagsOK, Computed, Globals
      <3> QED
        BY <2>1, <3>1 DEF ValuesOK
    <2>3. ASSUME Done, NEW n \in Foldable PROVE n \in Computed
      <3>1. n \in Globals /\ n \in Names /\ Decl(n).size = NONE
        BY <2>3, FoldableMentions DEF Foldable, Globals, Constant
      <3>2. HasFlag(n, "INITIALIZED")
        BY <2>3, <3>1, AllEvaluated
      <3> QED
        BY <2>1, <2>3, <3>1, <3>2 DEF ValuesOK
    <2> QED
      BY <2>2, <2>3 DEF ConstantsFold
  <1> QED
    BY <1>1, InvariantHolds, PTL

\* COMPUTING marks exactly what is being evaluated, and a recursion is reported if
\* and only if there is one, so evaluation never leaves one unnoticed.
THEOREM CyclesReportedHolds == Spec => []CyclesReported
  <1>1. IInv => TypeOK
    <2> SUFFICES ASSUME IInv PROVE TypeOK
      OBVIOUS
    <2>1. StateTyped /\ ScopesOK /\ FlagsOK /\ StackOK
      BY DEF IInv
    <2>2. ASSUME NEW u \in UnitSet, NEW n \in Names, n \in DOMAIN symbols[u]
          PROVE  /\ symbols[u][n].flags \subseteq Flags
                 /\ "COMPUTING" \in symbols[u][n].flags
                      <=> \E i \in Evaluating : stack[i].decl = n /\ stack[i].scope = u
                 /\ "COMPUTED" \in symbols[u][n].flags => {"CONST", "INITIALIZED"} \subseteq symbols[u][n].flags
      <3>1. symbols[u][n].flags \subseteq Flags
        BY <2>1, <2>2, SymbolTyped DEF SymbolSet
      <3>2. \A k \in DOMAIN stack : stack[k].scope = Home(stack[k].decl)
        BY <2>1 DEF StackOK, FrameOK
      <3>3. CASE Home(n) = u
        <4>1. \A flag : HasFlag(n, flag) <=> flag \in symbols[u][n].flags
          BY <2>2, <3>3 DEF HasFlag
        <4>2. Computing(n) <=> \E i \in Evaluating : stack[i].decl = n /\ stack[i].scope = u
          BY <3>2, <3>3 DEF Computing, Evaluating
        <4>3. /\ HasFlag(n, "COMPUTING") <=> Computing(n)
              /\ HasFlag(n, "COMPUTED") => HasFlag(n, "CONST") /\ HasFlag(n, "INITIALIZED")
          BY <2>1 DEF FlagsOK
        <4> QED
          BY <3>1, <4>1, <4>2, <4>3
      <3>4. CASE Home(n) # u
        <4>1. symbols[u][n].flags = {}
          BY <2>1, <2>2, <3>4 DEF ScopesOK
        <4> QED
          BY <3>1, <3>2, <3>4, <4>1 DEF Evaluating
      <3> QED
        BY <3>3, <3>4
    <2>3. ASSUME NEW i \in Evaluating, NEW j \in Evaluating, i # j
          PROVE  stack[i].decl # stack[j].decl
      <3>1. i \in DOMAIN stack /\ j \in DOMAIN stack /\ stack[i].job = "initializer" /\ stack[j].job = "initializer"
        BY DEF Evaluating
      <3>2. i < j \/ j < i
        BY <2>1, <2>3, <3>1 DEF StateTyped
      <3> QED
        BY <2>1, <3>1, <3>2 DEF StackOK
    <2> QED
      BY <2>1, <2>2, <2>3 DEF TypeOK, StateTyped
  <1>2. IInv /\ Done => (RecursionReported <=> \E n \in Globals : Constant(n) /\ Recursive(n))
    <2> SUFFICES ASSUME IInv, Done, ~RecursionReported,
                        NEW n \in Globals, Constant(n), Recursive(n)
                 PROVE  FALSE
      BY DEF IInv, CyclesOK
    <2>1. HasFlag(n, "INITIALIZED") /\ n \in Names
      BY AllEvaluated DEF Constant, Globals
    <2> QED
      BY <2>1 DEF IInv, CyclesOK
  <1>3. IInv => CyclesReported
    BY <1>1, <1>2 DEF CyclesReported, RecursionReported
  <1> QED
    BY <1>3, InvariantHolds, PTL

\* A declaration that was evaluated is never entered again.
THEOREM EvaluatedOnceHolds == Spec => EvaluatedOnce
  <1>1. ASSUME IInv, IInv', Next, NEW n \in Globals, HasFlag(n, "INITIALIZED")
        PROVE  ~HasFlag(n, "COMPUTING")'
    <2>1. StateTyped /\ FlagsOK /\ StackOK /\ FlagsOK' /\ n \in Names
      BY <1>1 DEF IInv, Globals
    <2>2. pass = 1 /\ last_checked_pass[n] = 1 /\ last_checked_pass \in [Names -> {0, 1}]
      BY <1>1, <2>1 DEF FlagsOK, StateTyped
    <2>3. \/ last_checked_pass' = last_checked_pass
          \/ \E m : last_checked_pass' = [last_checked_pass EXCEPT ![m] = pass]
      BY <1>1 DEF Next, RegisterNames, NextLoop, NextUnit, StartPass, Return, ResolveType,
                  CheckDeclaration, CheckFunction, Demand, UseName, UseUndeclared,
                  FinishLocalSize, FinishType, FinishInitializer, Finished, vars, ReturnEarly
    <2>4. last_checked_pass'[n] = 1
      BY <2>1, <2>2, <2>3
    <2>5. HasFlag(n, "INITIALIZED")' /\ ~Computing(n)'
      BY <2>1, <2>4 DEF FlagsOK
    <2> QED
      BY <2>1, <2>5 DEF FlagsOK
  <1>2. IInv /\ IInv' /\ [Next]_vars
          => [\A n \in Globals : HasFlag(n, "INITIALIZED") => ~HasFlag(n, "COMPUTING")']_vars
    BY <1>1
  <1> QED
    BY <1>2, InvariantHolds, PTL DEF Spec, EvaluatedOnce

=============================================================================
