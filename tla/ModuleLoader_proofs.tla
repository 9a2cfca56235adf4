------------------------ MODULE ModuleLoader_proofs ------------------------
(***************************************************************************)
(* For every set of source trees, entry, library directory and depth       *)
(* limit: the loader's state stays well typed, the units table always      *)
(* holds exactly the finished units and the ones being loaded, each once,  *)
(* and the loader implements DependencyOrder.                              *)
(*                                                                         *)
(* For the last, every path, frame and registration is traced back to the  *)
(* import it comes from (Provenance); a failure is justified by the chain  *)
(* of imports on the call stack, of which no unit occurs twice.            *)
(***************************************************************************)
EXTENDS ModuleLoader, LeastNumber, SequenceTheorems, TLAPS

-----------------------------------------------------------------------------
(* Sequences and maps.                                                     *)

\* Dropping the last element of a sequence and what is then in it.
LEMMA FrontFacts ==
  ASSUME NEW S, NEW s \in Seq(S), s # <<>>
  PROVE  /\ Len(s) \in Nat \ {0}
         /\ s[Len(s)] \in S
         /\ SubSeq(s, 1, Len(s) - 1) \in Seq(S)
         /\ Len(SubSeq(s, 1, Len(s) - 1)) = Len(s) - 1
         /\ \A i \in 1..Len(s) - 1 : SubSeq(s, 1, Len(s) - 1)[i] = s[i]
<1>1. Len(s) \in Nat \ {0}
  BY EmptySeq
<1>2. \A i \in 1..Len(s) : s[i] \in S
  BY ElementOfSeq
<1> DEFINE n == Len(s) - 1
<1>3. n \in Int /\ n \in Nat /\ \A i \in 1..n : s[i] \in S
  BY <1>1, <1>2
<1> HIDE DEF n
<1>4. /\ SubSeq(s, 1, n) \in Seq(S)
      /\ Len(SubSeq(s, 1, n)) = IF 1 <= n THEN n - 1 + 1 ELSE 0
      /\ \A i \in 1..(n - 1 + 1) : SubSeq(s, 1, n)[i] = s[1 + i - 1]
  BY <1>3, SubSeqProperties
<1>5. Len(SubSeq(s, 1, n)) = n /\ \A i \in 1..n : SubSeq(s, 1, n)[i] = s[i]
  BY <1>3, <1>4
<1> QED BY <1>1, <1>2, <1>4, <1>5 DEF n

\* A prefix of a sequence is a sequence over the same set.
LEMMA PrefixType ==
  ASSUME NEW S, NEW s \in Seq(S), NEW n \in Int, n <= Len(s)
  PROVE  SubSeq(s, 1, n) \in Seq(S)
  OBVIOUS

\* Replacing one element keeps length, type and the other elements.
LEMMA ReplaceFacts ==
  ASSUME NEW S, NEW s \in Seq(S), NEW i \in 1..Len(s), NEW e \in S
  PROVE  /\ [s EXCEPT ![i] = e] \in Seq(S)
         /\ Len([s EXCEPT ![i] = e]) = Len(s)
  OBVIOUS

\* A map keeps its range when a value of that range is put into it.
LEMMA PutRange ==
  ASSUME NEW m, NEW k, NEW v, NEW S, Values(m) \subseteq S, v \in S
  PROVE  Values(Put(m, k, v)) \subseteq S /\ DOMAIN Put(m, k, v) = DOMAIN m \cup {k}
  BY DEF Values, Put

\* A map keeps its range when a key is dropped from it.
LEMMA DropRange ==
  ASSUME NEW m, NEW k, NEW S, Values(m) \subseteq S
  PROVE  Values(Drop(m, k)) \subseteq S
  BY DEF Values, Drop

-----------------------------------------------------------------------------
(* Where imports lead, the targets are paths again.                        *)

\* A file's directory is a path.
LEMMA DirNameType ==
  ASSUME NEW f \in Seq(Names)
  PROVE  DirName(f) \in Seq(Names)
  BY PrefixType, LenProperties DEF DirName

\* What an import can be resolved to is typed.
LEMMA TargetTypes ==
  ASSUME NEW t \in Trees, NEW root \in Seq(Names), NEW f \in DOMAIN t,
         NEW i \in 1..Len(t[f].imports),
         f \in DOMAIN logicalOf, Values(logicalOf) \subseteq Seq(Names)
  PROVE  /\ ImportFile(t, root, f, t[f].imports[i]) \in Seq(Names)
         /\ ImportLogical(f, t[f].imports[i]) \in Seq(Names)
<1> DEFINE imp == t[f].imports[i]
<1>1. /\ f \in Seq(Names)
      /\ imp.form \in {"relative", "root", "library"}
      /\ imp.form = "relative" => imp.dots \in Nat \ {0}
      /\ imp.parts \in Seq(Names)
  BY TreesAssumption
<1>2. ASSUME NEW d \in Seq(Names), NEW n \in Nat \ {0}
      PROVE  ClimbFrom(d, n) \in Seq(Names)
  <2>1. Len(d) \in Nat
    BY LenProperties
  <2>2. CASE Len(d) >= n - 1
    BY <2>1, <2>2, PrefixType DEF ClimbFrom
  <2>3. CASE ~(Len(d) >= n - 1)
    BY <2>1, <2>3, PrefixType DEF ClimbFrom
  <2> QED BY <2>2, <2>3
<1>3. ImportBase(root, f, imp) \in Seq(Names)
  <2>1. CASE imp.form = "relative"
    <3>1. DirName(f) \in Seq(Names)
      BY <1>1, DirNameType
    <3> QED BY <2>1, <3>1, <1>1, <1>2 DEF ImportBase
  <2>2. CASE imp.form = "root"
    BY <2>2 DEF ImportBase
  <2>3. CASE imp.form = "library"
    BY <2>3, PathAssumption DEF ImportBase
  <2> QED BY <1>1, <2>1, <2>2, <2>3
<1>4. ImportFile(t, root, f, imp) \in Seq(Names)
  <2>1. ImportBase(root, f, imp) \o imp.parts \in Seq(Names)
    BY <1>1, <1>3, ConcatProperties
  <2>2. Append(ImportBase(root, f, imp) \o imp.parts, "module") \in Seq(Names)
    BY <2>1, PathAssumption, AppendProperties
  <2> QED BY <2>1, <2>2 DEF ImportFile, Probe
<1>5. ImportLogical(f, imp) \in Seq(Names)
  <2>1. logicalOf[f] \in Seq(Names) /\ <<>> \in Seq(Names)
    BY DEF Values
  <2> DEFINE stem == IF imp.form = "relative" THEN logicalOf[f] ELSE <<>>
  <2>2. stem \in Seq(Names)
    BY <2>1
  <2>3. stem \o imp.parts \in Seq(Names)
    BY <1>1, <2>2, ConcatProperties
  <2> QED BY <2>3 DEF ImportLogical
<1> QED BY <1>4, <1>5

-----------------------------------------------------------------------------
IInv == tree \in Trees /\ LoaderTypeOK /\ UnitsAccounted

\* The loader starts in the invariant.
LEMMA LoaderInitInv == LoaderInit => IInv
<1> SUFFICES ASSUME LoaderInit PROVE IInv
  OBVIOUS
<1>1. LoaderTypeOK
  BY PathAssumption DEF LoaderInit, LoaderTypeOK, Values, Steps, Call, Run, Return
<1>2. UnitsAccounted
  BY DEF LoaderInit, UnitsAccounted, FilesIn, StackFiles
<1> QED BY <1>1, <1>2 DEF IInv, LoaderInit

-----------------------------------------------------------------------------
(* The steps.                                                              *)

\* What a pending call, a frame and the popped stack are made of.
LEMMA CallType ==
  ASSUME LoaderTypeOK, ctl.op = "call"
  PROVE  ctl.file \in Seq(Names) /\ ctl.logical \in Seq(Names)
  BY DEF LoaderTypeOK, Steps, Run, Return

\* The file on top of the stack is a unit with a logical path.
LEMMA TopType ==
  ASSUME LoaderTypeOK, stack # <<>>
  PROVE  /\ Len(stack) \in Nat \ {0}
         /\ Top \in Frames
         /\ Top.file \in DOMAIN tree
         /\ Top.logical \in Seq(Names)
         /\ Top.next \in Nat \ {0}
         /\ Top.target \in Seq(Names)
         /\ Top.file \in StackFiles
<1>1. stack \in Seq(Frames)
  BY DEF LoaderTypeOK
<1>2. Len(stack) \in Nat \ {0} /\ Top \in Frames
  BY <1>1, FrontFacts DEF Top
<1>3. Len(stack) \in 1..Len(stack)
  BY <1>2
<1>4. Top.file \in StackFiles
  BY <1>3 DEF Top, StackFiles
<1> QED BY <1>2, <1>4 DEF Frames

\* What is left of the stack when its top is done.
LEMMA PopFacts ==
  ASSUME LoaderTypeOK, UnitsAccounted, stack # <<>>, stack' = Pop
  PROVE  /\ stack' \in Seq(Frames)
         /\ StackFiles' = StackFiles \ {Top.file}
         /\ \A i, j \in 1..Len(stack') : stack'[i].file = stack'[j].file => i = j
<1>1. stack \in Seq(Frames)
  BY DEF LoaderTypeOK
<1>2. /\ Len(stack) \in Nat \ {0}
      /\ stack' \in Seq(Frames)
      /\ Len(stack') = Len(stack) - 1
      /\ \A i \in 1..Len(stack) - 1 : stack'[i] = stack[i]
  BY <1>1, FrontFacts DEF Pop
<1>3. \A i, j \in 1..Len(stack) : stack[i].file = stack[j].file => i = j
  BY DEF UnitsAccounted
<1>4. StackFiles' = {stack[i].file : i \in 1..Len(stack) - 1}
  BY <1>2 DEF StackFiles
<1>5. 1..Len(stack) = 1..(Len(stack) - 1) \cup {Len(stack)}
  BY <1>2
<1>6. {stack[i].file : i \in 1..Len(stack) - 1} = StackFiles \ {Top.file}
  BY <1>2, <1>3, <1>5 DEF StackFiles, Top
<1>7. \A i, j \in 1..Len(stack') : stack'[i].file = stack'[j].file => i = j
  BY <1>2, <1>3
<1> QED BY <1>2, <1>4, <1>6, <1>7

\* The accounts depend on the units, the finished ones and the stack only.
LEMMA SameAccounts ==
  ASSUME UnitsAccounted, UNCHANGED <<units, ordered, stack>>
  PROVE  UnitsAccounted'
  BY DEF UnitsAccounted, FilesIn, StackFiles

\* Changing a field of the innermost frame other than its file changes no set
\* of files.
LEMMA SameFiles ==
  ASSUME LoaderTypeOK, UnitsAccounted, NEW e \in Frames, stack # <<>>,
         e.file = Top.file, stack' = [stack EXCEPT ![Len(stack)] = e],
         tree' = tree, units' = units, ordered' = ordered
  PROVE  stack' \in Seq(Frames) /\ stack' # <<>> /\ UnitsAccounted'
<1>1. stack \in Seq(Frames) /\ Len(stack) \in 1..Len(stack)
  BY TopType DEF LoaderTypeOK
<1>2. stack' \in Seq(Frames) /\ Len(stack') = Len(stack)
  BY <1>1, ReplaceFacts
<1>3. \A i \in 1..Len(stack) : stack'[i].file = stack[i].file
  BY <1>1 DEF Top
<1>4. StackFiles' = StackFiles
  BY <1>2, <1>3 DEF StackFiles
<1>5. stack' # <<>>
  BY <1>1, <1>2
<1> QED BY <1>2, <1>3, <1>4, <1>5 DEF UnitsAccounted, FilesIn

\* Every step of the loader keeps the invariant.
LEMMA LoaderStepInv == IInv /\ [LoaderNext]_loaderVars => IInv'
<1> SUFFICES ASSUME IInv, [LoaderNext]_loaderVars PROVE IInv'
  OBVIOUS
<1> USE DEF IInv
<1>0. /\ LoaderTypeOK /\ UnitsAccounted
      /\ stack \in Seq(Frames) /\ ordered \in Seq(DOMAIN tree)
  BY DEF LoaderTypeOK
<1>1. CASE TooDeep
  <2>1. ctl' \in Steps /\ ctl' # Run
    BY <1>1 DEF TooDeep, Steps, Return, Codes, Run
  <2>2. LoaderTypeOK'
    BY <1>0, <1>1, <2>1 DEF TooDeep, LoaderTypeOK, Frames
  <2>3. UNCHANGED <<tree, units, ordered, stack>>
    BY <1>1 DEF TooDeep
  <2> QED BY <1>0, <2>2, <2>3, SameAccounts
<1>2. CASE Unresolved
  <2>1. ctl' \in Steps /\ ctl' # Run
    BY <1>2 DEF Unresolved, Steps, Return, Codes, Run
  <2>2. LoaderTypeOK'
    BY <1>0, <1>2, <2>1 DEF Unresolved, LoaderTypeOK, Frames
  <2>3. UNCHANGED <<tree, units, ordered, stack>>
    BY <1>2 DEF Unresolved
  <2> QED BY <1>0, <2>2, <2>3, SameAccounts
<1>3. CASE AlreadyLoaded
  <2>1. /\ ctl' \in Steps /\ ctl' # Run
        /\ tree' = tree /\ units' = units /\ ordered' = ordered /\ stack' = stack
    BY <1>3 DEF AlreadyLoaded, Steps, Return, Codes, Run
  <2>2. ctl.file \in Seq(Names) /\ ctl.logical \in Seq(Names) /\ ctl.file \in DOMAIN tree
    BY <1>0, <1>3, CallType DEF AlreadyLoaded
  <2>3. projectRoot' \in Seq(Names) \cup {NULL} /\ (stack # <<>> => projectRoot' # NULL)
    BY <1>0, <1>3, <2>2, DirNameType DEF AlreadyLoaded, SetProjectRoot, LoaderTypeOK
  <2>4. Values(byLogical') \subseteq DOMAIN tree
    BY <1>0, <1>3, <2>2, PutRange DEF AlreadyLoaded, LoaderTypeOK
  <2>5. Values(logicalOf') \subseteq Seq(Names) /\ units \subseteq DOMAIN logicalOf'
    <3>1. Values(logicalOf) \subseteq Seq(Names) /\ units \subseteq DOMAIN logicalOf
      BY <1>0 DEF LoaderTypeOK
    <3>2. logicalOf' = logicalOf \/ logicalOf' = Put(logicalOf, ctl.file, ctl.logical)
      BY <1>3 DEF AlreadyLoaded
    <3>3. /\ Values(Put(logicalOf, ctl.file, ctl.logical)) \subseteq Seq(Names)
          /\ DOMAIN Put(logicalOf, ctl.file, ctl.logical) = DOMAIN logicalOf \cup {ctl.file}
      BY <2>2, <3>1, PutRange
    <3> QED BY <3>1, <3>2, <3>3
  <2>6. LoaderTypeOK'
    BY <1>0, <2>1, <2>3, <2>4, <2>5 DEF LoaderTypeOK, Frames
  <2> QED BY <1>0, <2>1, <2>6, SameAccounts
<1>4. CASE Rejected
  <2>1. /\ tree' = tree /\ units' = units /\ ordered' = ordered /\ stack' = stack
        /\ logicalOf' = logicalOf /\ byLogical' = byLogical
    BY <1>4 DEF Rejected
  <2>2. ctl' \in Steps /\ ctl' # Run
    <3>1. tree[ctl.file].fate \in DOMAIN Fates
      BY <1>4, TreesAssumption DEF Rejected
    <3>2. Fates[tree[ctl.file].fate] \in Codes
      BY <3>1 DEF Fates, Codes
    <3> QED BY <1>4, <3>2 DEF Rejected, Steps, Return, Run
  <2>3. projectRoot' \in Seq(Names) \cup {NULL} /\ (stack # <<>> => projectRoot' # NULL)
    BY <1>0, <1>4, CallType, DirNameType DEF Rejected, SetProjectRoot, LoaderTypeOK
  <2>4. LoaderTypeOK'
    BY <1>0, <2>1, <2>2, <2>3 DEF LoaderTypeOK, Frames
  <2> QED BY <1>0, <2>1, <2>4, SameAccounts
<1>5. CASE CreateUnit
  <2> DEFINE e == [file |-> ctl.file, logical |-> ctl.logical, next |-> 1, target |-> <<>>]
  <2>1. /\ tree' = tree /\ ordered' = ordered /\ ctl' = Run
        /\ units' = units \cup {ctl.file} /\ ctl.file \in DOMAIN tree \ units
        /\ stack' = Append(stack, e)
        /\ ctl.file \in Seq(Names) /\ ctl.logical \in Seq(Names)
    BY <1>0, <1>5, CallType DEF CreateUnit
  <2>2. projectRoot' \in Seq(Names)
    BY <1>0, <1>5, <2>1, DirNameType DEF CreateUnit, SetProjectRoot, LoaderTypeOK
  <2>3. e \in Frames
    BY <2>1 DEF Frames
  <2>4. /\ stack' \in Seq(Frames)
        /\ Len(stack) \in Nat /\ Len(stack') = Len(stack) + 1
        /\ \A i \in 1..Len(stack) : stack'[i] = stack[i]
        /\ stack'[Len(stack) + 1] = e
    BY <1>0, <2>1, <2>3, AppendProperties, LenProperties
  <2>5. Values(byLogical') \subseteq DOMAIN tree
    BY <1>0, <1>5, <2>1, PutRange DEF CreateUnit, LoaderTypeOK
  <2>6. Values(logicalOf') \subseteq Seq(Names) /\ units' \subseteq DOMAIN logicalOf'
    <3>1. Values(logicalOf) \subseteq Seq(Names) /\ units \subseteq DOMAIN logicalOf
      BY <1>0 DEF LoaderTypeOK
    <3>2. logicalOf' = Put(logicalOf, ctl.file, ctl.logical)
      BY <1>5 DEF CreateUnit
    <3>3. /\ Values(Put(logicalOf, ctl.file, ctl.logical)) \subseteq Seq(Names)
          /\ DOMAIN Put(logicalOf, ctl.file, ctl.logical) = DOMAIN logicalOf \cup {ctl.file}
      BY <2>1, <3>1, PutRange
    <3> QED BY <2>1, <3>1, <3>2, <3>3
  <2>7. LoaderTypeOK'
    <3>1. stack' # <<>> /\ projectRoot' # NULL
      BY <2>2, <2>4, PathAssumption
    <3> QED BY <1>0, <2>1, <2>2, <2>4, <2>5, <2>6, <3>1 DEF LoaderTypeOK, Steps, Frames
  <2>8. UnitsAccounted'
    <3>1. 1..Len(stack') = 1..Len(stack) \cup {Len(stack) + 1}
      BY <2>4
    <3>2. StackFiles' = StackFiles \cup {ctl.file}
      BY <2>4, <3>1 DEF StackFiles
    <3>3. \A i \in 1..Len(stack) : stack[i].file # ctl.file
      BY <1>0, <2>1 DEF UnitsAccounted, StackFiles
    <3>4. \A i, j \in 1..Len(stack') : stack'[i].file = stack'[j].file => i = j
      BY <1>0, <2>4, <3>1, <3>3 DEF UnitsAccounted
    <3> QED BY <1>0, <2>1, <3>2, <3>4 DEF UnitsAccounted, FilesIn
  <2> QED BY <2>1, <2>7, <2>8
<1>6. CASE FollowImport
  <2> DEFINE imp    == tree[Top.file].imports[Top.next]
             target == ImportLogical(Top.file, imp)
             file   == ImportFile(tree, projectRoot, Top.file, imp)
             e      == [Top EXCEPT !.target = target]
  <2>1. /\ ctl' = Call(file, target)
        /\ stack' = [stack EXCEPT ![Len(stack)] = e]
        /\ stack # <<>> /\ Top.next <= Len(tree[Top.file].imports)
        /\ UNCHANGED <<tree, projectRoot, units, logicalOf, byLogical, ordered>>
    BY <1>0, <1>6 DEF FollowImport, ImportsLeft, LoaderTypeOK, Run, Call, Steps, Return, Top
  <2>2. /\ Top.file \in DOMAIN tree /\ Top.next \in 1..Len(tree[Top.file].imports)
        /\ Top.file \in DOMAIN logicalOf
    BY <1>0, <2>1, TopType, TreesAssumption DEF UnitsAccounted, LoaderTypeOK
  <2>3. projectRoot \in Seq(Names) /\ Values(logicalOf) \subseteq Seq(Names)
    BY <1>0, <2>1 DEF LoaderTypeOK
  <2>4. file \in Seq(Names) /\ target \in Seq(Names)
    BY <2>2, <2>3, TargetTypes
  <2>5. e \in Frames /\ e.file = Top.file
    BY <1>0, <2>1, <2>4, TopType DEF Frames
  <2>6. stack' \in Seq(Frames) /\ stack' # <<>> /\ UnitsAccounted'
    BY <1>0, <2>1, <2>5, SameFiles
  <2>7. ctl' \in Steps /\ ctl' # Run
    BY <2>1, <2>4 DEF Steps, Call, Run
  <2>8. LoaderTypeOK'
    BY <1>0, <2>1, <2>6, <2>7 DEF LoaderTypeOK, Frames
  <2> QED BY <2>1, <2>6, <2>8
<1>7. CASE ImportLoaded
  <2> DEFINE e == [Top EXCEPT !.next = @ + 1]
  <2>1. /\ ctl' = Run /\ stack # <<>>
        /\ stack' = [stack EXCEPT ![Len(stack)] = e]
        /\ UNCHANGED <<tree, projectRoot, units, logicalOf, byLogical, ordered>>
    BY <1>7 DEF ImportLoaded, Top
  <2>2. e \in Frames /\ e.file = Top.file
    <3>1. Top \in Frames /\ Top.next + 1 \in Nat \ {0}
      BY <1>0, <2>1, TopType
    <3> QED BY <3>1 DEF Frames
  <2>3. stack' \in Seq(Frames) /\ stack' # <<>> /\ UnitsAccounted'
    BY <1>0, <2>1, <2>2, SameFiles
  <2>4. LoaderTypeOK'
    BY <1>0, <2>1, <2>3 DEF LoaderTypeOK, Frames, Steps
  <2> QED BY <2>1, <2>3, <2>4
<1>8. CASE ImportFailed
  <2>1. /\ stack # <<>> /\ stack' = Pop /\ units' = units \ {Top.file}
        /\ byLogical' = Drop(byLogical, Top.logical) /\ ctl # Run
        /\ UNCHANGED <<tree, projectRoot, logicalOf, ordered, ctl>>
    BY <1>8 DEF ImportFailed, Run
  <2>2. /\ stack' \in Seq(Frames)
        /\ StackFiles' = StackFiles \ {Top.file}
        /\ \A i, j \in 1..Len(stack') : stack'[i].file = stack'[j].file => i = j
    BY <1>0, <2>1, PopFacts
  <2>3. Values(byLogical') \subseteq DOMAIN tree
    BY <1>0, <2>1, DropRange DEF LoaderTypeOK
  <2>4. LoaderTypeOK'
    BY <1>0, <2>1, <2>2, <2>3 DEF LoaderTypeOK, Frames
  <2>5. Top.file \in StackFiles
    BY <1>0, <2>1, TopType
  <2>6. UnitsAccounted'
    BY <1>0, <2>1, <2>2, <2>5 DEF UnitsAccounted, FilesIn
  <2> QED BY <2>1, <2>4, <2>6
<1>9. CASE FinishUnit
  <2>1. /\ stack # <<>> /\ stack' = Pop /\ ordered' = Append(ordered, Top.file)
        /\ ctl' = Return("EXIT_OK")
        /\ UNCHANGED <<tree, projectRoot, units, logicalOf, byLogical>>
    BY <1>0, <1>9 DEF FinishUnit, LoaderTypeOK, Run, Call, Steps, Return
  <2>2. /\ stack' \in Seq(Frames)
        /\ StackFiles' = StackFiles \ {Top.file}
        /\ \A i, j \in 1..Len(stack') : stack'[i].file = stack'[j].file => i = j
    BY <1>0, <2>1, PopFacts
  <2>3. Top.file \in StackFiles /\ Top.file \in DOMAIN tree
    BY <1>0, <2>1, TopType
  <2>4. /\ ordered' \in Seq(DOMAIN tree)
        /\ Len(ordered) \in Nat /\ Len(ordered') = Len(ordered) + 1
        /\ \A i \in 1..Len(ordered) : ordered'[i] = ordered[i]
        /\ ordered'[Len(ordered) + 1] = Top.file
    BY <1>0, <2>1, <2>3, AppendProperties, LenProperties
  <2>5. 1..Len(ordered') = 1..Len(ordered) \cup {Len(ordered) + 1}
    BY <2>4
  <2>6. FilesIn(ordered') = FilesIn(ordered) \cup {Top.file}
    BY <2>4, <2>5 DEF FilesIn
  <2>7. \A i \in 1..Len(ordered) : ordered[i] # Top.file
    BY <1>0, <2>3 DEF UnitsAccounted, FilesIn
  <2>8. \A i, j \in 1..Len(ordered') : ordered'[i] = ordered'[j] => i = j
    BY <1>0, <2>4, <2>5, <2>7 DEF UnitsAccounted
  <2>9. UnitsAccounted'
    <3>1. /\ units = FilesIn(ordered) \cup StackFiles
          /\ FilesIn(ordered) \cap StackFiles = {}
      BY <1>0 DEF UnitsAccounted
    <3>2. units' = FilesIn(ordered') \cup StackFiles' /\ FilesIn(ordered') \cap StackFiles' = {}
      BY <2>1, <2>2, <2>3, <2>6, <3>1
    <3> QED BY <2>2, <2>8, <3>2 DEF UnitsAccounted, FilesIn
  <2>10. ctl' \in Steps /\ ctl' # Run
    BY <2>1 DEF Steps, Return, Codes, Run
  <2>11. LoaderTypeOK'
    BY <1>0, <2>1, <2>2, <2>4, <2>10 DEF LoaderTypeOK, Frames
  <2> QED BY <2>1, <2>9, <2>11
<1>10. CASE UNCHANGED loaderVars
  <2>1. UNCHANGED <<tree, units, ordered, stack>>
    BY <1>10 DEF loaderVars
  <2>2. LoaderTypeOK'
    BY <1>0, <1>10 DEF loaderVars, LoaderTypeOK, Frames
  <2> QED BY <1>0, <2>1, <2>2, SameAccounts
<1> QED BY <1>1, <1>2, <1>3, <1>4, <1>5, <1>6, <1>7, <1>8, <1>9, <1>10 DEF LoaderNext

\* The two invariants hold together, for every value of the constants.
THEOREM LoaderInvariant == LoaderSpec => []IInv
  BY LoaderInitInv, LoaderStepInv, PTL DEF LoaderSpec

\* The loader's variables never leave their types.
THEOREM LoaderTyped == LoaderSpec => []LoaderTypeOK
<1>1. IInv => LoaderTypeOK
  BY DEF IInv
<1> QED BY LoaderInvariant, <1>1, PTL

\* The units table holds exactly the finished units and the ones on the call
\* stack, each once: no file is loaded twice, and a failed load leaves no
\* half-loaded unit behind.
THEOREM UnitsAlwaysAccounted == LoaderSpec => []UnitsAccounted
<1>1. IInv => UnitsAccounted
  BY DEF IInv
<1> QED BY LoaderInvariant, <1>1, PTL

-----------------------------------------------------------------------------
(* The import graph.                                                       *)

\* An import of a file is an edge.
LEMMA ImportIsEdge ==
  ASSUME NEW f \in DOMAIN tree, NEW i \in 1..Len(tree[f].imports)
  PROVE  <<f, Named(<<f, i>>)>> \in ImportEdges
  BY DEF ImportEdges

\* An edge is an import of a file.
LEMMA EdgeIsImport ==
  ASSUME NEW e \in ImportEdges
  PROVE  \E f \in DOMAIN tree : \E i \in 1..Len(tree[f].imports) : e = <<f, Named(<<f, i>>)>>
  BY DEF ImportEdges

\* A file reaches itself.
LEMMA ReachesItself == \A f : f \in Order!Reach(f)
  BY DEF Order!Reach

\* What a file reaches imports only what it reaches.
LEMMA ReachesOn ==
  ASSUME NEW f, NEW g \in Order!Reach(f), NEW h, <<g, h>> \in ImportEdges
  PROVE  h \in Order!Reach(f)
<1> DEFINE E      == ImportEdges
           files  == {f} \cup {e[2] : e \in E}
           closed == {F \in SUBSET files : f \in F /\ \A e \in E : e[1] \in F => e[2] \in F}
<1>1. Order!Reach(f) = {x \in files : \A F \in closed : x \in F}
  BY DEF Order!Reach
<1>2. h \in files
  <2>1. <<g, h>>[2] = h
    OBVIOUS
  <2> QED BY <2>1
<1>3. ASSUME NEW F \in closed PROVE h \in F
  <2>1. g \in F
    BY <1>1
  <2>2. \A e \in E : e[1] \in F => e[2] \in F
    BY <1>3
  <2>3. <<g, h>>[1] = g /\ <<g, h>>[2] = h /\ <<g, h>> \in E
    OBVIOUS
  <2> QED BY <2>1, <2>2, <2>3
<1> QED BY <1>1, <1>2, <1>3

\* A set that has a file and all imports of its members has all the file reaches.
LEMMA ReachIsLeast ==
  ASSUME NEW f, NEW F, f \in F,
         \A g, h : g \in F /\ <<g, h>> \in ImportEdges => h \in F
  PROVE  Order!Reach(f) \subseteq F
<1> DEFINE E      == ImportEdges
           files  == {f} \cup {e[2] : e \in E}
           closed == {G \in SUBSET files : f \in G /\ \A e \in E : e[1] \in G => e[2] \in G}
<1>1. Order!Reach(f) = {x \in files : \A G \in closed : x \in G}
  BY DEF Order!Reach
<1>2. F \cap files \in closed
  <2>1. ASSUME NEW e \in E, e[1] \in F \cap files PROVE e[2] \in F \cap files
    <3>1. \E x \in DOMAIN tree : \E i \in 1..Len(tree[x].imports) : e = <<x, Named(<<x, i>>)>>
      BY EdgeIsImport
    <3>2. e = <<e[1], e[2]>>
      BY <3>1
    <3> QED BY <2>1, <3>2
  <2> QED BY <2>1
<1> QED BY <1>1, <1>2

-----------------------------------------------------------------------------
(* What is known of a load that has not failed.                            *)

Failing == ctl.op = "return" /\ ctl.rc # "EXIT_OK"

\* frame k has asked for its next import; the import it is at
Waiting(k) == k < Len(stack) \/ ctl.op # "run"
Site(k)    == <<stack[k].file, stack[k].next>>

\* Each frame but the first was called for the import the one below is at.
Chained ==
  /\ stack # <<>> => stack[1].file = Entry
  /\ \A k \in 1..Len(stack) :
       /\ tree[stack[k].file].fate = "ok"
       /\ Waiting(k) => stack[k].next <= Len(tree[stack[k].file].imports) /\ stack[k].target # <<>>
       /\ k < Len(stack) => /\ stack[k + 1].file = Named(Site(k))
                            /\ stack[k + 1].logical = stack[k].target

\* The project root is the directory of the entry from the first call on.
RootFound ==
  /\ projectRoot \in {NULL, DirName(Entry)}
  /\ projectRoot = NULL => ctl = Call(Entry, <<>>)

\* What a call asks for, and what a return has brought.
Asked ==
  /\ ctl.op = "call" =>
       IF stack = <<>> THEN ctl = Call(Entry, <<>>) /\ ordered = <<>>
       ELSE ctl = Call(Named(Site(Len(stack))), Top.target)
  /\ ctl.op = "return" => (IF stack = <<>> THEN Entry ELSE Named(Site(Len(stack)))) \in units

\* The imports that have been followed are resolved, and the files are loaded.
Passed(d) ==
  \/ d[1] \in FilesIn(ordered) /\ d[2] \in 1..Len(tree[d[1]].imports)
  \/ \E k \in 1..Len(stack) : stack[k].file = d[1] /\ d[2] \in 1..stack[k].next - 1
Brought(d) == d \in DOMAIN resolved /\ Named(d) \in units
ResolvedOK ==
  /\ \A d \in DOMAIN resolved : d = <<d[1], d[2]>> /\ Passed(d)
  /\ \A f \in FilesIn(ordered) : \A i \in 1..Len(tree[f].imports) : Brought(<<f, i>>)
  /\ \A k \in 1..Len(stack) : \A i \in 1..stack[k].next - 1 :
       i <= Len(tree[stack[k].file].imports) /\ Brought(<<stack[k].file, i>>)

\* A logical path leads to the file that some import means by it.
MeantBy(p, file) ==
  \/ \E d \in DOMAIN resolved : resolved[d] = p /\ file = Named(d)
  \/ \E k \in 1..Len(stack) : Waiting(k) /\ stack[k].target = p /\ file = Named(Site(k))
SourcesOK == \A p, file : p \in DOMAIN byLogical /\ byLogical[p] = file => MeantBy(p, file)

\* Every path that an import was resolved to is registered.
Provided ==
  /\ \A d \in DOMAIN resolved : resolved[d] \in DOMAIN byLogical
  /\ \A k \in 2..Len(stack) : stack[k].logical \in DOMAIN byLogical
  /\ ctl.op = "return" /\ stack # <<>> => Top.target \in DOMAIN byLogical

Unfailed == Chained /\ RootFound /\ Asked /\ ResolvedOK /\ SourcesOK /\ Provided

\* A unit comes after what it imports, unless that leads back to it.
Postorder ==
  \A i \in 1..Len(ordered) : \A j \in 1..Len(tree[ordered[i]].imports) :
    \/ \E k \in 1..i - 1 : ordered[k] = Named(<<ordered[i], j>>)
    \/ ordered[i] \in Order!Reach(Named(<<ordered[i], j>>))

\* A load fails for a file that cannot be read or is missing, or where more
\* imports in a row than the limit lead down from the entry.
Sound == {f \in DOMAIN tree : tree[f].fate = "ok"}
TooLongChain == \E chain \in [1..MaxDepth + 1 -> Sound] : Order!TooLong(chain)
Justified ==
  Failing => ~(Order!Reach(Entry) \subseteq Sound) \/ TooLongChain

Provenance == IInv /\ (Failing \/ Unfailed) /\ Postorder /\ Justified

\* The tree does not change, and neither does what is read off it.
LEMMA SameTree ==
  ASSUME tree' = tree
  PROVE  /\ \A d : Named(d)' = Named(d)
         /\ ImportEdges' = ImportEdges
         /\ \A f : Order!Reach(f)' = Order!Reach(f)
         /\ Sound' = Sound
         /\ TooLongChain' = TooLongChain
<1>1. \A d : Named(d)' = Named(d)
  BY DEF Named
<1>2. ImportEdges' = ImportEdges
  BY DEF ImportEdges, Named
<1>3. Sound' = Sound
  BY DEF Sound
<1>4. TooLongChain' = TooLongChain
  BY <1>2, <1>3 DEF TooLongChain, Order!TooLong, Order!Imports
<1> QED BY <1>1, <1>2, <1>3, <1>4 DEF Order!Reach

\* A frame's file is imported by the one below.
LEMMA StackEdge ==
  ASSUME IInv, Chained, NEW k \in 1..Len(stack) - 1
  PROVE  <<stack[k].file, stack[k + 1].file>> \in ImportEdges
<1>1. Len(stack) \in Nat /\ k \in 1..Len(stack) /\ k < Len(stack) /\ stack[k] \in Frames
  BY LenProperties, ElementOfSeq DEF IInv, LoaderTypeOK
<1>2. stack[k].file \in DOMAIN tree /\ stack[k].next \in Nat \ {0}
  BY <1>1 DEF Frames
<1>3. Len(tree[stack[k].file].imports) \in Nat
  BY <1>2, TreesAssumption DEF IInv
<1>4. /\ stack[k + 1].file = Named(Site(k))
      /\ stack[k].next \in 1..Len(tree[stack[k].file].imports)
  BY <1>1, <1>2, <1>3 DEF Chained, Waiting
<1> QED BY <1>2, <1>4, ImportIsEdge DEF Site

\* The files on the stack and the one being called can be reached from any below.
LEMMA StackReaches ==
  ASSUME IInv, Chained, NEW k \in 1..Len(stack), NEW l \in k..Len(stack)
  PROVE  stack[l].file \in Order!Reach(stack[k].file)
<1> DEFINE Bad == {m \in k..Len(stack) : stack[m].file \notin Order!Reach(stack[k].file)}
<1>0. stack \in Seq(Frames) /\ Len(stack) \in Nat /\ k \in Nat
  BY LenProperties DEF IInv, LoaderTypeOK
<1>1. SUFFICES ASSUME Bad # {} PROVE FALSE
  OBVIOUS
<1>2. Bad \in SUBSET Nat
  BY <1>0
<1>3. PICK m \in Bad : \A x \in Bad : m <= x
  BY <1>1, <1>2, LeastNat
<1>4. m # k
  BY <1>3, ReachesItself
<1>5. m - 1 \in k..Len(stack) /\ m - 1 \in 1..Len(stack) /\ m - 1 \notin Bad /\ m - 1 < Len(stack)
  BY <1>0, <1>3, <1>4
<1>6. stack[m - 1].file \in Order!Reach(stack[k].file)
  BY <1>5
<1>8. <<stack[m - 1].file, stack[m].file>> \in ImportEdges
  <2>1. m - 1 \in 1..Len(stack) - 1 /\ m - 1 + 1 = m
    BY <1>0, <1>3, <1>5
  <2> QED BY <2>1, StackEdge
<1>9. stack[m].file \in Order!Reach(stack[k].file)
  BY <1>6, <1>8, ReachesOn
<1> QED BY <1>3, <1>9

-----------------------------------------------------------------------------
(* How the stack changes.                                                  *)

\* The frames of a typed stack.
LEMMA FramesTyped ==
  ASSUME IInv
  PROVE  /\ Len(stack) \in Nat /\ (stack = <<>> <=> Len(stack) = 0)
         /\ Len(ordered) \in Nat
         /\ \A k \in 1..Len(stack) :
              /\ stack[k].file \in DOMAIN tree /\ stack[k].next \in Nat \ {0}
              /\ stack[k].file \in StackFiles /\ stack[k].file \in units
              /\ stack[k].file \notin FilesIn(ordered)
              /\ Len(tree[stack[k].file].imports) \in Nat
         /\ \A f \in FilesIn(ordered) : f \in DOMAIN tree /\ f \in units
         /\ \A f \in DOMAIN tree : Len(tree[f].imports) \in Nat
         /\ FilesIn(ordered) \subseteq units
<1>1. stack \in Seq(Frames) /\ ordered \in Seq(DOMAIN tree)
  BY DEF IInv, LoaderTypeOK
<1>2. Len(stack) \in Nat /\ (stack = <<>> <=> Len(stack) = 0) /\ Len(ordered) \in Nat
  BY <1>1, EmptySeq, LenProperties
<1>3. \A k \in 1..Len(stack) : stack[k] \in Frames
  BY <1>1, ElementOfSeq
<1>4. \A k \in 1..Len(ordered) : ordered[k] \in DOMAIN tree
  BY <1>1, ElementOfSeq
<1>5. \A f \in DOMAIN tree : Len(tree[f].imports) \in Nat
  BY TreesAssumption DEF IInv
<1>6. \A k \in 1..Len(stack) : stack[k].file \in StackFiles
  BY DEF StackFiles
<1>7. /\ units = FilesIn(ordered) \cup StackFiles
      /\ FilesIn(ordered) \cap StackFiles = {}
  BY DEF IInv, UnitsAccounted
<1>8. \A f \in FilesIn(ordered) : f \in DOMAIN tree
  BY <1>4 DEF FilesIn
<1> QED BY <1>2, <1>3, <1>5, <1>6, <1>7, <1>8 DEF Frames

\* Two frames are for two files.
LEMMA FramesDiffer ==
  ASSUME IInv, NEW k \in 1..Len(stack), NEW l \in 1..Len(stack), stack[k].file = stack[l].file
  PROVE  k = l
  BY DEF IInv, UnitsAccounted

\* What a new unit does to the stack.
LEMMA StackPushed ==
  ASSUME IInv, CreateUnit
  PROVE  /\ Len(stack') = Len(stack) + 1
         /\ \A k \in 1..Len(stack) : stack'[k] = stack[k]
         /\ stack'[Len(stack) + 1].file = ctl.file
         /\ stack'[Len(stack) + 1].logical = ctl.logical
         /\ stack'[Len(stack) + 1].next = 1
         /\ stack' # <<>>
<1> DEFINE e == [file |-> ctl.file, logical |-> ctl.logical, next |-> 1, target |-> <<>>]
<1>1. stack \in Seq(Frames) /\ stack' = Append(stack, e)
  BY DEF IInv, LoaderTypeOK, CreateUnit
<1>2. e \in Frames
  BY CallType DEF IInv, CreateUnit, Frames
<1>3. /\ Len(stack) \in Nat /\ Len(stack') = Len(stack) + 1
      /\ \A k \in 1..Len(stack) : stack'[k] = stack[k]
      /\ stack'[Len(stack) + 1] = e
  BY <1>1, <1>2, AppendProperties, LenProperties
<1>4. stack' # <<>>
  BY <1>3
<1> QED BY <1>3, <1>4

\* What a change of the innermost frame does to the stack.
LEMMA StackTurned ==
  ASSUME IInv, stack # <<>>, NEW e \in Frames, stack' = [stack EXCEPT ![Len(stack)] = e]
  PROVE  /\ Len(stack') = Len(stack) /\ stack' # <<>>
         /\ \A k \in 1..Len(stack) - 1 : stack'[k] = stack[k]
         /\ stack'[Len(stack)] = e
<1>1. stack \in Seq(Frames) /\ Len(stack) \in Nat \ {0}
  BY TopType DEF IInv, LoaderTypeOK
<1>2. stack' \in Seq(Frames) /\ Len(stack') = Len(stack)
  BY <1>1, ReplaceFacts
<1>3. DOMAIN stack = 1..Len(stack)
  BY <1>1
<1>4. stack' # <<>>
  BY <1>1, <1>2, EmptySeq
<1>5. \A k \in 1..Len(stack) : stack'[k] = IF k = Len(stack) THEN e ELSE stack[k]
  BY <1>3
<1>6. /\ \A k \in 1..Len(stack) - 1 : k \in 1..Len(stack) /\ k # Len(stack)
      /\ Len(stack) \in 1..Len(stack)
  BY <1>1
<1> QED BY <1>2, <1>4, <1>5, <1>6

\* What a return does to the stack.
LEMMA StackPopped ==
  ASSUME IInv, stack # <<>>, stack' = Pop
  PROVE  /\ Len(stack') = Len(stack) - 1
         /\ stack' = <<>> <=> Len(stack) = 1
         /\ \A k \in 1..Len(stack) - 1 : stack'[k] = stack[k]
<1>1. stack \in Seq(Frames)
  BY DEF IInv, LoaderTypeOK
<1>2. /\ Len(stack) \in Nat \ {0} /\ stack' \in Seq(Frames)
      /\ Len(stack') = Len(stack) - 1
      /\ \A k \in 1..Len(stack) - 1 : stack'[k] = stack[k]
  BY <1>1, FrontFacts DEF Pop
<1>3. stack' = <<>> <=> Len(stack') = 0
  BY <1>2, EmptySeq
<1> QED BY <1>2, <1>3

\* Put keeps the other keys.
LEMMA PutFacts ==
  ASSUME NEW m, NEW k, NEW v
  PROVE  /\ DOMAIN Put(m, k, v) = DOMAIN m \cup {k}
         /\ Put(m, k, v)[k] = v
         /\ \A x \in DOMAIN m : x # k => Put(m, k, v)[x] = m[x]
  BY DEF Put

\* The frame on top of the stack.
LEMMA OnTop ==
  ASSUME IInv, stack # <<>>
  PROVE  /\ Len(stack) \in 1..Len(stack) /\ Top = stack[Len(stack)]
         /\ Top.file = stack[Len(stack)].file /\ Site(Len(stack)) = <<Top.file, Top.next>>
  BY FramesTyped DEF Top, Site

-----------------------------------------------------------------------------
(* The steps of a load that has not failed.                                *)

\* A unit that is there already is the one its path means.
LEMMA AlreadyLoadedStep ==
  ASSUME Provenance, Unfailed, AlreadyLoaded
  PROVE  Unfailed' /\ stack # <<>>
<1>0. IInv /\ Chained /\ RootFound /\ Asked /\ ResolvedOK /\ SourcesOK /\ Provided
  BY DEF Provenance, Unfailed
<1> DEFINE n == Len(stack)
<1>1. /\ UNCHANGED <<tree, units, ordered, resolved, stack>>
      /\ ctl.op = "call" /\ ctl' = Return("EXIT_OK") /\ ctl.file \in units
  BY DEF AlreadyLoaded
<1>2. stack # <<>>
  <2>1. stack = <<>> => units = {}
    BY <1>0, <1>1 DEF IInv, UnitsAccounted, Asked, FilesIn, StackFiles
  <2> QED BY <1>1, <2>1
<1>3. /\ n \in 1..Len(stack) /\ Top = stack[n] /\ n \in Nat
      /\ ctl.file = Named(Site(n)) /\ ctl.logical = Top.target
      /\ \A d : Named(d)' = Named(d)
      /\ \A k \in 1..Len(stack) : Site(k)' = Site(k) /\ Waiting(k) /\ Waiting(k)' /\ stack'[k] = stack[k]
      /\ Len(stack') = Len(stack) /\ Top' = Top
  BY <1>0, <1>1, <1>2, OnTop, FramesTyped, SameTree DEF Asked, Call, Waiting, Site, Return, Top
<1>4. ctl.logical # <<>> /\ byLogical' = Put(byLogical, ctl.logical, ctl.file)
  BY <1>0, <1>3 DEF Chained, AlreadyLoaded
<1>5. /\ DOMAIN byLogical' = DOMAIN byLogical \cup {ctl.logical}
      /\ byLogical'[ctl.logical] = ctl.file
      /\ \A p \in DOMAIN byLogical : p # ctl.logical => byLogical'[p] = byLogical[p]
  BY <1>4 DEF Put
<1>6. Chained'
  BY <1>0, <1>1, <1>3 DEF Chained
<1>7. RootFound'
  <2>1. projectRoot # NULL
    BY <1>0, <1>2 DEF IInv, LoaderTypeOK
  <2> QED BY <1>0, <2>1 DEF RootFound, AlreadyLoaded, SetProjectRoot
<1>8. Asked'
  BY <1>1, <1>2, <1>3 DEF Asked, Return
<1>9. ResolvedOK'
  BY <1>0, <1>1, <1>3 DEF ResolvedOK, Passed, Brought, FilesIn
<1>10. SourcesOK'
  <2> SUFFICES ASSUME NEW p, NEW f, p \in DOMAIN byLogical', byLogical'[p] = f
               PROVE  MeantBy(p, f)'
    BY DEF SourcesOK
  <2>1. CASE p = ctl.logical
    BY <1>3, <1>5, <2>1 DEF MeantBy
  <2>2. CASE p # ctl.logical
    <3>1. p \in DOMAIN byLogical /\ byLogical[p] = f
      BY <1>5, <2>2
    <3>2. MeantBy(p, f)
      BY <1>0, <3>1 DEF SourcesOK
    <3> QED BY <1>1, <1>3, <3>1, <3>2 DEF MeantBy
  <2> QED BY <2>1, <2>2
<1>11. Provided'
  BY <1>0, <1>1, <1>3, <1>5 DEF Provided
<1> QED BY <1>2, <1>6, <1>7, <1>8, <1>9, <1>10, <1>11 DEF Unfailed

\* An import always asks for a real logical path.
LEMMA AskedPathIsReal ==
  ASSUME IInv, NEW f \in units, NEW i \in 1..Len(tree[f].imports)
  PROVE  ImportLogical(f, tree[f].imports[i]) # <<>>
<1> DEFINE imp == tree[f].imports[i]
           stem == IF imp.form = "relative" THEN logicalOf[f] ELSE <<>>
<1>1. imp.parts \in Seq(Names) /\ imp.parts # <<>>
  BY TreesAssumption DEF IInv, LoaderTypeOK
<1>2. logicalOf[f] \in Seq(Names)
  BY DEF IInv, LoaderTypeOK, Values
<1>3. stem \in Seq(Names)
  BY <1>2
<1> HIDE DEF stem
<1>4. Len(stem \o imp.parts) = Len(stem) + Len(imp.parts) /\ Len(stem) \in Nat
  BY <1>1, <1>3, ConcatProperties
<1>5. Len(imp.parts) \in Nat \ {0}
  BY <1>1, EmptySeq
<1>6. stem \o imp.parts # <<>>
  BY <1>4, <1>5, EmptySeq
<1> QED BY <1>6 DEF ImportLogical, stem

\* A new unit is registered for the path it was asked for, and its imports are still to be followed.
LEMMA CreateUnitStep ==
  ASSUME Provenance, Unfailed, CreateUnit
  PROVE  Unfailed'
<1>0. IInv /\ Chained /\ RootFound /\ Asked /\ ResolvedOK /\ SourcesOK /\ Provided
  BY DEF Provenance, Unfailed
<1> DEFINE n == Len(stack)
<1>1. /\ UNCHANGED <<tree, ordered, resolved>>
      /\ ctl.op = "call" /\ ctl' = Run /\ ctl'.op = "run" /\ ctl'.op # "call" /\ ctl'.op # "return"
      /\ units' = units \cup {ctl.file}
      /\ ctl.file \in DOMAIN tree /\ tree[ctl.file].fate = "ok"
  BY DEF CreateUnit, Run
<1>2. /\ n \in Nat /\ (stack = <<>> <=> n = 0)
      /\ \A k \in 1..n : stack[k].next \in Nat \ {0}
      /\ \A d : Named(d)' = Named(d)
      /\ stack' # <<>> /\ Len(stack') = n + 1
      /\ \A k \in 1..n : /\ stack'[k] = stack[k] /\ Site(k)' = Site(k)
                         /\ Waiting(k) /\ Waiting(k)' /\ k \in 1..Len(stack')
      /\ stack'[n + 1].file = ctl.file /\ stack'[n + 1].logical = ctl.logical
      /\ stack'[n + 1].next = 1 /\ ~Waiting(n + 1)'
  <2>1. n \in Nat /\ (stack = <<>> <=> n = 0) /\ \A k \in 1..n : stack[k].next \in Nat \ {0}
    BY <1>0, FramesTyped
  <2>2. /\ Len(stack') = n + 1 /\ stack' # <<>>
        /\ \A k \in 1..n : stack'[k] = stack[k]
        /\ stack'[n + 1].file = ctl.file /\ stack'[n + 1].logical = ctl.logical
        /\ stack'[n + 1].next = 1
    BY <1>0, StackPushed
  <2>3. \A d : Named(d)' = Named(d)
    BY <1>1, SameTree
  <2> QED BY <1>1, <2>1, <2>2, <2>3 DEF Site, Waiting
<1>3. /\ n = 0 => ctl.file = Entry /\ ctl.logical = <<>>
      /\ n # 0 => /\ n \in 1..n /\ Top = stack[n] /\ ctl.logical # <<>>
                  /\ ctl.file = Named(Site(n)) /\ ctl.logical = stack[n].target
  <2>1. n = 0 => ctl.file = Entry /\ ctl.logical = <<>>
    BY <1>0, <1>1, <1>2 DEF Asked, Call
  <2>2. n # 0 => n \in 1..n /\ Top = stack[n]
    BY <1>2 DEF Top
  <2>3. n # 0 => ctl.file = Named(Site(n)) /\ ctl.logical = stack[n].target
    BY <1>0, <1>1, <1>2, <2>2 DEF Asked, Call
  <2>4. n # 0 => stack[n].target # <<>>
    BY <1>0, <1>2, <2>2 DEF Chained
  <2> QED BY <2>1, <2>2, <2>3, <2>4
<1>4. Chained'
  <2>1. stack'[1].file = Entry
    BY <1>0, <1>2, <1>3 DEF Chained
  <2>2. ASSUME NEW k \in 1..Len(stack')
        PROVE  /\ tree'[stack'[k].file].fate = "ok"
               /\ Waiting(k)' => /\ stack'[k].next <= Len(tree'[stack'[k].file].imports)
                                 /\ stack'[k].target # <<>>
               /\ k < Len(stack') => /\ stack'[k + 1].file = Named(Site(k))'
                                     /\ stack'[k + 1].logical = stack'[k].target
    <3>1. CASE k \in 1..n - 1
      <4>1. k \in 1..n /\ k + 1 \in 1..n /\ k < n
        BY <1>2, <3>1
      <4> QED BY <1>0, <1>1, <1>2, <4>1 DEF Chained
    <3>2. CASE k = n
      <4>1. n # 0 /\ k \in 1..n
        BY <1>2, <3>2
      <4> QED BY <1>0, <1>1, <1>2, <1>3, <3>2, <4>1 DEF Chained
    <3>3. CASE k = n + 1
      <4>1. ~(k < Len(stack')) /\ ~Waiting(k)'
        BY <1>1, <1>2, <3>3 DEF Waiting
      <4>2. tree'[stack'[k].file].fate = "ok"
        BY <1>1, <1>2, <3>3
      <4> QED BY <4>1, <4>2
    <3> QED BY <1>2, <3>1, <3>2, <3>3
  <2> QED BY <2>1, <2>2 DEF Chained
<1>5. RootFound'
  <2>1. projectRoot = NULL => projectRoot' = DirName(Entry)
    BY <1>0 DEF RootFound, CreateUnit, SetProjectRoot, Call
  <2>2. DirName(Entry) # NULL
    BY DirNameType, PathAssumption
  <2>3. projectRoot # NULL => projectRoot' = projectRoot
    BY DEF CreateUnit, SetProjectRoot
  <2> QED BY <1>0, <2>1, <2>2, <2>3 DEF RootFound
<1>6. Asked'
  BY <1>1 DEF Asked
<1>7. ResolvedOK'
  <2>1. \A d : Passed(d) => Passed(d)'
    BY <1>1, <1>2 DEF Passed, FilesIn
  <2>2. \A d : Brought(d) => Brought(d)'
    BY <1>1, <1>2 DEF Brought
  <2>3. ASSUME NEW k \in 1..Len(stack'), NEW i \in 1..stack'[k].next - 1
        PROVE  (i <= Len(tree[stack[k].file].imports) /\ Brought(<<stack[k].file, i>>))'
    <3>1. k \in 1..n /\ stack'[k] = stack[k] /\ i \in 1..stack[k].next - 1
      BY <1>2, <2>3
    <3>2. i <= Len(tree[stack[k].file].imports) /\ Brought(<<stack[k].file, i>>)
      BY <1>0, <3>1 DEF ResolvedOK
    <3>3. <<stack[k].file, i>> \in DOMAIN resolved' /\ Named(<<stack[k].file, i>>) \in units'
      BY <1>1, <3>2 DEF Brought
    <3>4. Named(<<stack[k].file, i>>)' = Named(<<stack[k].file, i>>)
      BY <1>1, <3>1 DEF Named
    <3> QED BY <1>1, <3>1, <3>2, <3>3, <3>4 DEF Brought
  <2> QED BY <1>0, <1>1, <2>1, <2>2, <2>3 DEF ResolvedOK, FilesIn
<1>8. ASSUME ctl.logical # <<>>
      PROVE  /\ DOMAIN byLogical' = DOMAIN byLogical \cup {ctl.logical}
             /\ byLogical'[ctl.logical] = ctl.file
             /\ \A p \in DOMAIN byLogical : p # ctl.logical => byLogical'[p] = byLogical[p]
  BY <1>8 DEF Put, CreateUnit
<1>9. ctl.logical = <<>> => byLogical' = byLogical
  BY DEF CreateUnit
<1>10. SourcesOK'
  <2> SUFFICES ASSUME NEW p, NEW f, p \in DOMAIN byLogical', byLogical'[p] = f
               PROVE  MeantBy(p, f)'
    BY DEF SourcesOK
  <2>1. CASE p = ctl.logical /\ ctl.logical # <<>>
    <3>1. n # 0 /\ f = ctl.file
      BY <1>3, <1>8, <2>1
    <3> QED BY <1>2, <1>3, <2>1, <3>1 DEF MeantBy
  <2>2. CASE ~(p = ctl.logical /\ ctl.logical # <<>>)
    <3>1. p \in DOMAIN byLogical /\ byLogical[p] = f
      BY <1>8, <1>9, <2>2
    <3>2. MeantBy(p, f)
      BY <1>0, <3>1 DEF SourcesOK
    <3> QED BY <1>1, <1>2, <3>2 DEF MeantBy
  <2> QED BY <2>1, <2>2
<1>11. Provided'
  <2>1. DOMAIN byLogical \subseteq DOMAIN byLogical'
    BY <1>8, <1>9
  <2>2. ASSUME NEW k \in 2..Len(stack') PROVE stack'[k].logical \in DOMAIN byLogical'
    <3>1. CASE k \in 2..n
      BY <1>0, <1>2, <2>1, <3>1 DEF Provided
    <3>2. CASE k = n + 1
      <4>1. n # 0
        BY <1>2, <3>2, <2>2
      <4> QED BY <1>2, <1>3, <1>8, <3>2, <4>1
    <3> QED BY <1>2, <3>1, <3>2
  <2> QED BY <1>0, <1>1, <2>1, <2>2 DEF Provided
<1> QED BY <1>4, <1>5, <1>6, <1>7, <1>10, <1>11 DEF Unfailed

\* An import asks for the file it names, and its chain leads from the entry.
LEMMA FollowImportStep ==
  ASSUME Provenance, Unfailed, FollowImport
  PROVE  Unfailed'
<1>0. IInv /\ Chained /\ RootFound /\ Asked /\ ResolvedOK /\ SourcesOK /\ Provided
  BY DEF Provenance, Unfailed
<1> DEFINE n == Len(stack)
           imp    == tree[Top.file].imports[Top.next]
           target == ImportLogical(Top.file, imp)
           file   == ImportFile(tree, projectRoot, Top.file, imp)
           e      == [Top EXCEPT !.target = target]
<1>1. /\ UNCHANGED <<tree, projectRoot, units, byLogical, ordered, resolved>>
      /\ ctl.op = "run" /\ ctl' = Call(file, target) /\ ctl'.op = "call"
      /\ stack # <<>> /\ Top.next <= Len(tree[Top.file].imports)
      /\ stack' = [stack EXCEPT ![Len(stack)] = e]
  BY <1>0 DEF FollowImport, ImportsLeft, IInv, LoaderTypeOK, Run, Call, Steps, Return, Top
<1>2. /\ Top \in Frames /\ Top.file \in units /\ Top.file \in DOMAIN tree
      /\ Top.next \in 1..Len(tree[Top.file].imports)
      /\ Top.file \in DOMAIN logicalOf /\ Values(logicalOf) \subseteq Seq(Names)
  BY <1>0, <1>1, TopType, TreesAssumption DEF IInv, UnitsAccounted, LoaderTypeOK
<1>3. projectRoot = DirName(Entry) /\ projectRoot # NULL /\ projectRoot \in Seq(Names)
  BY <1>0, <1>1 DEF IInv, LoaderTypeOK, RootFound
<1>4. target \in Seq(Names) /\ target # <<>> /\ e \in Frames
  <2>1. target \in Seq(Names)
    BY <1>0, <1>2, <1>3, TargetTypes DEF IInv
  <2>2. target # <<>>
    BY <1>0, <1>2, AskedPathIsReal
  <2> QED BY <1>2, <2>1, <2>2 DEF Frames
<1>5. /\ e.file = Top.file /\ e.logical = Top.logical /\ e.next = Top.next /\ e.target = target
  BY <1>2 DEF Frames
<1>5a. file = Named(<<Top.file, Top.next>>)
  BY <1>3 DEF Named
<1> HIDE DEF e, file, target, imp
<1>5b. ctl.op = "run" /\ ctl'.op = "call" /\ ctl'.op # "run" /\ ctl'.op # "return"
  BY <1>1
<1>6. /\ n \in Nat /\ n \in 1..n /\ Top = stack[n] /\ n = Len(stack') /\ stack' # <<>>
      /\ \A k \in 1..n : k # n => stack'[k] = stack[k] /\ k < n
      /\ stack'[n] = e
  <2>1. /\ n = Len(stack') /\ stack' # <<>> /\ stack'[n] = e
        /\ \A k \in 1..n - 1 : stack'[k] = stack[k]
    BY <1>0, <1>1, <1>4, StackTurned
  <2>2. n \in Nat /\ n \in 1..n /\ Top = stack[n]
    BY <1>0, <1>1, OnTop, FramesTyped
  <2>3. \A k \in 1..n : k # n => k \in 1..n - 1 /\ k < n
    BY <2>2
  <2> QED BY <2>1, <2>2, <2>3
<1>6a. /\ \A k \in 1..n : k # n => Waiting(k) /\ Waiting(k)'
       /\ ~Waiting(n) /\ Waiting(n)'
  BY <1>5b, <1>6 DEF Waiting
<1>6b. \A k \in 1..n : /\ stack'[k].file = stack[k].file /\ stack'[k].next = stack[k].next
                       /\ stack'[k].logical = stack[k].logical /\ Site(k)' = Site(k)
  BY <1>5, <1>6 DEF Site
<1>6c. /\ stack'[n].target = target /\ Top' = stack'[n] /\ Site(n) = <<Top.file, Top.next>>
  BY <1>5, <1>6 DEF Top, Site
<1>6d. /\ \A d : Named(d)' = Named(d)
       /\ \A k \in 1..n : Named(Site(k))' = Named(Site(k))
  BY <1>1, <1>6b DEF Named
<1>7. file = Named(Site(n))
  BY <1>5a, <1>6c
<1>8. Chained'
  <2>1. ASSUME NEW k \in 1..n
        PROVE  /\ tree'[stack'[k].file].fate = "ok"
               /\ Waiting(k)' => /\ stack'[k].next <= Len(tree'[stack'[k].file].imports)
                                 /\ stack'[k].target # <<>>
               /\ k < n => /\ stack'[k + 1].file = Named(Site(k))'
                           /\ stack'[k + 1].logical = stack'[k].target
    <3>1. CASE k # n
      <4>1. k + 1 \in 1..n /\ k < n
        BY <1>6, <3>1
      <4>2. /\ tree[stack[k].file].fate = "ok"
            /\ stack[k].next <= Len(tree[stack[k].file].imports) /\ stack[k].target # <<>>
            /\ stack[k + 1].file = Named(Site(k)) /\ stack[k + 1].logical = stack[k].target
        BY <1>0, <1>6, <1>6a, <3>1, <4>1 DEF Chained
      <4>3. /\ stack'[k] = stack[k] /\ Named(Site(k))' = Named(Site(k))
            /\ stack'[k + 1].file = stack[k + 1].file /\ stack'[k + 1].logical = stack[k + 1].logical
        BY <1>6, <1>6b, <1>6d, <3>1, <4>1
      <4> QED BY <1>1, <4>2, <4>3
    <3>2. CASE k = n
      <4>1. tree[stack[n].file].fate = "ok" /\ stack[n].next <= Len(tree[stack[n].file].imports)
        BY <1>0, <1>1, <1>6 DEF Chained
      <4>2. ~(k < n)
        BY <1>6, <3>2
      <4> QED BY <1>1, <1>4, <1>6b, <1>6c, <1>6, <3>2, <4>1, <4>2
    <3> QED BY <3>1, <3>2
  <2>2. stack'[1].file = Entry
    <3>1. 1 \in 1..n
      BY <1>6
    <3> QED BY <1>0, <1>1, <1>6b, <3>1 DEF Chained
  <2> QED BY <1>6, <2>1, <2>2 DEF Chained
<1>9. RootFound'
  BY <1>1, <1>3 DEF RootFound
<1>10. Asked'
  BY <1>1, <1>6, <1>6b, <1>6c, <1>6d, <1>7 DEF Asked, Call
<1>11. ResolvedOK'
  <2>1. \A d : Passed(d) => Passed(d)'
    BY <1>1, <1>6, <1>6b DEF Passed, FilesIn
  <2>2. \A d : Brought(d) => Brought(d)'
    BY <1>1, <1>6d DEF Brought
  <2>3. ASSUME NEW k \in 1..Len(stack'), NEW i \in 1..stack'[k].next - 1
        PROVE  (i <= Len(tree[stack[k].file].imports) /\ Brought(<<stack[k].file, i>>))'
    <3>1. k \in 1..n /\ stack'[k].file = stack[k].file /\ i \in 1..stack[k].next - 1
      BY <1>6, <1>6b, <2>3
    <3>2. i <= Len(tree[stack[k].file].imports) /\ Brought(<<stack[k].file, i>>)
      BY <1>0, <3>1 DEF ResolvedOK
    <3>3. <<stack[k].file, i>> \in DOMAIN resolved' /\ Named(<<stack[k].file, i>>) \in units'
      BY <1>1, <3>2 DEF Brought
    <3>4. Named(<<stack[k].file, i>>)' = Named(<<stack[k].file, i>>)
      BY <1>1, <3>1 DEF Named
    <3> QED BY <1>1, <3>1, <3>2, <3>3, <3>4 DEF Brought
  <2> QED BY <1>0, <1>1, <2>1, <2>2, <2>3 DEF ResolvedOK, FilesIn
<1>12. SourcesOK'
  <2> SUFFICES ASSUME NEW p, NEW f, p \in DOMAIN byLogical', byLogical'[p] = f
               PROVE  MeantBy(p, f)'
    BY DEF SourcesOK
  <2>1. MeantBy(p, f)
    BY <1>0, <1>1 DEF SourcesOK
  <2>2. CASE \E d \in DOMAIN resolved : resolved[d] = p /\ f = Named(d)
    BY <1>1, <1>6d, <2>2 DEF MeantBy
  <2>3. CASE \E k \in 1..n : Waiting(k) /\ stack[k].target = p /\ f = Named(Site(k))
    <3>1. PICK k \in 1..n : Waiting(k) /\ stack[k].target = p /\ f = Named(Site(k))
      BY <2>3
    <3>2. k # n /\ stack'[k] = stack[k] /\ Waiting(k)' /\ f = Named(Site(k))'
      BY <1>6, <1>6a, <1>6d, <3>1
    <3> QED BY <1>6, <3>1, <3>2 DEF MeantBy
  <2> QED BY <2>1, <2>2, <2>3 DEF MeantBy
<1>13. Provided'
  <2>1. \A k \in 2..n : stack'[k].logical = stack[k].logical
    BY <1>6b, <1>6
  <2> QED BY <1>0, <1>1, <1>5b, <1>6, <2>1 DEF Provided
<1> QED BY <1>8, <1>9, <1>10, <1>11, <1>12, <1>13 DEF Unfailed

\* An import that came back names a unit that is there.
LEMMA ImportLoadedStep ==
  ASSUME Provenance, Unfailed, ImportLoaded
  PROVE  Unfailed'
<1>0. IInv /\ Chained /\ RootFound /\ Asked /\ ResolvedOK /\ SourcesOK /\ Provided
  BY DEF Provenance, Unfailed
<1> DEFINE n == Len(stack)
           e == [Top EXCEPT !.next = @ + 1]
<1>s. PICK s : s = <<Top.file, Top.next>>
  OBVIOUS
<1>1. /\ UNCHANGED <<tree, projectRoot, units, byLogical, ordered>>
      /\ ctl.op = "return" /\ ctl.op # "run" /\ ctl' = Run /\ stack # <<>>
      /\ ctl'.op = "run" /\ ctl'.op # "call" /\ ctl'.op # "return" /\ ctl' # Call(Entry, <<>>)
      /\ resolved' = Put(resolved, s, Top.target)
      /\ stack' = [stack EXCEPT ![Len(stack)] = e]
  BY <1>s DEF ImportLoaded, Run, Call, Top
<1>2. Top \in Frames /\ Top.next \in Nat \ {0}
  BY <1>0, <1>1, TopType DEF IInv
<1>3. e \in Frames /\ e.file = Top.file /\ e.logical = Top.logical /\ e.next = Top.next + 1
  BY <1>2 DEF Frames
<1> HIDE DEF e
<1>4. /\ n \in Nat /\ n \in 1..n /\ Top = stack[n] /\ n = Len(stack') /\ stack' # <<>>
      /\ \A k \in 1..n : k # n => stack'[k] = stack[k] /\ k < n
      /\ stack'[n] = e
  <2>1. /\ n = Len(stack') /\ stack' # <<>> /\ stack'[n] = e
        /\ \A k \in 1..n - 1 : stack'[k] = stack[k]
    BY <1>0, <1>1, <1>3, StackTurned
  <2>2. n \in Nat /\ n \in 1..n /\ Top = stack[n]
    BY <1>0, <1>1, OnTop, FramesTyped
  <2>3. \A k \in 1..n : k # n => k \in 1..n - 1 /\ k < n
    BY <2>2
  <2> QED BY <2>1, <2>2, <2>3
<1>5. /\ \A k \in 1..n : Waiting(k) /\ (k # n => Waiting(k)')
      /\ \A k \in 1..n : k = n => ~(Waiting(k)')
  <2>1. ctl.op # "run" /\ ~(ctl'.op # "run")
    BY <1>1
  <2>2. /\ \A k \in 1..n : k # n => k < Len(stack')
        /\ \A k \in 1..n : k = n => ~(k < Len(stack'))
    BY <1>4
  <2> QED BY <2>1, <2>2 DEF Waiting
<1>6. /\ \A k \in 1..n : /\ stack'[k].file = stack[k].file /\ stack'[k].logical = stack[k].logical
                         /\ stack[k].next \in Nat \ {0}
      /\ \A k \in 1..n : k # n => Site(k)' = Site(k)
      /\ stack'[n].next = stack[n].next + 1 /\ Site(n) = s
  BY <1>0, <1>3, <1>4, <1>s, FramesTyped DEF Site
<1>7. /\ \A d : Named(d)' = Named(d)
      /\ \A k \in 1..n : k # n => Named(Site(k))' = Named(Site(k))
  BY <1>1, <1>6 DEF Named
<1>8. /\ DOMAIN resolved' = DOMAIN resolved \cup {s} /\ resolved'[s] = Top.target
      /\ \A d \in DOMAIN resolved : d # s => resolved'[d] = resolved[d]
  BY <1>1 DEF Put
<1>9. Named(s) \in units /\ Top.next \in 1..Len(tree[Top.file].imports)
  <2>1. Named(Site(n)) \in units
    BY <1>0, <1>1 DEF Asked
  <2>2. Top.next <= Len(tree[Top.file].imports)
    BY <1>0, <1>4, <1>5 DEF Chained
  <2>3. Len(tree[Top.file].imports) \in Nat
    BY <1>0, <1>4, FramesTyped
  <2> QED BY <1>2, <1>6, <2>1, <2>2, <2>3
<1>10. s \notin DOMAIN resolved
  <2>1. SUFFICES ASSUME s \in DOMAIN resolved PROVE FALSE
    OBVIOUS
  <2>2. Passed(s)
    BY <1>0, <2>1 DEF ResolvedOK
  <2>3. Top.file \notin FilesIn(ordered)
    BY <1>0, <1>4, FramesTyped
  <2>4. PICK k \in 1..n : stack[k].file = Top.file /\ Top.next \in 1..stack[k].next - 1
    BY <1>s, <2>2, <2>3 DEF Passed
  <2>5. k = n
    BY <1>0, <1>4, <2>4, FramesDiffer
  <2> QED BY <1>2, <1>4, <2>4, <2>5
<1>11. Chained'
  <2>1. ASSUME NEW k \in 1..n
        PROVE  /\ tree'[stack'[k].file].fate = "ok"
               /\ Waiting(k)' => /\ stack'[k].next <= Len(tree'[stack'[k].file].imports)
                                 /\ stack'[k].target # <<>>
               /\ k < n => /\ stack'[k + 1].file = Named(Site(k))'
                           /\ stack'[k + 1].logical = stack'[k].target
    <3>1. CASE k # n
      <4>1. k + 1 \in 1..n /\ k < n
        BY <1>4, <3>1
      <4>2. /\ tree[stack[k].file].fate = "ok"
            /\ stack[k].next <= Len(tree[stack[k].file].imports) /\ stack[k].target # <<>>
            /\ stack[k + 1].file = Named(Site(k)) /\ stack[k + 1].logical = stack[k].target
        BY <1>0, <1>4, <1>5, <3>1, <4>1 DEF Chained
      <4>3. /\ stack'[k] = stack[k] /\ Named(Site(k))' = Named(Site(k))
            /\ stack'[k + 1].file = stack[k + 1].file /\ stack'[k + 1].logical = stack[k + 1].logical
        BY <1>4, <1>6, <1>7, <3>1, <4>1
      <4> QED BY <1>1, <4>2, <4>3
    <3>2. CASE k = n
      <4>1. tree[stack[n].file].fate = "ok"
        BY <1>0, <1>4 DEF Chained
      <4>2. ~(k < n) /\ ~(Waiting(k)')
        BY <1>4, <1>5, <3>2
      <4> QED BY <1>1, <1>4, <1>6, <3>2, <4>1, <4>2
    <3> QED BY <3>1, <3>2
  <2>2. stack'[1].file = Entry
    <3>1. 1 \in 1..n
      BY <1>4
    <3> QED BY <1>0, <1>1, <1>6, <3>1 DEF Chained
  <2> QED BY <1>4, <2>1, <2>2 DEF Chained
<1>12. RootFound'
  BY <1>0, <1>1 DEF RootFound, IInv, LoaderTypeOK
<1>13. Asked'
  BY <1>1 DEF Asked
<1>14. ResolvedOK'
  <2>1. ASSUME NEW d, Passed(d) PROVE Passed(d)'
    <3>1. CASE d[1] \in FilesIn(ordered) /\ d[2] \in 1..Len(tree[d[1]].imports)
      BY <1>1, <3>1 DEF Passed, FilesIn
    <3>2. CASE \E k \in 1..n : stack[k].file = d[1] /\ d[2] \in 1..stack[k].next - 1
      <4>1. PICK k \in 1..n : stack[k].file = d[1] /\ d[2] \in 1..stack[k].next - 1
        BY <3>2
      <4>2. stack'[k].next = stack[k].next \/ stack'[k].next = stack[k].next + 1
        BY <1>4, <1>6
      <4>3. stack'[k].file = d[1] /\ d[2] \in 1..stack'[k].next - 1
        BY <1>6, <4>1, <4>2
      <4> QED BY <1>4, <4>3 DEF Passed
    <3> QED BY <2>1, <3>1, <3>2 DEF Passed
  <2>2. Passed(s)'
    <3>1. stack'[n].file = s[1] /\ s[2] \in 1..stack'[n].next - 1 /\ n \in 1..Len(stack')
      BY <1>2, <1>4, <1>6, <1>s
    <3> QED BY <3>1 DEF Passed
  <2>3. \A d : Brought(d) => Brought(d)'
    BY <1>1, <1>7, <1>8 DEF Brought
  <2>4. Brought(s)'
    BY <1>1, <1>7, <1>8, <1>9 DEF Brought
  <2>5. \A d \in DOMAIN resolved' : d = <<d[1], d[2]>> /\ Passed(d)'
    BY <1>0, <1>8, <1>s, <2>1, <2>2 DEF ResolvedOK
  <2>6. ASSUME NEW k \in 1..Len(stack'), NEW i \in 1..stack'[k].next - 1
        PROVE  (i <= Len(tree[stack[k].file].imports) /\ Brought(<<stack[k].file, i>>))'
    <3>1. k \in 1..n /\ stack'[k].file = stack[k].file
      BY <1>4, <1>6, <2>6
    <3>2. CASE k = n /\ i = stack[n].next
      <4>1. s = <<stack[k].file, i>> /\ i <= Len(tree[stack[k].file].imports)
        BY <1>4, <1>9, <1>s, <3>2
      <4>2. <<stack[k].file, i>> \in DOMAIN resolved' /\ Named(<<stack[k].file, i>>) \in units'
        BY <1>1, <1>8, <1>9, <4>1
      <4>3. Named(<<stack[k].file, i>>)' = Named(<<stack[k].file, i>>)
        BY <1>1, <3>1 DEF Named
      <4> QED BY <1>1, <3>1, <4>1, <4>2, <4>3 DEF Brought
    <3>3. CASE ~(k = n /\ i = stack[n].next)
      <4>1. i \in 1..stack[k].next - 1
        BY <1>4, <1>6, <2>6, <3>1, <3>3
      <4>2. i <= Len(tree[stack[k].file].imports) /\ Brought(<<stack[k].file, i>>)
        BY <1>0, <3>1, <4>1 DEF ResolvedOK
      <4>3. <<stack[k].file, i>> \in DOMAIN resolved' /\ Named(<<stack[k].file, i>>) \in units'
        BY <1>1, <1>8, <4>2 DEF Brought
      <4>4. Named(<<stack[k].file, i>>)' = Named(<<stack[k].file, i>>)
        BY <1>1, <3>1 DEF Named
      <4> QED BY <1>1, <3>1, <4>2, <4>3, <4>4 DEF Brought
    <3> QED BY <3>2, <3>3
  <2> QED BY <1>0, <1>1, <2>3, <2>5, <2>6 DEF ResolvedOK, FilesIn
<1>15. SourcesOK'
  <2> SUFFICES ASSUME NEW p, NEW f, p \in DOMAIN byLogical', byLogical'[p] = f
               PROVE  MeantBy(p, f)'
    BY DEF SourcesOK
  <2>1. MeantBy(p, f)
    BY <1>0, <1>1 DEF SourcesOK
  <2>2. CASE \E d \in DOMAIN resolved : resolved[d] = p /\ f = Named(d)
    BY <1>7, <1>8, <1>10, <2>2 DEF MeantBy
  <2>3. CASE \E k \in 1..n : Waiting(k) /\ stack[k].target = p /\ f = Named(Site(k))
    <3>1. PICK k \in 1..n : Waiting(k) /\ stack[k].target = p /\ f = Named(Site(k))
      BY <2>3
    <3>2. CASE k # n
      <4>1. stack'[k] = stack[k] /\ Waiting(k)' /\ f = Named(Site(k))'
        BY <1>4, <1>5, <1>7, <3>1, <3>2
      <4> QED BY <1>4, <3>1, <4>1 DEF MeantBy
    <3>3. CASE k = n
      <4>1. resolved'[s] = p /\ f = Named(s) /\ s \in DOMAIN resolved'
        BY <1>4, <1>6, <1>8, <3>1, <3>3
      <4> QED BY <1>7, <4>1 DEF MeantBy
    <3> QED BY <3>2, <3>3
  <2> QED BY <2>1, <2>2, <2>3 DEF MeantBy
<1>16. Provided'
  <2>1. \A k \in 2..n : stack'[k].logical = stack[k].logical
    BY <1>4, <1>6
  <2>2. Top.target \in DOMAIN byLogical
    BY <1>0, <1>1 DEF Provided
  <2>3. \A d \in DOMAIN resolved' : resolved'[d] \in DOMAIN byLogical'
    BY <1>0, <1>1, <1>8, <2>2 DEF Provided
  <2> QED BY <1>0, <1>1, <1>4, <2>1, <2>3 DEF Provided
<1> QED BY <1>11, <1>12, <1>13, <1>14, <1>15, <1>16 DEF Unfailed

\* A unit is finished after what it imports, unless that leads back to it.
LEMMA FinishUnitStep ==
  ASSUME Provenance, Unfailed, FinishUnit
  PROVE  Unfailed' /\ Postorder'
<1>0. IInv /\ Chained /\ RootFound /\ Asked /\ ResolvedOK /\ SourcesOK /\ Provided /\ Postorder
  BY DEF Provenance, Unfailed
<1>f. PICK f : f = Top.file
  OBVIOUS
<1>n. PICK n : n = Len(stack)
  OBVIOUS
<1>1. /\ UNCHANGED <<tree, projectRoot, units, byLogical, resolved>>
      /\ ctl.op = "run" /\ ctl'.op # "run" /\ ctl'.op # "call" /\ ctl'.op = "return"
      /\ ctl # Call(Entry, <<>>)
      /\ stack # <<>> /\ stack' = Pop /\ ordered' = Append(ordered, f)
      /\ ~(Top.next <= Len(tree[f].imports))
  BY <1>0, <1>f DEF FinishUnit, ImportsLeft, Return, Call, IInv, LoaderTypeOK, Steps, Run
<1>2. /\ n \in Nat /\ n \in 1..n /\ n # 0 /\ stack[n].file = f /\ Top = stack[n]
      /\ f \in DOMAIN tree /\ f \in units /\ f \notin FilesIn(ordered)
      /\ stack[n].next \in Nat /\ Len(tree[f].imports) \in Nat
  BY <1>0, <1>1, <1>f, <1>n, OnTop, FramesTyped
<1>3. /\ Len(stack') = n - 1 /\ (stack' = <<>> <=> n = 1)
      /\ \A k \in 1..n - 1 : /\ k \in 1..n /\ k < n /\ k # n /\ stack'[k] = stack[k]
                             /\ Site(k)' = Site(k) /\ Waiting(k) /\ Waiting(k)'
      /\ ~Waiting(n)
  <2>1. /\ Len(stack') = n - 1 /\ (stack' = <<>> <=> n = 1)
        /\ \A k \in 1..n - 1 : stack'[k] = stack[k]
    BY <1>0, <1>1, <1>n, StackPopped
  <2>2. \A k \in 1..n - 1 : k \in 1..n /\ k < n /\ k # n
    BY <1>2
  <2>3. ~(ctl.op # "run") /\ ctl'.op # "run"
    BY <1>1
  <2>4. ~Waiting(n) /\ \A k \in 1..n - 1 : Waiting(k) /\ Waiting(k)'
    BY <1>2, <1>n, <2>2, <2>3 DEF Waiting
  <2>5. \A k \in 1..n - 1 : Site(k)' = Site(k)
    BY <2>1 DEF Site
  <2> QED BY <2>1, <2>2, <2>4, <2>5
<1>4. /\ \A d : Named(d)' = Named(d)
      /\ \A k \in 1..n - 1 : Named(Site(k))' = Named(Site(k))
  BY <1>1, <1>3 DEF Named
<1>5. /\ Len(ordered) \in Nat /\ Len(ordered') = Len(ordered) + 1
      /\ \A i \in 1..Len(ordered) : ordered'[i] = ordered[i]
      /\ ordered'[Len(ordered) + 1] = f
  BY <1>0, <1>1, <1>2, AppendProperties, LenProperties DEF IInv, LoaderTypeOK
<1>6. FilesIn(ordered)' = FilesIn(ordered) \cup {f}
  <2>1. 1..Len(ordered') = 1..Len(ordered) \cup {Len(ordered) + 1}
    BY <1>5
  <2> QED BY <1>5, <2>1 DEF FilesIn
<1>7. \A i \in 1..Len(tree[f].imports) : Brought(<<f, i>>)
  <2>1. \A i \in 1..Len(tree[f].imports) : i \in 1..stack[n].next - 1
    BY <1>1, <1>2
  <2> QED BY <1>0, <1>2, <1>n, <2>1 DEF ResolvedOK
<1>8. Chained'
  <2>1. ASSUME NEW k \in 1..n - 1
        PROVE  /\ tree'[stack'[k].file].fate = "ok"
               /\ Waiting(k)' => /\ stack'[k].next <= Len(tree'[stack'[k].file].imports)
                                 /\ stack'[k].target # <<>>
               /\ k < n - 1 => /\ stack'[k + 1].file = Named(Site(k))'
                               /\ stack'[k + 1].logical = stack'[k].target
    <3>1. /\ tree[stack[k].file].fate = "ok"
          /\ stack[k].next <= Len(tree[stack[k].file].imports) /\ stack[k].target # <<>>
          /\ stack[k + 1].file = Named(Site(k)) /\ stack[k + 1].logical = stack[k].target
      BY <1>0, <1>3, <1>n DEF Chained
    <3>2. k < n - 1 => k + 1 \in 1..n - 1
      BY <1>2
    <3>3. k < n - 1 => stack'[k + 1] = stack[k + 1]
      BY <1>3, <3>2
    <3> QED BY <1>1, <1>3, <1>4, <3>1, <3>3
  <2>2. stack' # <<>> => stack'[1].file = Entry
    <3>1. stack' # <<>> => 1 \in 1..n - 1
      BY <1>2, <1>3
    <3> QED BY <1>0, <1>1, <1>3, <3>1 DEF Chained
  <2> QED BY <1>3, <2>1, <2>2 DEF Chained
<1>9. RootFound'
  BY <1>0, <1>1 DEF RootFound
<1>10. Asked'
  <2>1. CASE n = 1
    <3>1. f = Entry
      BY <1>0, <1>1, <1>2, <2>1 DEF Chained
    <3> QED BY <1>1, <1>2, <1>3, <2>1, <3>1 DEF Asked
  <2>2. CASE n # 1
    <3>1. n - 1 \in 1..n - 1 /\ n - 1 + 1 = n
      BY <1>2, <2>2
    <3>2. Named(Site(n - 1)) = f
      BY <1>0, <1>2, <1>3, <1>n, <3>1 DEF Chained
    <3>3. Named(Site(Len(stack)))' = f
      BY <1>3, <1>4, <3>1, <3>2 DEF Named, Site
    <3> QED BY <1>1, <1>2, <1>3, <2>2, <3>3 DEF Asked
  <2> QED BY <2>1, <2>2
<1>11. ResolvedOK'
  <2>1. ASSUME NEW d, d \in DOMAIN resolved PROVE d = <<d[1], d[2]>> /\ Passed(d)'
    <3>1. d = <<d[1], d[2]>> /\ Passed(d)
      BY <1>0, <2>1 DEF ResolvedOK
    <3>2. CASE d[1] \in FilesIn(ordered) /\ d[2] \in 1..Len(tree[d[1]].imports)
      BY <1>1, <1>6, <3>1, <3>2 DEF Passed
    <3>3. CASE \E k \in 1..n : stack[k].file = d[1] /\ d[2] \in 1..stack[k].next - 1
      <4>1. PICK k \in 1..n : stack[k].file = d[1] /\ d[2] \in 1..stack[k].next - 1
        BY <3>3
      <4>2. CASE k = n
        <5>1. d[1] = f /\ d[2] <= Len(tree[f].imports)
          BY <1>0, <1>2, <1>n, <4>1, <4>2 DEF ResolvedOK
        <5>2. d[2] \in 1..Len(tree[f].imports)
          BY <1>2, <4>1, <4>2, <5>1
        <5> QED BY <1>1, <1>6, <3>1, <5>1, <5>2 DEF Passed
      <4>3. CASE k # n
        <5>1. k \in 1..n - 1
          BY <1>2, <4>1, <4>3
        <5> QED BY <1>3, <3>1, <4>1, <5>1 DEF Passed
      <4> QED BY <4>2, <4>3
    <3> QED BY <1>n, <3>1, <3>2, <3>3 DEF Passed
  <2>2. ASSUME NEW g, NEW i, Brought(<<g, i>>) PROVE Brought(<<g, i>>)'
    BY <1>1, <1>4, <2>2 DEF Brought
  <2>3. ASSUME NEW k \in 1..Len(stack'), NEW i \in 1..stack'[k].next - 1
        PROVE  (i <= Len(tree[stack[k].file].imports) /\ Brought(<<stack[k].file, i>>))'
    <3>1. k \in 1..n /\ stack'[k] = stack[k] /\ i \in 1..stack[k].next - 1
      BY <1>3, <2>3
    <3>2. i <= Len(tree[stack[k].file].imports) /\ Brought(<<stack[k].file, i>>)
      BY <1>0, <1>n, <3>1 DEF ResolvedOK
    <3>3. <<stack[k].file, i>> \in DOMAIN resolved' /\ Named(<<stack[k].file, i>>) \in units'
      BY <1>1, <3>2 DEF Brought
    <3>4. Named(<<stack[k].file, i>>)' = Named(<<stack[k].file, i>>)
      BY <1>1, <3>1 DEF Named
    <3> QED BY <1>1, <3>1, <3>2, <3>3, <3>4 DEF Brought
  <2>4. ASSUME NEW g \in FilesIn(ordered)', NEW i \in 1..Len(tree'[g].imports)
        PROVE  Brought(<<g, i>>)'
    <3>1. Brought(<<g, i>>)
      BY <1>0, <1>1, <1>6, <1>7 DEF ResolvedOK
    <3> QED BY <2>2, <3>1
  <2> QED BY <1>1, <2>1, <2>3, <2>4 DEF ResolvedOK
<1>12. SourcesOK'
  <2> SUFFICES ASSUME NEW p, NEW g, p \in DOMAIN byLogical', byLogical'[p] = g
               PROVE  MeantBy(p, g)'
    BY DEF SourcesOK
  <2>1. MeantBy(p, g)
    BY <1>0, <1>1 DEF SourcesOK
  <2>2. CASE \E d \in DOMAIN resolved : resolved[d] = p /\ g = Named(d)
    BY <1>1, <1>4, <2>2 DEF MeantBy
  <2>3. CASE \E k \in 1..n : Waiting(k) /\ stack[k].target = p /\ g = Named(Site(k))
    <3>1. PICK k \in 1..n : Waiting(k) /\ stack[k].target = p /\ g = Named(Site(k))
      BY <2>3
    <3>2. k \in 1..n - 1
      BY <1>2, <1>3, <3>1
    <3>3. stack'[k] = stack[k] /\ Waiting(k)' /\ g = Named(Site(k))' /\ k \in 1..Len(stack')
      BY <1>3, <1>4, <3>1, <3>2
    <3> QED BY <3>1, <3>3 DEF MeantBy
  <2> QED BY <1>n, <2>1, <2>2, <2>3 DEF MeantBy
<1>13. Provided'
  <2>1. \A k \in 2..Len(stack') : stack'[k] = stack[k] /\ k \in 2..Len(stack)
    <3>1. \A k \in 2..n - 1 : k \in 1..n - 1 /\ k \in 2..n
      BY <1>2
    <3> QED BY <1>3, <1>n, <3>1
  <2>2. stack' # <<>> => Top'.target \in DOMAIN byLogical
    <3>1. SUFFICES ASSUME n # 1 PROVE Top'.target \in DOMAIN byLogical
      BY <1>3
    <3>2. n - 1 \in 1..n - 1 /\ n - 1 + 1 = n /\ n \in 2..n
      BY <1>2, <3>1
    <3>3. stack[n].logical = stack[n - 1].target /\ stack[n].logical \in DOMAIN byLogical
      BY <1>0, <1>3, <1>n, <3>2 DEF Chained, Provided
    <3>4. Top' = stack[n - 1]
      BY <1>3, <3>2 DEF Top
    <3> QED BY <3>3, <3>4
  <2> QED BY <1>0, <1>1, <2>1, <2>2 DEF Provided
<1>14. Postorder'
  <2>1. /\ \A g : Order!Reach(g)' = Order!Reach(g)
        /\ \A x, j : Named(<<x, j>>)' = Named(<<x, j>>)
    BY <1>1, SameTree
  <2>2. ASSUME NEW i \in 1..Len(ordered'), NEW j \in 1..Len(tree[ordered'[i]].imports)
        PROVE  \/ \E k \in 1..i - 1 : ordered'[k] = Named(<<ordered'[i], j>>)
               \/ ordered'[i] \in Order!Reach(Named(<<ordered'[i], j>>))
    <3>1. CASE i \in 1..Len(ordered)
      <4>1. ordered'[i] = ordered[i] /\ \A k \in 1..i - 1 : ordered'[k] = ordered[k]
        BY <1>5, <3>1
      <4> QED BY <1>0, <3>1, <4>1 DEF Postorder
    <3>2. CASE i = Len(ordered) + 1
      <4>1. ordered'[i] = f /\ j \in 1..Len(tree[f].imports) /\ 1..i - 1 = 1..Len(ordered)
        BY <1>5, <2>2, <3>2
      <4>2. Named(<<f, j>>) \in units
        BY <1>7, <4>1 DEF Brought
      <4>3. CASE Named(<<f, j>>) \in FilesIn(ordered)
        <5>1. PICK k \in 1..Len(ordered) : ordered[k] = Named(<<f, j>>)
          BY <4>3 DEF FilesIn
        <5> QED BY <1>5, <4>1, <5>1
      <4>4. CASE Named(<<f, j>>) \in StackFiles
        <5>1. PICK k \in 1..n : stack[k].file = Named(<<f, j>>)
          BY <1>n, <4>4 DEF StackFiles
        <5>2. n \in k..n
          BY <1>2, <5>1
        <5>3. f \in Order!Reach(Named(<<f, j>>))
          BY <1>0, <1>2, <1>n, <5>1, <5>2, StackReaches
        <5> QED BY <4>1, <5>3
      <4> QED BY <1>0, <4>2, <4>3, <4>4 DEF IInv, UnitsAccounted
    <3> QED BY <1>5, <2>2, <3>1, <3>2
  <2> QED BY <1>1, <2>1, <2>2 DEF Postorder
<1> QED BY <1>8, <1>9, <1>10, <1>11, <1>12, <1>13, <1>14 DEF Unfailed

-----------------------------------------------------------------------------
(* The steps of a load that fails.                                         *)

\* A call asks for a file that the innermost frame's file imports.
LEMMA CalledIsImported ==
  ASSUME IInv, Unfailed, ctl.op = "call", stack # <<>>
  PROVE  <<Top.file, ctl.file>> \in ImportEdges
<1> DEFINE n == Len(stack)
<1>1. /\ n \in 1..n /\ ctl.file = Named(Site(n)) /\ Waiting(n)
      /\ stack[n].file \in DOMAIN tree /\ stack[n].next \in Nat \ {0}
      /\ Len(tree[stack[n].file].imports) \in Nat
  BY FramesTyped DEF Unfailed, Chained, Asked, Call, Waiting
<1>2. stack[n].next \in 1..Len(tree[stack[n].file].imports)
  BY <1>1 DEF Unfailed, Chained
<1> QED BY <1>1, <1>2, ImportIsEdge DEF Site, Top

\* It can be reached from the entry.
LEMMA CalledIsReached ==
  ASSUME IInv, Unfailed, ctl.op = "call"
  PROVE  ctl.file \in Order!Reach(Entry)
<1>0. Chained /\ Asked
  BY DEF Unfailed
<1>1. CASE stack = <<>>
  BY <1>0, <1>1, ReachesItself DEF Asked, Call
<1>2. CASE stack # <<>>
  <2>1. 1 \in 1..Len(stack) /\ Len(stack) \in 1..Len(stack) /\ stack[1].file = Entry
    BY <1>0, <1>2, FramesTyped DEF Chained
  <2>2. Top.file \in Order!Reach(Entry)
    BY <1>0, <2>1, StackReaches DEF Top
  <2> QED BY <1>2, <2>2, CalledIsImported, ReachesOn
<1> QED BY <1>1, <1>2

\* What an edge leads to is an import.
LEMMA EdgeImports ==
  ASSUME NEW f, NEW g, <<f, g>> \in ImportEdges
  PROVE  g \in Order!Imports(f)
<1>1. <<f, g>>[1] = f /\ <<f, g>>[2] = g
  OBVIOUS
<1>2. <<f, g>> \in {d \in ImportEdges : d[1] = f}
  BY <1>1
<1> QED BY <1>1, <1>2 DEF Order!Imports

\* A call at too great a depth has a chain of that many imports on the stack.
LEMMA DepthIsChain ==
  ASSUME IInv, Unfailed, TooDeep
  PROVE  TooLongChain
<1> DEFINE chain == [k \in 1..MaxDepth + 1 |-> stack[k].file]
<1>0. Chained /\ ctl.op = "call" /\ MaxDepth \in Nat
  BY DepthAssumption DEF Unfailed, TooDeep
<1>1. Len(stack) \in Nat /\ Len(stack) >= MaxDepth + 1 /\ stack # <<>>
  BY <1>0, FramesTyped DEF TooDeep
<1>2. \A k \in 1..MaxDepth + 1 : k \in 1..Len(stack)
  BY <1>0, <1>1
<1>3. chain \in [1..MaxDepth + 1 -> Sound]
  BY <1>0, <1>2, FramesTyped DEF Chained, Sound
<1>4. chain[1] = Entry
  BY <1>0, <1>1 DEF Chained
<1>5. \A i, j \in 1..MaxDepth + 1 : chain[i] = chain[j] => i = j
  BY <1>2, FramesDiffer
<1>6. \A i \in 1..MaxDepth : chain[i + 1] \in Order!Imports(chain[i])
  <2> SUFFICES ASSUME NEW i \in 1..MaxDepth PROVE chain[i + 1] \in Order!Imports(chain[i])
    OBVIOUS
  <2>1. /\ i \in 1..Len(stack) - 1 /\ i \in 1..MaxDepth + 1 /\ i + 1 \in 1..MaxDepth + 1
    BY <1>0, <1>1
  <2>2. <<stack[i].file, stack[i + 1].file>> \in ImportEdges
    BY <1>0, <2>1, StackEdge
  <2>3. stack[i + 1].file \in Order!Imports(stack[i].file)
    BY <2>2, EdgeImports
  <2> QED BY <2>1, <2>3
<1>7. Order!Imports(chain[MaxDepth + 1]) # {}
  <2>1. MaxDepth + 1 \in 1..MaxDepth + 1
    BY <1>0
  <2>2. CASE Len(stack) = MaxDepth + 1
    <3>1. <<stack[MaxDepth + 1].file, ctl.file>> \in ImportEdges
      BY <1>0, <1>1, <2>2, CalledIsImported DEF Top
    <3> QED BY <2>1, <3>1, EdgeImports
  <2>3. CASE Len(stack) # MaxDepth + 1
    <3>1. MaxDepth + 1 \in 1..Len(stack) - 1
      BY <1>0, <1>1, <2>3
    <3>2. <<stack[MaxDepth + 1].file, stack[MaxDepth + 1 + 1].file>> \in ImportEdges
      BY <1>0, <3>1, StackEdge
    <3> QED BY <2>1, <3>2, EdgeImports
  <2> QED BY <2>2, <2>3
<1> HIDE DEF chain
<1> QED BY <1>3, <1>4, <1>5, <1>6, <1>7 DEF TooLongChain, Order!TooLong

\* A load fails where a file is bad or a chain is long.
LEMMA FailingStep ==
  ASSUME Provenance, Unfailed, TooDeep \/ Unresolved \/ Rejected
  PROVE  Failing' /\ Justified'
<1>0. IInv /\ Chained /\ tree \in Trees
  BY DEF Provenance, Unfailed, IInv
<1>1. ctl.op = "call" /\ tree' = tree
  BY DEF TooDeep, Unresolved, Rejected
<1>2. ctl.file \in Order!Reach(Entry)
  BY <1>0, <1>1, CalledIsReached
<1>3. Sound' = Sound /\ Order!Reach(Entry)' = Order!Reach(Entry)
  BY <1>1, SameTree
<1>4. CASE TooDeep
  <2>3. TooLongChain /\ TooLongChain' = TooLongChain
    BY <1>0, <1>1, <1>4, DepthIsChain, SameTree
  <2>4. Failing'
    BY <1>4 DEF TooDeep, Failing, Return
  <2> QED BY <1>3, <2>3, <2>4 DEF Justified
<1>5. CASE Unresolved
  <2>1. ctl.file \notin Sound
    BY <1>5 DEF Unresolved, Sound
  <2>2. Failing'
    BY <1>5 DEF Unresolved, Failing, Return
  <2> QED BY <1>2, <1>3, <2>1, <2>2 DEF Justified
<1>6. CASE Rejected
  <2>1. ctl.file \notin Sound
    BY <1>6 DEF Rejected, Sound
  <2>2. tree[ctl.file].fate \in DOMAIN Fates /\ tree[ctl.file].fate # "ok"
    BY <1>0, <1>6, TreesAssumption DEF Rejected
  <2>3. Fates[tree[ctl.file].fate] # "EXIT_OK"
    BY <2>2 DEF Fates
  <2>4. Failing'
    BY <1>6, <2>3 DEF Rejected, Failing, Return
  <2> QED BY <1>2, <1>3, <2>1, <2>4 DEF Justified
<1> QED BY <1>4, <1>5, <1>6

\* The loader starts in the invariant.
LEMMA ProvenanceInit == LoaderInit => Provenance
<1> SUFFICES ASSUME LoaderInit PROVE Provenance
  OBVIOUS
<1>1. IInv
  BY LoaderInitInv
<1>2. /\ projectRoot = NULL /\ units = {} /\ ordered = <<>> /\ resolved = <<>> /\ byLogical = <<>>
      /\ stack = <<>> /\ ctl = Call(Entry, <<>>) /\ ctl.op = "call"
      /\ Len(stack) = 0 /\ Len(ordered) = 0
  BY DEF LoaderInit, Call
<1>3. Chained
  BY <1>2 DEF Chained
<1>4. RootFound /\ Asked
  BY <1>2 DEF RootFound, Asked
<1>5. ResolvedOK /\ SourcesOK /\ Provided
  BY <1>2 DEF ResolvedOK, SourcesOK, Provided, FilesIn
<1>6. Postorder
  BY <1>2 DEF Postorder
<1>7. Justified
  BY <1>2 DEF Justified, Failing
<1> QED BY <1>1, <1>3, <1>4, <1>5, <1>6, <1>7 DEF Provenance, Unfailed

\* Every step of the loader keeps the invariant.
LEMMA ProvenanceStep == Provenance /\ [LoaderNext]_loaderVars => Provenance'
<1> SUFFICES ASSUME Provenance, [LoaderNext]_loaderVars PROVE Provenance'
  OBVIOUS
<1>1. IInv /\ IInv' /\ Postorder /\ Justified /\ (Failing \/ Unfailed)
  BY LoaderStepInv DEF Provenance
<1>2. ASSUME tree' = tree, ordered' = ordered PROVE Postorder'
  <2>1. /\ \A g : Order!Reach(g)' = Order!Reach(g)
        /\ \A x, j : Named(<<x, j>>)' = Named(<<x, j>>)
    BY <1>2, SameTree
  <2> QED BY <1>1, <1>2, <2>1 DEF Postorder
<1>3. CASE UNCHANGED loaderVars
  <2>1. tree' = tree /\ ordered' = ordered
    BY <1>3 DEF loaderVars
  <2>2. Justified'
    <3>1. /\ Sound' = Sound /\ Order!Reach(Entry)' = Order!Reach(Entry)
          /\ TooLongChain' = TooLongChain
      BY <2>1, SameTree
    <3>2. Failing' => Failing
      BY <1>3 DEF Failing, loaderVars
    <3> QED BY <1>1, <3>1, <3>2 DEF Justified
  <2>3. Failing => Failing'
    BY <1>3 DEF Failing, loaderVars
  <2>4. Unfailed => Unfailed'
    BY <1>3 DEF loaderVars, Unfailed, Chained, RootFound, Asked, ResolvedOK, SourcesOK, Provided,
                Waiting, Site, Passed, Brought, MeantBy, FilesIn, Named, Top
  <2> QED BY <1>1, <1>2, <2>1, <2>2, <2>3, <2>4 DEF Provenance
<1>4. CASE Failing /\ LoaderNext
  <2>1. ImportFailed
    BY <1>4 DEF Failing, LoaderNext, TooDeep, Unresolved, AlreadyLoaded, Rejected, CreateUnit,
                FollowImport, ImportLoaded, FinishUnit
  <2>2. tree' = tree /\ ordered' = ordered /\ ctl' = ctl
    BY <2>1 DEF ImportFailed
  <2>3. /\ Failing' /\ Sound' = Sound /\ Order!Reach(Entry)' = Order!Reach(Entry)
        /\ TooLongChain' = TooLongChain
    BY <1>4, <2>2, SameTree DEF Failing
  <2> QED BY <1>1, <1>2, <1>4, <2>2, <2>3 DEF Provenance, Justified
<1>5. CASE Unfailed /\ ~Failing /\ LoaderNext
  <2>1. CASE TooDeep \/ Unresolved \/ Rejected
    <3>1. tree' = tree /\ ordered' = ordered
      BY <2>1 DEF TooDeep, Unresolved, Rejected
    <3> QED BY <1>1, <1>2, <1>5, <2>1, <3>1, FailingStep DEF Provenance
  <2>2. CASE AlreadyLoaded
    <3>1. tree' = tree /\ ordered' = ordered /\ ~Failing'
      BY <2>2 DEF AlreadyLoaded, Failing, Return
    <3> QED BY <1>1, <1>2, <1>5, <2>2, <3>1, AlreadyLoadedStep DEF Provenance, Justified
  <2>3. CASE CreateUnit
    <3>1. tree' = tree /\ ordered' = ordered /\ ~Failing'
      BY <2>3 DEF CreateUnit, Failing, Run
    <3> QED BY <1>1, <1>2, <1>5, <2>3, <3>1, CreateUnitStep DEF Provenance, Justified
  <2>4. CASE FollowImport
    <3>1. tree' = tree /\ ordered' = ordered /\ ~Failing'
      BY <2>4 DEF FollowImport, Failing, Call
    <3> QED BY <1>1, <1>2, <1>5, <2>4, <3>1, FollowImportStep DEF Provenance, Justified
  <2>5. CASE ImportLoaded
    <3>1. tree' = tree /\ ordered' = ordered /\ ~Failing'
      BY <2>5 DEF ImportLoaded, Failing, Run
    <3> QED BY <1>1, <1>2, <1>5, <2>5, <3>1, ImportLoadedStep DEF Provenance, Justified
  <2>6. CASE ImportFailed
    BY <1>5, <2>6 DEF ImportFailed, Failing
  <2>7. CASE FinishUnit
    <3>1. ~Failing'
      BY <2>7 DEF FinishUnit, Failing, Return
    <3> QED BY <1>1, <1>5, <2>7, <3>1, FinishUnitStep DEF Provenance, Justified
  <2> QED BY <1>5, <2>1, <2>2, <2>3, <2>4, <2>5, <2>6, <2>7 DEF LoaderNext
<1> QED BY <1>1, <1>3, <1>4, <1>5

\* Until a load fails, every import followed so far is resolved to a
\* registered path and its file is loaded, and whatever happens units come out
\* after what they import except where that leads back to them.
THEOREM ProvenanceHolds == LoaderSpec => []Provenance
<1> QED BY ProvenanceInit, ProvenanceStep, PTL DEF LoaderSpec

-----------------------------------------------------------------------------
(* The loader implements DependencyOrder.                                  *)

\* What a finished unit is to the abstract specification.
LEMMA FinishCompletes ==
  ASSUME Provenance, FinishUnit
  PROVE  Top.file \in Sound /\ Order!Complete(Top.file)
<1>0. /\ ctl.op = "run" /\ stack' = Pop /\ ordered' = Append(ordered, Top.file)
      /\ ctl' = Return("EXIT_OK") /\ tree' = tree /\ units' = units
  BY DEF FinishUnit
<1>1. IInv /\ Unfailed /\ Chained /\ IInv' /\ Unfailed' /\ ResolvedOK'
  <2>1. IInv /\ Unfailed
    BY <1>0 DEF Provenance, Failing
  <2>2. IInv'
    BY <2>1, LoaderStepInv DEF LoaderNext
  <2> QED BY <2>1, <2>2, FinishUnitStep DEF Unfailed
<1>f. PICK f : f = Top.file
  OBVIOUS
<1>n. PICK n : n = Len(stack)
  OBVIOUS
<1>2. /\ stack # <<>> /\ n \in Nat /\ n \in 1..n /\ 1 \in 1..n /\ stack[n].file = f
      /\ stack[1].file = Entry /\ f \in DOMAIN tree /\ f \notin FilesIn(ordered)
  <2>1. stack # <<>>
    BY <1>0, <1>1 DEF IInv, LoaderTypeOK, Steps, Call, Return
  <2>2. n \in Nat /\ n \in 1..n /\ 1 \in 1..n
    BY <1>1, <1>n, <2>1, FramesTyped
  <2>3. stack[n].file = f
    BY <1>f, <1>n DEF Top
  <2>4. f \in DOMAIN tree /\ f \notin FilesIn(ordered)
    BY <1>1, <1>n, <2>2, <2>3, FramesTyped
  <2> QED BY <1>1, <2>1, <2>2, <2>3, <2>4 DEF Chained
<1>3. f \in Sound
  BY <1>1, <1>2, <1>n DEF Chained, Sound
<1>4. f = Entry <=> n = 1
  BY <1>1, <1>2, <1>n, FramesDiffer
<1>5. stack' = <<>> <=> n = 1
  BY <1>0, <1>1, <1>2, <1>n, StackPopped
<1>6. LoadOutcome = "loading" /\ LoadOutcome' = IF f = Entry THEN "loaded" ELSE "loading"
  BY <1>0, <1>4, <1>5 DEF LoadOutcome, LoadDone, Return
<1>7. Order!Completed = FilesIn(ordered)
  BY DEF Order!Completed, FilesIn
<1>8. f \in Order!Reach(Entry)
  BY <1>1, <1>2, <1>n, StackReaches
<1>9. /\ ImportEdges' = ImportEdges /\ Sound' = Sound
      /\ \A d : Named(d)' = Named(d)
  BY <1>0, SameTree
<1>10. FilesIn(ordered)' = FilesIn(ordered) \cup {f}
  <2>1. ordered \in Seq(DOMAIN tree)
    BY <1>1 DEF IInv, LoaderTypeOK
  <2>2. /\ Len(ordered) \in Nat /\ Len(ordered') = Len(ordered) + 1
        /\ \A i \in 1..Len(ordered) : ordered'[i] = ordered[i]
        /\ ordered'[Len(ordered) + 1] = f
    BY <1>0, <1>2, <1>f, <2>1, AppendProperties, LenProperties
  <2>3. 1..Len(ordered') = 1..Len(ordered) \cup {Len(ordered) + 1}
    BY <2>2
  <2> QED BY <2>2, <2>3 DEF FilesIn
<1>11. ASSUME NEW x \in FilesIn(ordered)', NEW g, <<x, g>> \in ImportEdges
       PROVE  g \in units
  <2>1. PICK y \in DOMAIN tree : \E i \in 1..Len(tree[y].imports) : <<x, g>> = <<y, Named(<<y, i>>)>>
    BY <1>11, EdgeIsImport
  <2>2. PICK i \in 1..Len(tree[x].imports) : g = Named(<<x, i>>)
    BY <2>1
  <2>3. Brought(<<x, i>>)'
    BY <1>0, <1>1, <1>11 DEF ResolvedOK
  <2> QED BY <1>0, <1>9, <2>2, <2>3 DEF Brought
<1>12. ASSUME NEW g \in Order!Imports(f) PROVE g \in Order!Completed \/ f \in Order!Reach(g)
  <2>1. <<f, g>> \in ImportEdges
    <3>1. PICK d \in ImportEdges : d[1] = f /\ g = d[2]
      BY DEF Order!Imports
    <3>2. \E x \in DOMAIN tree : \E i \in 1..Len(tree[x].imports) : d = <<x, Named(<<x, i>>)>>
      BY <3>1, EdgeIsImport
    <3> QED BY <3>1, <3>2
  <2>2. g \in units
    BY <1>10, <1>11, <2>1
  <2>3. CASE g \in FilesIn(ordered)
    BY <1>7, <2>3
  <2>4. CASE g \in StackFiles
    <3>1. PICK k \in 1..n : stack[k].file = g
      BY <1>n, <2>4 DEF StackFiles
    <3>2. n \in k..n
      BY <1>2, <3>1
    <3> QED BY <1>1, <1>2, <1>n, <3>1, <3>2, StackReaches
  <2> QED BY <1>1, <2>2, <2>3, <2>4 DEF IInv, UnitsAccounted
<1>13. f = Entry => Order!Reach(Entry) \subseteq Order!Completed \cup {Entry}
  <2>1. SUFFICES ASSUME f = Entry
                 PROVE  Order!Reach(Entry) \subseteq Order!Completed \cup {Entry}
    OBVIOUS
  <2>2. units' = FilesIn(ordered)'
    <3>1. stack' = <<>> /\ Len(stack') = 0
      BY <1>4, <1>5, <2>1
    <3>2. StackFiles' = {}
      BY <3>1 DEF StackFiles
    <3> QED BY <1>1, <3>2 DEF IInv, UnitsAccounted
  <2>3. ASSUME NEW F, F = FilesIn(ordered)'
        PROVE  Order!Reach(Entry) \subseteq F
    <3>1. Entry \in F
      BY <1>10, <2>1, <2>3
    <3>2. \A g, h : g \in F /\ <<g, h>> \in ImportEdges => h \in F
      BY <1>0, <1>11, <2>2, <2>3
    <3> QED BY <3>1, <3>2, ReachIsLeast
  <2> QED BY <1>7, <1>10, <2>1, <2>3
<1> QED BY <1>0, <1>2, <1>3, <1>6, <1>7, <1>8, <1>9, <1>12, <1>13, <1>f DEF Order!Complete, Sound

\* A load that ends in failure is a failure of the abstract specification.
LEMMA FailureFails ==
  ASSUME Provenance, LoadOutcome = "loading", LoadOutcome' = "failed", ordered' = ordered,
         tree' = tree, Justified', Failing'
  PROVE  Order!Fail
<1>1. /\ ImportEdges' = ImportEdges /\ Sound' = Sound
      /\ Order!Reach(Entry)' = Order!Reach(Entry) /\ TooLongChain' = TooLongChain
  BY SameTree
<1>2. ~(Order!Reach(Entry) \subseteq Sound) \/ TooLongChain
  BY <1>1 DEF Justified
<1> QED BY <1>1, <1>2 DEF Order!Fail, Sound, TooLongChain

\* Each step of the loader is a step of DependencyOrder, or none.
LEMMA LoaderRefines ==
  Provenance /\ Provenance' /\ [LoaderNext]_loaderVars => [Order!OrderNext]_(Order!orderVars)
<1> SUFFICES ASSUME Provenance, Provenance', [LoaderNext]_loaderVars
             PROVE  Order!OrderNext \/ UNCHANGED Order!orderVars
  OBVIOUS
<1>1. CASE FinishUnit
  BY <1>1, FinishCompletes DEF Order!OrderNext, Sound
<1>2. CASE [LoaderNext]_loaderVars /\ ~FinishUnit
  <2>1. tree' = tree /\ ordered' = ordered
    BY <1>2 DEF LoaderNext, TooDeep, Unresolved, AlreadyLoaded, Rejected, CreateUnit, FollowImport,
                ImportLoaded, ImportFailed, loaderVars
  <2>2. ImportEdges' = ImportEdges /\ Sound' = Sound
    BY <2>1, SameTree
  <2>3. CASE LoadOutcome' = LoadOutcome
    BY <2>1, <2>2, <2>3 DEF Order!orderVars, Sound
  <2>4. CASE LoadOutcome' # LoadOutcome
    <3>1. LoadOutcome = "loading"
      <4>1. SUFFICES ASSUME LoadDone PROVE FALSE
        BY DEF LoadOutcome
      <4>2. LoadDone' /\ ctl' = ctl
        BY <1>2, <4>1 DEF LoadDone, LoaderNext, TooDeep, Unresolved, AlreadyLoaded, Rejected,
             CreateUnit, FollowImport, ImportLoaded, ImportFailed, loaderVars
      <4> QED BY <2>4, <4>1, <4>2 DEF LoadOutcome
    <3>2. LoadDone' /\ ~LoadDone
      BY <2>4, <3>1 DEF LoadOutcome
    <3>3. Failing'
      <4>1. SUFFICES ASSUME ctl'.rc = "EXIT_OK" PROVE FALSE
        BY <3>2 DEF Failing, LoadDone
      <4>2. CASE AlreadyLoaded
        <5>1. Unfailed
          BY <4>2 DEF Provenance, Failing, AlreadyLoaded
        <5>2. stack # <<>> /\ stack' = stack
          BY <4>2, <5>1, AlreadyLoadedStep DEF AlreadyLoaded
        <5> QED BY <3>2, <5>2 DEF LoadDone
      <4>3. CASE ImportFailed
        BY <4>1, <4>3 DEF ImportFailed
      <4>4. CASE Rejected
        <5>1. tree[ctl.file].fate \in DOMAIN Fates /\ tree[ctl.file].fate # "ok"
          BY <4>4, TreesAssumption DEF Rejected, Provenance, IInv
        <5>2. Fates[tree[ctl.file].fate] # "EXIT_OK"
          BY <5>1 DEF Fates
        <5> QED BY <4>1, <4>4, <5>2 DEF Rejected, Return
      <4>5. CASE TooDeep \/ Unresolved
        BY <4>1, <4>5 DEF TooDeep, Unresolved, Return
      <4>6. CASE CreateUnit \/ FollowImport \/ ImportLoaded
        BY <3>2, <4>6 DEF CreateUnit, FollowImport, ImportLoaded, LoadDone, Run, Call
      <4>7. CASE UNCHANGED loaderVars
        BY <3>2, <4>7 DEF LoadDone, loaderVars
      <4> QED BY <1>2, <4>2, <4>3, <4>4, <4>5, <4>6, <4>7 DEF LoaderNext
    <3>4. LoadOutcome' = "failed"
      BY <3>2, <3>3 DEF LoadOutcome, Failing
    <3> QED BY <2>1, <3>1, <3>3, <3>4, FailureFails DEF Provenance, Order!OrderNext
  <2> QED BY <2>3, <2>4
<1> QED BY <1>1, <1>2

\* The loader implements DependencyOrder for every tree: units come out after
\* everything they import except where files import each other, a load
\* succeeds exactly with all reachable files, and fails only for a bad or
\* missing file or where more imports in a row than the limit, each of another
\* file, lead down from the entry.
THEOREM LoaderImplements == LoaderSpec => ImplementsDependencyOrder
<1>1. LoaderInit => Order!OrderInit
  BY DEF LoaderInit, Order!OrderInit, LoadOutcome, LoadDone, Call
<1> QED BY <1>1, ProvenanceHolds, LoaderRefines, PTL
        DEF LoaderSpec, ImplementsDependencyOrder, Order!OrderSpec
=============================================================================
