----------------------- MODULE Instantiation_proofs -----------------------
(***************************************************************************)
(* For every program over every set of templates and every limit: nothing  *)
(* is instantiated twice, the queue is empty outside a drain, the depth    *)
(* counter bounds the nesting, and what is checked without an error is     *)
(* closed under what it mentions.                                          *)
(***************************************************************************)
EXTENDS Instantiation, FiniteSetTheorems, SequenceTheorems, TLAPS

-----------------------------------------------------------------------------
(* What the requests of a use are.                                         *)

Instances == {t \in Types : t # <<>> /\ Head(t) \in Structs}
StructRequests == [what : {"struct"}, inst : Instances, arity : Nat]
CallRequests   == [what : {"call"}, inst : Types, arity : Nat, name : FunctionSymbols]
MethodRequests == [what : {"method"}, inst : Types, arity : Nat, name : Methods]
AllRequests    == StructRequests \cup CallRequests \cup MethodRequests

\* In a finite set of numbers every rank from the greatest down is held by one.
LEMMA RankFromTop ==
  ASSUME NEW S \in SUBSET Nat, IsFiniteSet(S), NEW n \in 1..Cardinality(S)
  PROVE  \E i \in S : Cardinality({j \in S : j >= i}) = n
<1> DEFINE Above(i) == {j \in S : j >= i}
           rank == [i \in S |-> Cardinality(Above(i))]
<1>1. ASSUME NEW i \in S
      PROVE  IsFiniteSet(Above(i)) /\ Cardinality(Above(i)) \in 1..Cardinality(S)
  <2>1. Above(i) \in SUBSET S /\ i \in Above(i)
    OBVIOUS
  <2> HIDE DEF Above
  <2>2. IsFiniteSet(Above(i)) /\ Cardinality(Above(i)) <= Cardinality(S)
    BY <2>1, FS_Subset
  <2>3. Cardinality(Above(i)) \in Nat /\ Cardinality(S) \in Nat
    BY <2>2, FS_CardinalityType
  <2>4. Cardinality(Above(i)) # 0
    BY <2>1, <2>2, FS_EmptySet
  <2> QED BY <2>2, <2>3, <2>4
<1>2. ASSUME NEW i \in S, NEW k \in S, i < k
      PROVE  Cardinality(Above(i)) # Cardinality(Above(k))
  <2>0. S \subseteq Nat /\ i \in Nat /\ k \in Nat
    OBVIOUS
  <2>1. Above(k) \in SUBSET Above(i) /\ i \in Above(i) /\ i \notin Above(k)
    <3>1. \A j \in S : j >= k => j >= i
      BY <1>2, <2>0
    <3>2. i >= i /\ ~(i >= k)
      BY <1>2, <2>0
    <3> QED BY <3>1, <3>2
  <2> HIDE DEF Above
  <2> QED BY <2>1, <1>1, FS_Subset
<1> HIDE DEF Above
<1>3. rank \in [S -> 1..Cardinality(S)]
  BY <1>1
<1>4. ASSUME NEW i \in S, NEW k \in S, rank[i] = rank[k] PROVE i = k
  <2>1. i < k \/ k < i \/ i = k
    OBVIOUS
  <2> QED BY <2>1, <1>2, <1>4
<1>5. rank \in Injection(S, 1..Cardinality(S))
  BY <1>3, <1>4 DEF Injection, IsInjective
<1>6. Cardinality(S) \in Nat
  BY FS_CardinalityType
<1>7. IsFiniteSet(1..Cardinality(S)) /\ Cardinality(1..Cardinality(S)) = Cardinality(S)
  BY <1>6, FS_Interval
<1>8. rank \in Surjection(S, 1..Cardinality(S))
  BY <1>5, <1>7, FS_Injection
<1>9. PICK i \in S : rank[i] = n
  BY <1>8 DEF Surjection
<1> QED BY <1>9 DEF Above

\* What a use names is a type.
LEMMA NamedType ==
  ASSUME NEW use \in Uses, NEW arg \in Types
  PROVE  /\ Named(use, arg) \in Types
         /\ Len(use.of) <= Len(Named(use, arg))
         /\ \A i \in 1..Len(use.of) : Named(use, arg)[i] = use.of[i]
<1>1. use.of \in Types
  BY DEF Uses, TypeUses, CallUses, MethodUses
<1>2. PICK rest \in Types : Named(use, arg) = use.of \o rest
  <2>1. (IF use.open THEN arg ELSE <<>>) \in Types
    <3>1. <<>> \in Types
      BY DEF Types
    <3> QED BY <3>1
  <2> QED BY <2>1 DEF Named
<1> QED BY <1>1, <1>2, ConcatProperties DEF Types

\* The requests of a use are well formed; a type use asks for structs only.
LEMMA RequestsType ==
  ASSUME NEW use \in Uses, NEW arg \in Types
  PROVE  /\ Requests(use, arg) \in Seq(AllRequests)
         /\ use \in TypeUses => Requests(use, arg) \in Seq(StructRequests)
<1> DEFINE full == Named(use, arg)
           structs == {i \in 1..Len(use.of) : use.of[i] \in Structs}
           at(n) == CHOOSE i \in structs : Cardinality({j \in structs : j >= i}) = n
           inst(i) == [what |-> "struct", inst |-> SubSeq(full, i, Len(full)), arity |-> use.arity]
           first == [n \in 1..Cardinality(structs) |-> inst(at(n))]
           last == IF use.what = "type" THEN <<>>
                   ELSE << [what |-> use.what, inst |-> full, arity |-> use.arity,
                            name |-> use.name] >>
<1>1. use.of \in Types /\ use.arity \in Nat /\ full \in Types /\ full \in Seq(Constructors)
  BY NamedType DEF Uses, TypeUses, CallUses, MethodUses, Types
<1>2. structs \in SUBSET Nat /\ IsFiniteSet(structs)
  <2>1. Len(use.of) \in Nat
    BY <1>1 DEF Types
  <2>2. IsFiniteSet(1..Len(use.of)) /\ structs \in SUBSET (1..Len(use.of))
    BY <2>1, FS_Interval
  <2> QED BY <2>1, <2>2, FS_Subset
<1>3. ASSUME NEW i \in structs PROVE inst(i) \in StructRequests
  <2>1. i \in 1..Len(full) /\ full[i] \in Structs
    BY NamedType, <1>1 DEF Types
  <2> HIDE DEF full, structs
  <2>2. i \in Int /\ Len(full) \in Int /\ i <= Len(full) /\ i >= 1
        /\ \A k \in i..Len(full) : full[k] \in Constructors
    BY <2>1, <1>1
  <2>3. /\ SubSeq(full, i, Len(full)) \in Seq(Constructors)
        /\ Len(SubSeq(full, i, Len(full))) = Len(full) - i + 1
        /\ SubSeq(full, i, Len(full))[1] = full[i]
    BY <2>2, SubSeqProperties
  <2>4. SubSeq(full, i, Len(full)) \in Instances
    <3> DEFINE t == SubSeq(full, i, Len(full))
    <3>1. t \in Seq(Constructors) /\ Len(t) > 0 /\ t[1] \in Structs
      BY <2>1, <2>2, <2>3
    <3> HIDE DEF t
    <3>2. t \in Instances
      BY <3>1 DEF Instances, Types
    <3> QED BY <3>2 DEF t
  <2> QED BY <2>4, <1>1 DEF StructRequests
<1>4. ASSUME NEW n \in 1..Cardinality(structs) PROVE at(n) \in structs
  <2> HIDE DEF structs
  <2>1. \E i \in structs : Cardinality({j \in structs : j >= i}) = n
    BY <1>2, RankFromTop
  <2> QED BY <2>1
<1>5. Cardinality(structs) \in Nat
  <2> HIDE DEF structs
  <2> QED BY <1>2, FS_CardinalityType
<1>6. first \in Seq(StructRequests)
  <2> HIDE DEF structs, at, inst
  <2>1. \A n \in 1..Cardinality(structs) : inst(at(n)) \in StructRequests
    BY <1>3, <1>4
  <2> QED BY <2>1, <1>5
<1>7. last \in Seq(AllRequests) /\ (use \in TypeUses => last = <<>>)
  <2> HIDE DEF full
  <2>1. CASE use \in TypeUses
    BY <2>1 DEF TypeUses
  <2>2. CASE use \in CallUses
    <3>1. last = << [what |-> "call", inst |-> full, arity |-> use.arity, name |-> use.name] >>
          /\ use.name \in FunctionSymbols /\ use \notin TypeUses
      BY <2>2 DEF CallUses, TypeUses
    <3>2. last[1] \in AllRequests
      BY <3>1, <1>1 DEF CallRequests, AllRequests
    <3> QED BY <3>1, <3>2
  <2>3. CASE use \in MethodUses
    <3>1. last = << [what |-> "method", inst |-> full, arity |-> use.arity, name |-> use.name] >>
          /\ use.name \in Methods /\ use \notin TypeUses
      BY <2>3 DEF MethodUses, TypeUses
    <3>2. last[1] \in AllRequests
      BY <3>1, <1>1 DEF MethodRequests, AllRequests
    <3> QED BY <3>1, <3>2
  <2> QED BY <2>1, <2>2, <2>3 DEF Uses
<1>8. Requests(use, arg) = first \o last
  BY DEF Requests
<1> HIDE DEF first, last
<1>9. first \in Seq(AllRequests)
  BY <1>6 DEF AllRequests
<1> QED BY <1>6, <1>7, <1>8, <1>9

\* What uses ask for is well formed; types ask for structs only.
LEMMA GroupsType ==
  ASSUME NEW uses, NEW arg \in Types
  PROVE  /\ uses \in Seq(Uses) => Groups(uses, arg) \in Seq(Seq(AllRequests))
         /\ uses \in Seq(TypeUses) => Groups(uses, arg) \in Seq(Seq(StructRequests))
<1>1. ASSUME uses \in Seq(Uses) PROVE Groups(uses, arg) \in Seq(Seq(AllRequests))
  <2>1. \A i \in DOMAIN uses : Requests(uses[i], arg) \in Seq(AllRequests)
    BY <1>1, RequestsType
  <2> QED BY <2>1, <1>1 DEF Groups
<1>2. ASSUME uses \in Seq(TypeUses) PROVE Groups(uses, arg) \in Seq(Seq(StructRequests))
  <2>1. \A i \in DOMAIN uses : uses[i] \in TypeUses /\ uses[i] \in Uses
    BY <1>2 DEF Uses
  <2>2. \A i \in DOMAIN uses : Requests(uses[i], arg) \in Seq(StructRequests)
    BY <2>1, RequestsType
  <2> QED BY <2>2, <1>2 DEF Groups
<1> QED BY <1>1, <1>2

-----------------------------------------------------------------------------
(* The C call stack.                                                       *)

Names  == Seq(Constructors \cup Templates)
Symbols == {"none"} \cup FunctionSymbols \cup Methods
Frames == [role : Roles, symbol : Symbols, inst : Names, todo : Seq(Seq(AllRequests))]
Depths == {d \in Int : d <= MaxMonoDepth + 1}
Jobs   == [inst : Instances, depth : Depths]

StateTyped ==
  /\ program \in Programs
  /\ pass \in {0, 1}
  /\ mono_queue \in Seq(Jobs)
  /\ concrete \subseteq Instances
  /\ is_draining \in BOOLEAN
  /\ current_mono_depth \in Depths
  /\ overloads \in [FunctionSymbols -> Seq(Names)]
  /\ mono_instances \in Seq(Names)
  /\ errors \subseteq {"arity", "depth", "redeclared"}
  /\ stack \in Seq(Frames)

InstanceOf(symbol, inst) == \E arg \in Types : inst = <<Declaration[symbol]>> \o arg

\* what a frame checks: a job and a signature ask for structs only
FrameOK(f) ==
  /\ f.role \in {"drain", "signature", "method_signature"} => f.todo \in Seq(Seq(StructRequests))
  /\ f.role = "drain" /\ f.inst # <<>> => f.inst \in Instances
  /\ f.role \in {"signature", "body"} =>
       f.symbol \in FunctionSymbols /\ InstanceOf(f.symbol, f.inst)
  /\ f.role \in {"method_signature", "method_body"} => f.symbol \in Methods /\ f.inst \in Instances

FramesOK == \A i \in DOMAIN stack : FrameOK(stack[i])

\* the program's frame is the last one, a drain only the first one, and above a
\* signature there is at most a drain
ProgramLast == \A i \in DOMAIN stack : stack[i].role = "program" <=> i = Len(stack)
DrainFirst  == \A i \in DOMAIN stack : stack[i].role = "drain" => i = 1
DrainFlag   == is_draining <=> stack # <<>> /\ Top.role = "drain"
SignatureHigh ==
  \A i \in DOMAIN stack : stack[i].role \in {"signature", "method_signature"} =>
    \A j \in 1..i - 1 : stack[j].role = "drain"
SignaturePass == pass = 0 => Len(stack) = 1 /\ Top.todo \in Seq(Seq(StructRequests))

StackShape ==
  FramesOK /\ ProgramLast /\ DrainFirst /\ DrainFlag /\ SignatureHigh /\ SignaturePass

\* A stack whose top is replaced.
LEMMA Replaced ==
  ASSUME NEW S, NEW s \in Seq(S), s # <<>>, NEW f \in S, NEW t, t = <<f>> \o Tail(s)
  PROVE  /\ t \in Seq(S) /\ t # <<>> /\ Head(t) = f /\ Len(t) = Len(s)
         /\ DOMAIN t = 1..Len(s) /\ DOMAIN s = 1..Len(s) /\ Len(s) \in Nat \ {0}
         /\ t[1] = f /\ Head(s) = s[1] /\ \A i \in 2..Len(s) : t[i] = s[i]
  OBVIOUS

\* A stack whose top is replaced and on which another frame is put.
LEMMA Pushed ==
  ASSUME NEW S, NEW s \in Seq(S), s # <<>>, NEW f \in S, NEW g \in S,
         NEW t, t = <<f, g>> \o Tail(s)
  PROVE  /\ t \in Seq(S) /\ t # <<>> /\ Head(t) = f /\ Len(t) = Len(s) + 1
         /\ DOMAIN t = 1..Len(s) + 1 /\ DOMAIN s = 1..Len(s) /\ Len(s) \in Nat \ {0}
         /\ t[1] = f /\ t[2] = g /\ Head(s) = s[1] /\ \A i \in 3..Len(s) + 1 : t[i] = s[i - 1]
  OBVIOUS

\* A stack whose top is taken away.
LEMMA Popped ==
  ASSUME NEW S, NEW s \in Seq(S), s # <<>>, NEW t, t = Tail(s)
  PROVE  /\ t \in Seq(S) /\ Len(t) = Len(s) - 1 /\ Len(s) \in Nat \ {0}
         /\ DOMAIN t = 1..Len(s) - 1 /\ DOMAIN s = 1..Len(s)
         /\ Head(s) = s[1] /\ (t # <<>> => Head(t) = s[2])
         /\ \A i \in 1..Len(s) - 1 : t[i] = s[i + 1]
  OBVIOUS

\* The frame on top is one of the frames.
LEMMA TopType ==
  ASSUME StateTyped, StackShape, stack # <<>>
  PROVE  Top \in Frames /\ Top = stack[1] /\ FrameOK(Top) /\ 1 \in DOMAIN stack /\ Len(stack) \in Nat
<1>1. stack \in Seq(Frames) /\ Top = Head(stack)
  BY DEF StateTyped, Top
<1>2. Top \in Frames /\ Top = stack[1] /\ 1 \in DOMAIN stack /\ Len(stack) \in Nat
  <2> HIDE DEF Top
  <2> QED BY <1>1
<1> QED BY <1>2 DEF StackShape, FramesOK

\* r is still to be asked for in frame f
InTodo(f, r) == \E g \in DOMAIN f.todo : \E m \in DOMAIN f.todo[g] : f.todo[g][m] = r

\* Taking the next request leaves the others.
LEMMA AdvancedFrame ==
  ASSUME StateTyped, StackShape, stack # <<>>, Top.todo # <<>>, Head(Top.todo) # <<>>
  PROVE  /\ Advanced \in Frames /\ FrameOK(Advanced)
         /\ Advanced.role = Top.role /\ Advanced.symbol = Top.symbol /\ Advanced.inst = Top.inst
         /\ Request \in AllRequests
         /\ Top.todo \in Seq(Seq(StructRequests)) =>
              Request \in StructRequests /\ Advanced.todo \in Seq(Seq(StructRequests))
         /\ \A r : InTodo(Top, r) => r = Request \/ InTodo(Advanced, r)
<1> DEFINE todo == Top.todo
           new == [todo EXCEPT ![1] = Tail(@)]
<1>1. Top \in Frames /\ FrameOK(Top) /\ todo \in Seq(Seq(AllRequests)) /\ todo # <<>> /\ Head(todo) # <<>>
  BY TopType DEF Frames
<1>2. /\ Advanced.todo = new
      /\ Advanced.role = Top.role /\ Advanced.symbol = Top.symbol /\ Advanced.inst = Top.inst
      /\ new \in Seq(Seq(AllRequests)) => Advanced \in Frames
  BY <1>1 DEF Advanced, Frames
<1>3. Request = Head(Head(todo))
  BY DEF Request
<1> HIDE DEF todo
<1>4. 1 \in DOMAIN todo /\ Head(todo) = todo[1] /\ DOMAIN new = DOMAIN todo
      /\ new[1] = Tail(todo[1]) /\ \A g \in DOMAIN todo \ {1} : new[g] = todo[g]
  BY <1>1
<1>5. ASSUME NEW R, todo \in Seq(Seq(R))
      PROVE  new \in Seq(Seq(R)) /\ Head(Head(todo)) \in R
  <2>1. todo[1] \in Seq(R) /\ todo[1] # <<>>
    BY <1>1, <1>4, <1>5
  <2>2. Tail(todo[1]) \in Seq(R) /\ Head(todo[1]) \in R
    BY <2>1
  <2> QED BY <2>2, <1>4, <1>5, ExceptSeq
<1>6. ASSUME NEW g \in DOMAIN todo, NEW m \in DOMAIN todo[g], todo[g][m] # Request
      PROVE  InTodo(Advanced, todo[g][m])
  <2>1. CASE g # 1
    BY <2>1, <1>2, <1>4 DEF InTodo
  <2>2. CASE g = 1
    <3>1. todo[1] \in Seq(AllRequests) /\ todo[1] # <<>>
      BY <1>1, <1>4
    <3>2. m # 1
      BY <1>3, <1>4, <1>6, <2>2, <3>1
    <3>3. m - 1 \in DOMAIN new[1] /\ new[1][m - 1] = todo[1][m]
      BY <3>1, <3>2, <2>2, <1>4
    <3> QED BY <3>3, <2>2, <1>2, <1>4 DEF InTodo
  <2> QED BY <2>1, <2>2
<1>7. FrameOK(Advanced)
  BY <1>1, <1>2, <1>5 DEF FrameOK, todo
<1>8. \A r : InTodo(Top, r) => r = Request \/ InTodo(Advanced, r)
  BY <1>6 DEF InTodo, todo
<1> QED BY <1>1, <1>2, <1>3, <1>5, <1>7, <1>8 DEF todo

\* So does giving up the rest of a use, of which nothing is left.
LEMMA GivenUpFrame ==
  ASSUME StateTyped, StackShape, stack # <<>>, Top.todo # <<>>
  PROVE  /\ GivenUp \in Frames /\ FrameOK(GivenUp)
         /\ GivenUp.role = Top.role /\ GivenUp.symbol = Top.symbol /\ GivenUp.inst = Top.inst
         /\ Top.todo \in Seq(Seq(StructRequests)) => GivenUp.todo \in Seq(Seq(StructRequests))
         /\ Head(Top.todo) = <<>> => \A r : InTodo(Top, r) => InTodo(GivenUp, r)
<1> DEFINE todo == Top.todo
<1>1. Top \in Frames /\ FrameOK(Top) /\ todo \in Seq(Seq(AllRequests)) /\ todo # <<>>
  BY TopType DEF Frames
<1>2. /\ GivenUp.todo = Tail(todo)
      /\ GivenUp.role = Top.role /\ GivenUp.symbol = Top.symbol /\ GivenUp.inst = Top.inst
      /\ Tail(todo) \in Seq(Seq(AllRequests)) => GivenUp \in Frames
  BY <1>1 DEF GivenUp, Frames
<1> HIDE DEF todo
<1>3. ASSUME NEW R, todo \in Seq(Seq(R)) PROVE Tail(todo) \in Seq(Seq(R))
  BY <1>1, <1>3
<1>4. ASSUME NEW g \in DOMAIN todo, NEW m \in DOMAIN todo[g], Head(todo) = <<>>
      PROVE  InTodo(GivenUp, todo[g][m])
  <2>1. g # 1
    BY <1>1, <1>4
  <2>2. g - 1 \in DOMAIN Tail(todo) /\ Tail(todo)[g - 1] = todo[g]
    BY <1>1, <2>1
  <2> QED BY <1>2, <2>2 DEF InTodo
<1>5. FrameOK(GivenUp)
  BY <1>1, <1>2, <1>3 DEF FrameOK, todo
<1> QED BY <1>1, <1>2, <1>3, <1>4, <1>5 DEF InTodo, todo

\* The frame on top is replaced.
LEMMA ReturnShape ==
  ASSUME StateTyped, StackShape, stack # <<>>, NEW f \in Frames, FrameOK(f),
         stack' = <<f>> \o Tail(stack),
         f.role # Top.role => Top.role \in {"signature", "method_signature"}
                              /\ f.role \in {"body", "method_body"},
         pass = 0 => f.todo \in Seq(Seq(StructRequests)),
         pass' = pass, is_draining' = is_draining
  PROVE  stack' \in Seq(Frames) /\ StackShape'
<1>1. stack \in Seq(Frames)
  BY DEF StateTyped
<1>2. /\ stack' \in Seq(Frames) /\ stack' # <<>> /\ Len(stack') = Len(stack)
      /\ DOMAIN stack' = 1..Len(stack) /\ DOMAIN stack = 1..Len(stack) /\ Len(stack) \in Nat \ {0}
      /\ stack'[1] = f /\ \A i \in 2..Len(stack) : stack'[i] = stack[i]
      /\ Top' = f /\ Top = stack[1]
  BY <1>1, Replaced DEF Top
<1>3. FramesOK'
  BY <1>2 DEF StackShape, FramesOK
<1>4. ProgramLast'
  BY <1>2 DEF StackShape, ProgramLast
<1>5. DrainFirst'
  BY <1>2 DEF StackShape, DrainFirst
<1>6. SignatureHigh'
  BY <1>2 DEF StackShape, SignatureHigh
<1>7. DrainFlag'
  BY <1>2 DEF StackShape, DrainFlag
<1>8. SignaturePass'
  BY <1>2 DEF StackShape, SignaturePass
<1> QED BY <1>2, <1>3, <1>4, <1>5, <1>6, <1>7, <1>8 DEF StackShape

\* A frame is called while the one on top waits.
LEMMA CallShape ==
  ASSUME StateTyped, StackShape, stack # <<>>, NEW f \in Frames, FrameOK(f),
         stack' = <<f, Advanced>> \o Tail(stack),
         Advanced \in Frames, FrameOK(Advanced), Advanced.role = Top.role,
         pass = 1, pass' = pass, Top.role # "drain", f.role # "program",
         Top.role \in {"signature", "method_signature"} => f.role = "drain",
         is_draining' <=> f.role = "drain"
  PROVE  stack' \in Seq(Frames) /\ StackShape'
<1>1. stack \in Seq(Frames)
  BY DEF StateTyped
<1>2. /\ stack' \in Seq(Frames) /\ stack' # <<>> /\ Len(stack') = Len(stack) + 1
      /\ DOMAIN stack' = 1..Len(stack) + 1 /\ DOMAIN stack = 1..Len(stack) /\ Len(stack) \in Nat \ {0}
      /\ stack'[1] = f /\ stack'[2] = Advanced /\ \A i \in 3..Len(stack) + 1 : stack'[i] = stack[i - 1]
      /\ Top' = f /\ Top = stack[1]
  BY <1>1, Pushed DEF Top
<1>3. FramesOK'
  BY <1>2 DEF StackShape, FramesOK
<1>4. ProgramLast'
  BY <1>2 DEF StackShape, ProgramLast
<1>5. DrainFirst'
  BY <1>2 DEF StackShape, DrainFirst
<1>6. SignatureHigh'
  <2>1. \A i \in 2..Len(stack) : stack[i].role \notin {"signature", "method_signature"}
    <3>1. ASSUME NEW i \in 2..Len(stack), stack[i].role \in {"signature", "method_signature"}
          PROVE  FALSE
      <4>1. i \in DOMAIN stack /\ 1 \in 1..i - 1
        BY <1>2
      <4> QED BY <1>2, <3>1, <4>1 DEF StackShape, SignatureHigh
    <3> QED BY <3>1
  <2> QED BY <1>2, <2>1 DEF SignatureHigh
<1>7. DrainFlag'
  BY <1>2 DEF StackShape, DrainFlag
<1>8. SignaturePass'
  BY DEF SignaturePass
<1> QED BY <1>2, <1>3, <1>4, <1>5, <1>6, <1>7, <1>8 DEF StackShape

\* The frame on top returns.
LEMMA PopShape ==
  ASSUME StateTyped, StackShape, stack # <<>>, Top.role # "program", stack' = Tail(stack),
         pass' = pass, is_draining' = FALSE
  PROVE  stack' \in Seq(Frames) /\ stack' # <<>> /\ StackShape'
<1>1. stack \in Seq(Frames)
  BY DEF StateTyped
<1>2. /\ stack' \in Seq(Frames) /\ Len(stack') = Len(stack) - 1
      /\ DOMAIN stack' = 1..Len(stack) - 1 /\ DOMAIN stack = 1..Len(stack) /\ Len(stack) \in Nat \ {0}
      /\ \A i \in 1..Len(stack) - 1 : stack'[i] = stack[i + 1]
      /\ Top = stack[1] /\ (stack' # <<>> => Top' = stack[2])
  BY <1>1, Popped DEF Top
<1>3. Len(stack) > 1 /\ pass # 0 /\ stack' # <<>>
  BY <1>2 DEF StackShape, ProgramLast, SignaturePass
<1>4. FramesOK'
  BY <1>2 DEF StackShape, FramesOK
<1>5. ProgramLast'
  BY <1>2 DEF StackShape, ProgramLast
<1>6. (\A i \in DOMAIN stack : stack[i].role # "drain")'
  BY <1>2 DEF StackShape, DrainFirst
<1>7. SignatureHigh'
  BY <1>2 DEF StackShape, SignatureHigh
<1>8. DrainFlag'
  <2>1. Top' = stack'[1] /\ 1 \in DOMAIN stack'
    BY <1>2, <1>3
  <2> QED BY <1>6, <2>1 DEF DrainFlag
<1>9. DrainFirst' /\ SignaturePass'
  BY <1>3, <1>6 DEF DrainFirst, SignaturePass
<1> QED BY <1>2, <1>3, <1>4, <1>5, <1>7, <1>8, <1>9 DEF StackShape

\* What the declarations of the program mention is typed.
LEMMA ProgramUses ==
  ASSUME StateTyped
  PROVE  /\ program.signatures \in Seq(TypeUses) /\ program.bodies \in Seq(Uses)
         /\ \A t \in Structs : program.fields[t] \in Seq(TypeUses)
         /\ \A t \in Templates : program.signature[t] \in Seq(TypeUses) /\ program.body[t] \in Seq(Uses)
  BY ProgramsAssumption DEF StateTyped

\* Frames that are entered: what they check is typed.
LEMMA FrameType ==
  ASSUME NEW role \in Roles, NEW symbol \in Symbols,
         NEW inst \in Names, NEW todo \in Seq(Seq(AllRequests))
  PROVE  /\ Frame(role, symbol, inst, todo) \in Frames
         /\ Frame(role, symbol, inst, todo).role = role
         /\ Frame(role, symbol, inst, todo).symbol = symbol
         /\ Frame(role, symbol, inst, todo).inst = inst
         /\ Frame(role, symbol, inst, todo).todo = todo
  BY DEF Frame, Frames

\* Small facts about the sets of the model.
LEMMA EnteredType ==
  /\ Types \subseteq Names /\ <<>> \in Types
  /\ \A t \in Instances : t \in Types /\ Tail(t) \in Types /\ Head(t) \in Structs
  /\ {"program", "drain", "signature", "body", "method_signature", "method_body"} \subseteq Roles
  /\ "none" \in Symbols /\ FunctionSymbols \subseteq Symbols /\ Methods \subseteq Symbols
  /\ \A uses : uses \in Seq(TypeUses) => uses \in Seq(Uses)
  /\ <<>> \in Seq(Seq(AllRequests)) /\ <<>> \in Seq(Seq(StructRequests))
  BY DEF Types, Names, Instances, Roles, Symbols, Uses

JobFrame(inst) == Frame("drain", "none", inst, Groups(program.fields[Head(inst)], Tail(inst)))

\* The frame of a job, which asks for structs only.
LEMMA EnteredJob ==
  ASSUME StateTyped, NEW inst \in Instances
  PROVE  JobFrame(inst) \in Frames /\ FrameOK(JobFrame(inst))
         /\ JobFrame(inst).role = "drain" /\ JobFrame(inst).inst = inst
         /\ JobFrame(inst).todo = Groups(program.fields[Head(inst)], Tail(inst))
<1> DEFINE todo == Groups(program.fields[Head(inst)], Tail(inst))
<1>1. todo \in Seq(Seq(AllRequests)) /\ todo \in Seq(Seq(StructRequests))
  BY EnteredType, GroupsType, ProgramUses
<1>2. "drain" \in Roles /\ "none" \in Symbols /\ inst \in Names
  BY EnteredType
<1>3. JobFrame(inst) = Frame("drain", "none", inst, todo)
  BY DEF JobFrame
<1> HIDE DEF todo
<1>4. /\ JobFrame(inst) \in Frames /\ JobFrame(inst).role = "drain"
      /\ JobFrame(inst).inst = inst /\ JobFrame(inst).todo = todo
  BY <1>1, <1>2, <1>3, FrameType
<1>5. FrameOK(JobFrame(inst))
  BY <1>1, <1>4 DEF FrameOK
<1> QED BY <1>4, <1>5 DEF todo

DrainFrame == Frame("drain", "none", <<>>, <<>>)

\* The frame of a drain that begins.
LEMMA EnteredDrain ==
  DrainFrame \in Frames /\ FrameOK(DrainFrame) /\ DrainFrame.role = "drain"
  /\ DrainFrame.inst = <<>> /\ DrainFrame.todo = <<>>
<1>1. "drain" \in Roles /\ "none" \in Symbols /\ <<>> \in Names
      /\ <<>> \in Seq(Seq(AllRequests)) /\ <<>> \in Seq(Seq(StructRequests))
  BY EnteredType
<1>2. /\ DrainFrame \in Frames /\ DrainFrame.role = "drain"
      /\ DrainFrame.inst = <<>> /\ DrainFrame.todo = <<>>
  BY <1>1 DEF DrainFrame, Frame, Frames
<1>3. FrameOK(DrainFrame)
  BY <1>1, <1>2 DEF FrameOK
<1> QED BY <1>2, <1>3

ProgramFrame(uses) == Frame("program", "none", <<>>, Groups(uses, <<>>))

\* The frame of the program in one of its passes.
LEMMA EnteredProgram ==
  ASSUME NEW uses \in Seq(Uses)
  PROVE  ProgramFrame(uses) \in Frames /\ FrameOK(ProgramFrame(uses))
         /\ ProgramFrame(uses).role = "program" /\ ProgramFrame(uses).todo = Groups(uses, <<>>)
<1>1. "program" \in Roles /\ "none" \in Symbols /\ <<>> \in Names
      /\ Groups(uses, <<>>) \in Seq(Seq(AllRequests))
  BY EnteredType, GroupsType
<1>2. /\ ProgramFrame(uses) \in Frames /\ ProgramFrame(uses).role = "program"
      /\ ProgramFrame(uses).todo = Groups(uses, <<>>)
  BY <1>1, FrameType DEF ProgramFrame
<1>3. FrameOK(ProgramFrame(uses))
  BY <1>2 DEF FrameOK
<1> QED BY <1>2, <1>3

SignatureFrame(name, arg) ==
  Frame("signature", name, <<Declaration[name]>> \o arg,
        Groups(program.signature[Declaration[name]], arg))
BodyFrame(name, inst) ==
  Frame("body", name, inst, Groups(program.body[Declaration[name]], Tail(inst)))

\* An instance of a function is its template before the argument.
LEMMA FunctionInstance ==
  ASSUME NEW name \in FunctionSymbols, NEW arg \in Types
  PROVE  /\ <<Declaration[name]>> \o arg \in Names
         /\ Tail(<<Declaration[name]>> \o arg) = arg
         /\ Head(<<Declaration[name]>> \o arg) = Declaration[name]
         /\ Declaration[name] \in Templates
<1>1. Declaration[name] \in Templates
  BY DEF Templates, FunctionTemplates
<1> QED BY <1>1 DEF Names, Types

\* The frame of a function's signature.
LEMMA EnteredSignature ==
  ASSUME StateTyped, NEW name \in FunctionSymbols, NEW arg \in Types
  PROVE  /\ SignatureFrame(name, arg) \in Frames /\ FrameOK(SignatureFrame(name, arg))
         /\ SignatureFrame(name, arg).role = "signature"
         /\ SignatureFrame(name, arg).symbol = name
         /\ SignatureFrame(name, arg).inst = <<Declaration[name]>> \o arg
         /\ SignatureFrame(name, arg).todo = Groups(program.signature[Declaration[name]], arg)
<1> DEFINE inst == <<Declaration[name]>> \o arg
           todo == Groups(program.signature[Declaration[name]], arg)
           f == SignatureFrame(name, arg)
<1>1. inst \in Names /\ InstanceOf(name, inst)
  BY FunctionInstance DEF InstanceOf
<1>2. todo \in Seq(Seq(AllRequests)) /\ todo \in Seq(Seq(StructRequests))
  BY FunctionInstance, EnteredType, GroupsType, ProgramUses
<1>3. f = Frame("signature", name, inst, todo)
  BY DEF SignatureFrame
<1>4. "signature" \in Roles /\ name \in Symbols
  BY EnteredType
<1> HIDE DEF inst, todo, f
<1>5. /\ f \in Frames
      /\ f.role = "signature" /\ f.symbol = name
      /\ f.inst = inst /\ f.todo = todo
  BY <1>1, <1>2, <1>3, <1>4, FrameType
<1>6. FrameOK(f)
  BY <1>1, <1>2, <1>5 DEF FrameOK
<1> QED BY <1>5, <1>6 DEF inst, todo, f

\* The frame of a function's body.
LEMMA EnteredBody ==
  ASSUME StateTyped, NEW name \in FunctionSymbols, NEW inst \in Names, Tail(inst) \in Types,
         InstanceOf(name, inst)
  PROVE  /\ BodyFrame(name, inst) \in Frames /\ FrameOK(BodyFrame(name, inst))
         /\ BodyFrame(name, inst).role = "body"
         /\ BodyFrame(name, inst).symbol = name
         /\ BodyFrame(name, inst).inst = inst
         /\ BodyFrame(name, inst).todo = Groups(program.body[Declaration[name]], Tail(inst))
<1> DEFINE todo == Groups(program.body[Declaration[name]], Tail(inst))
           f == BodyFrame(name, inst)
<1>1. Declaration[name] \in Templates
  BY DEF Templates, FunctionTemplates
<1>2. todo \in Seq(Seq(AllRequests))
  BY <1>1, GroupsType, ProgramUses
<1>3. f = Frame("body", name, inst, todo)
  BY DEF BodyFrame
<1>4. "body" \in Roles /\ name \in Symbols
  BY EnteredType
<1> HIDE DEF todo, f
<1>5. /\ f \in Frames
      /\ f.role = "body" /\ f.symbol = name
      /\ f.inst = inst /\ f.todo = todo
  BY <1>2, <1>3, <1>4, FrameType
<1>6. FrameOK(f)
  BY <1>5 DEF FrameOK
<1> QED BY <1>5, <1>6 DEF todo, f

MethodSignatureFrame(name, inst) ==
  Frame("method_signature", name, inst, Groups(program.signature[name], Tail(inst)))
MethodBodyFrame(name, inst) ==
  Frame("method_body", name, inst, Groups(program.body[name], Tail(inst)))

\* An instance of a method is the method before its receiver.
LEMMA MethodInstance ==
  ASSUME NEW name \in Methods, NEW inst \in Instances
  PROVE  /\ <<name>> \o inst \in Names /\ name \in Templates
         /\ Head(<<name>> \o inst) = name /\ Tail(<<name>> \o inst) = inst
<1>1. name \in Templates
  BY DEF Templates
<1> QED BY EnteredType, <1>1 DEF Names, Types

\* The frames of a method.
LEMMA EnteredMethod ==
  ASSUME StateTyped, NEW name \in Methods, NEW inst \in Instances
  PROVE  /\ MethodSignatureFrame(name, inst) \in Frames /\ FrameOK(MethodSignatureFrame(name, inst))
         /\ MethodSignatureFrame(name, inst).role = "method_signature"
         /\ MethodSignatureFrame(name, inst).symbol = name
         /\ MethodSignatureFrame(name, inst).inst = inst
         /\ MethodSignatureFrame(name, inst).todo = Groups(program.signature[name], Tail(inst))
         /\ MethodBodyFrame(name, inst) \in Frames /\ FrameOK(MethodBodyFrame(name, inst))
         /\ MethodBodyFrame(name, inst).role = "method_body"
         /\ MethodBodyFrame(name, inst).symbol = name
         /\ MethodBodyFrame(name, inst).inst = inst
         /\ MethodBodyFrame(name, inst).todo = Groups(program.body[name], Tail(inst))
<1> DEFINE sig == Groups(program.signature[name], Tail(inst))
           bod == Groups(program.body[name], Tail(inst))
           f == MethodSignatureFrame(name, inst)
           b == MethodBodyFrame(name, inst)
<1>1. name \in Templates
  BY DEF Templates
<1>2. sig \in Seq(Seq(AllRequests)) /\ sig \in Seq(Seq(StructRequests)) /\ bod \in Seq(Seq(AllRequests))
  BY <1>1, EnteredType, GroupsType, ProgramUses
<1>3. f = Frame("method_signature", name, inst, sig) /\ b = Frame("method_body", name, inst, bod)
  BY DEF MethodSignatureFrame, MethodBodyFrame
<1>4. inst \in Names /\ name \in Symbols /\ "method_signature" \in Roles /\ "method_body" \in Roles
  BY EnteredType
<1> HIDE DEF sig, bod, f, b
<1>5. /\ f \in Frames /\ f.role = "method_signature" /\ f.symbol = name
      /\ f.inst = inst /\ f.todo = sig
  BY <1>2, <1>3, <1>4, FrameType
<1>6. /\ b \in Frames /\ b.role = "method_body" /\ b.symbol = name
      /\ b.inst = inst /\ b.todo = bod
  BY <1>2, <1>3, <1>4, FrameType
<1>7. FrameOK(f) /\ FrameOK(b)
  BY <1>2, <1>5, <1>6 DEF FrameOK
<1> QED BY <1>5, <1>6, <1>7 DEF sig, bod, f, b

\* A request of a kind has what that kind has.
LEMMA RequestKind ==
  ASSUME NEW r \in AllRequests
  PROVE  /\ r.what = "struct" => r \in StructRequests /\ r.inst \in Instances /\ r.arity \in Nat
         /\ r.what = "call" => r.inst \in Types /\ r.arity \in Nat /\ r.name \in FunctionSymbols
         /\ r.what = "method" => r.name \in Methods
         /\ r \in StructRequests => r.what = "struct"
  BY DEF AllRequests, StructRequests, CallRequests, MethodRequests

\* Only the program, a body or a method's body asks for more than structs, and
\* only in the second pass.
LEMMA Caller ==
  ASSUME StateTyped, StackShape, stack # <<>>, Top.todo # <<>>, Head(Top.todo) # <<>>,
         Request.what # "struct"
  PROVE  pass = 1 /\ Top.role \in {"program", "body", "method_body"}
<1>1. Top.todo \notin Seq(Seq(StructRequests))
  BY AdvancedFrame, RequestKind
<1>2. Top.role \in Roles
  BY TopType DEF Frames
<1>3. Top.role \notin {"drain", "signature", "method_signature"}
  BY <1>1, TopType DEF FrameOK
<1>4. pass = 1
  BY <1>1 DEF StateTyped, StackShape, SignaturePass
<1> QED BY <1>2, <1>3, <1>4 DEF Roles

\* A drain between two jobs: the second pass, with the flag set.
LEMMA DrainingFacts ==
  ASSUME StateTyped, StackShape, Draining
  PROVE  stack # <<>> /\ Top.role = "drain" /\ Top.todo = <<>> /\ is_draining = TRUE /\ pass = 1
<1>1. stack # <<>> /\ Top.role = "drain" /\ Top.todo = <<>>
  BY DEF Draining
<1>2. is_draining = TRUE
  BY <1>1 DEF StackShape, DrainFlag, StateTyped
<1>3. pass = 1
  <2>1. Len(stack) = 1 => Top.role = "program"
    BY <1>1, TopType DEF StackShape, ProgramLast
  <2> QED BY <1>1, <2>1 DEF StackShape, SignaturePass, StateTyped
<1> QED BY <1>1, <1>2, <1>3

\* The stack starts in its shape.
LEMMA TypeInit == Init => StateTyped /\ StackShape
<1> SUFFICES ASSUME Init PROVE StateTyped /\ StackShape
  OBVIOUS
<1> DEFINE f == ProgramFrame(program.signatures)
<1>1. program \in Programs /\ program.signatures \in Seq(TypeUses) /\ program.signatures \in Seq(Uses)
  BY ProgramsAssumption, EnteredType DEF Init
<1>2. f \in Frames /\ FrameOK(f) /\ f.role = "program" /\ f.todo \in Seq(Seq(StructRequests))
  BY <1>1, EnteredProgram, EnteredType, GroupsType
<1>3. stack = <<f>>
  BY DEF Init, ProgramFrame
<1> HIDE DEF f
<1>4. stack \in Seq(Frames) /\ Len(stack) = 1 /\ DOMAIN stack = {1} /\ stack[1] = f /\ Top = f
  BY <1>2, <1>3 DEF Top
<1>5. StateTyped
  <2>1. current_mono_depth \in Depths
    BY TemplatesAssumption DEF Init, Depths
  <2>2. pass = 0 /\ mono_queue = <<>> /\ concrete = {} /\ is_draining = FALSE /\ errors = {}
    BY DEF Init
  <2>3. overloads \in [FunctionSymbols -> Seq(Names)] /\ mono_instances \in Seq(Names)
    <3>1. <<>> \in Seq(Names)
      OBVIOUS
    <3> QED BY <3>1 DEF Init
  <2>4. mono_queue \in Seq(Jobs)
    BY <2>2
  <2> QED BY <1>1, <1>4, <2>1, <2>2, <2>3, <2>4 DEF StateTyped
<1>6. StackShape
  <2>1. FramesOK /\ ProgramLast /\ DrainFirst /\ SignatureHigh
    BY <1>2, <1>4 DEF FramesOK, ProgramLast, DrainFirst, SignatureHigh
  <2>2. DrainFlag /\ SignaturePass
    BY <1>2, <1>4 DEF Init, DrainFlag, SignaturePass
  <2> QED BY <2>1, <2>2 DEF StackShape
<1> QED BY <1>5, <1>6

\* Every step leaves the state well typed and the stack in its shape.
LEMMA TypeStep ==
  ASSUME StateTyped, StackShape, [Next]_vars
  PROVE  StateTyped' /\ StackShape'
<1> USE TemplatesAssumption
<1> DEFINE Data == /\ program' \in Programs /\ pass' \in {0, 1}
                   /\ mono_queue' \in Seq(Jobs) /\ concrete' \subseteq Instances
                   /\ is_draining' \in BOOLEAN /\ current_mono_depth' \in Depths
                   /\ overloads' \in [FunctionSymbols -> Seq(Names)]
                   /\ mono_instances' \in Seq(Names)
                   /\ errors' \subseteq {"arity", "depth", "redeclared"}
<1>a. Data /\ stack' \in Seq(Frames) => StateTyped'
  BY DEF StateTyped
<1>b. ASSUME stack # <<>>, Top.todo # <<>>, Return(GivenUp), pass' = pass, is_draining' = is_draining
      PROVE  stack' \in Seq(Frames) /\ StackShape'
  <2>1. pass = 0 => GivenUp.todo \in Seq(Seq(StructRequests))
    BY <1>b, GivenUpFrame DEF StackShape, SignaturePass
  <2> QED BY <1>b, <2>1, GivenUpFrame, ReturnShape DEF Return
<1>c. ASSUME stack # <<>>, Top.todo # <<>>, Head(Top.todo) # <<>>, Return(Advanced),
             pass' = pass, is_draining' = is_draining
      PROVE  stack' \in Seq(Frames) /\ StackShape'
  <2>1. pass = 0 => Advanced.todo \in Seq(Seq(StructRequests))
    BY <1>c, AdvancedFrame DEF StackShape, SignaturePass
  <2> QED BY <1>c, <2>1, AdvancedFrame, ReturnShape DEF Return
<1>d. ASSUME NEW inst \in Names
      PROVE  Register(inst) => mono_instances' \in Seq(Names)
                               /\ errors' \subseteq {"arity", "depth", "redeclared"}
  BY DEF Register, StateTyped
<1> HIDE DEF Data
<1>1. CASE NextUse
  <2>1. Data
    BY <1>1 DEF NextUse, Data, StateTyped, structVars, funVars
  <2> QED BY <1>1, <2>1, <1>a, <1>b DEF NextUse
<1>2. ASSUME NEW w, Refused(w) PROVE StateTyped' /\ StackShape'
  <2>1. Data
    BY <1>2 DEF Refused, Fail, Data, StateTyped, structVars, funVars
  <2>2. stack # <<>> /\ Top.todo # <<>> /\ Return(GivenUp) /\ pass' = pass /\ is_draining' = is_draining
    BY <1>2 DEF Refused, Fail, Asked
  <2> QED BY <2>1, <2>2, <1>a, <1>b
<1>3. CASE RequestStruct
  <2>1. stack # <<>> /\ Top.todo # <<>> /\ Head(Top.todo) # <<>> /\ Request.what = "struct"
        /\ pass' = pass
    BY <1>3 DEF RequestStruct, Asked
  <2>2. Request.inst \in Instances
    BY <2>1, AdvancedFrame, RequestKind
  <2>3. current_mono_depth + 1 \in Depths
    BY <1>3 DEF RequestStruct, StateTyped, Depths
  <2>4. mono_queue' \in Seq(Jobs)
    <3> DEFINE job == [inst |-> Request.inst, depth |-> current_mono_depth + 1]
    <3>1. job \in Jobs
      BY <2>2, <2>3 DEF Jobs
    <3>2. mono_queue' = mono_queue \/ mono_queue' = Append(mono_queue, job)
      BY <1>3 DEF RequestStruct
    <3>3. mono_queue \in Seq(Jobs)
      BY DEF StateTyped
    <3> HIDE DEF job
    <3> QED BY <3>1, <3>2, <3>3
  <2>5. is_draining' \in BOOLEAN
    BY <1>3 DEF RequestStruct, StartDrain, StateTyped
  <2>6. Data
    BY <1>3, <2>4, <2>5 DEF RequestStruct, Data, StateTyped, funVars
  <2>7. CASE pass > 0 /\ ~is_draining
    <3>1. is_draining' = TRUE /\ Call(DrainFrame)
      BY <1>3, <2>7 DEF RequestStruct, StartDrain, DrainFrame
    <3>2. pass = 1 /\ Top.role # "drain"
      BY <2>1, <2>7 DEF StateTyped, StackShape, DrainFlag
    <3>3. stack' \in Seq(Frames) /\ StackShape'
      BY <2>1, <3>1, <3>2, AdvancedFrame, EnteredDrain, CallShape DEF Call
    <3> QED BY <2>6, <3>3, <1>a
  <2>8. CASE ~(pass > 0 /\ ~is_draining)
    <3>1. is_draining' = is_draining /\ Return(Advanced)
      BY <1>3, <2>8 DEF RequestStruct, StartDrain
    <3> QED BY <2>1, <2>6, <3>1, <1>a, <1>c
  <2> QED BY <2>7, <2>8
<1>4. CASE StartJob
  <2>1. stack # <<>> /\ Top.role = "drain" /\ pass' = pass /\ is_draining' = is_draining /\ pass = 1
    BY <1>4, DrainingFacts DEF StartJob
  <2>2. PICK i \in Pending :
          /\ current_mono_depth' = mono_queue[i].depth
          /\ concrete' = concrete \cup {mono_queue[i].inst}
          /\ Return(JobFrame(mono_queue[i].inst))
    BY <1>4 DEF StartJob, JobFrame
  <2>3. mono_queue[i].inst \in Instances /\ mono_queue[i].depth \in Depths
    <3>1. mono_queue[i] \in Jobs
      BY DEF Pending, StateTyped
    <3> QED BY <3>1 DEF Jobs
  <2>4. Data
    BY <1>4, <2>2, <2>3 DEF StartJob, Data, StateTyped, funVars
  <2>5. stack' \in Seq(Frames) /\ StackShape'
    BY <2>1, <2>2, <2>3, EnteredJob, ReturnShape DEF Return
  <2> QED BY <2>4, <2>5, <1>a
<1>5. CASE FinishDrain
  <2>1. stack # <<>> /\ Top.role = "drain" /\ pass' = pass /\ is_draining' = FALSE /\ stack' = Tail(stack)
    BY <1>5, DrainingFacts DEF FinishDrain
  <2>2. Data
    BY <1>5 DEF FinishDrain, Data, StateTyped, structVars, funVars
  <2> QED BY <2>1, <2>2, <1>a, PopShape
<1>6. CASE CallCached
  <2>1. /\ stack # <<>> /\ Top.todo # <<>> /\ Head(Top.todo) # <<>> /\ Return(Advanced)
        /\ pass' = pass /\ is_draining' = is_draining
    BY <1>6 DEF CallCached, Asked
  <2>2. Data
    BY <1>6 DEF CallCached, Data, StateTyped, structVars
  <2> QED BY <2>1, <2>2, <1>a, <1>c
<1>7. CASE CallNew
  <2>1. /\ stack # <<>> /\ Top.todo # <<>> /\ Head(Top.todo) # <<>> /\ Request.what = "call"
        /\ pass' = pass /\ is_draining' = is_draining
        /\ Call(SignatureFrame(Request.name, Request.inst))
    BY <1>7 DEF CallNew, Asked, SignatureFrame, Mono
  <2>2. Request.inst \in Types /\ Request.name \in FunctionSymbols
    BY <2>1, AdvancedFrame, RequestKind
  <2>3. pass = 1 /\ Top.role \in {"program", "body", "method_body"}
    BY <2>1, Caller
  <2>4. current_mono_depth' \in Depths
    BY <1>7 DEF CallNew, StateTyped, Depths
  <2>5. Data
    BY <1>7, <2>4 DEF CallNew, Data, StateTyped, structVars, funVars
  <2>6. ~is_draining'
    BY <2>1, <2>3 DEF StackShape, DrainFlag
  <2> DEFINE f == SignatureFrame(Request.name, Request.inst)
  <2>7. f \in Frames /\ FrameOK(f) /\ f.role = "signature" /\ stack' = <<f, Advanced>> \o Tail(stack)
    BY <2>1, <2>2, EnteredSignature DEF Call
  <2> HIDE DEF f
  <2>8. stack' \in Seq(Frames) /\ StackShape'
    BY <2>1, <2>3, <2>6, <2>7, AdvancedFrame, CallShape
  <2> QED BY <2>5, <2>8, <1>a
<1>8. CASE CheckBody
  <2>1. stack # <<>> /\ Top.role = "signature" /\ pass' = pass /\ is_draining' = is_draining
        /\ Return(BodyFrame(Top.symbol, Top.inst)) /\ Register(Top.inst)
    BY <1>8 DEF CheckBody, BodyFrame
  <2>2. Top \in Frames /\ FrameOK(Top) /\ Top.symbol \in FunctionSymbols /\ Top.inst \in Names
        /\ InstanceOf(Top.symbol, Top.inst)
    BY <2>1, TopType DEF Frames, FrameOK
  <2>3. Tail(Top.inst) \in Types
    BY <2>2, FunctionInstance DEF InstanceOf
  <2>4. overloads' \in [FunctionSymbols -> Seq(Names)]
    <3>1. Append(overloads[Top.symbol], Top.inst) \in Seq(Names)
      BY <2>2 DEF StateTyped
    <3> QED BY <1>8, <3>1 DEF CheckBody, StateTyped
  <2>5. Data
    BY <1>8, <2>1, <2>2, <2>4, <1>d DEF CheckBody, Data, StateTyped, structVars
  <2> DEFINE f == BodyFrame(Top.symbol, Top.inst)
  <2>6. f \in Frames /\ FrameOK(f) /\ f.role = "body" /\ stack' = <<f>> \o Tail(stack)
    BY <2>1, <2>2, <2>3, EnteredBody DEF Return
  <2> HIDE DEF f
  <2>7. pass = 1
    BY <2>1, TopType DEF StateTyped, StackShape, SignaturePass, ProgramLast
  <2>8. stack' \in Seq(Frames) /\ StackShape'
    BY <2>1, <2>6, <2>7, ReturnShape
  <2> QED BY <2>5, <2>8, <1>a
<1>9. CASE FinishFunction
  <2>1. stack # <<>> /\ Top.role = "body" /\ pass' = pass /\ is_draining' = is_draining /\ stack' = Tail(stack)
    BY <1>9 DEF FinishFunction
  <2>2. current_mono_depth' \in Depths
    BY <1>9 DEF FinishFunction, StateTyped, Depths
  <2>3. Data
    BY <1>9, <2>2 DEF FinishFunction, Data, StateTyped, structVars
  <2>4. is_draining' = FALSE
    BY <2>1 DEF StateTyped, StackShape, DrainFlag
  <2> QED BY <2>1, <2>3, <2>4, <1>a, PopShape
<1>10. CASE MethodKnown
  <2>1. /\ stack # <<>> /\ Top.todo # <<>> /\ Head(Top.todo) # <<>> /\ Return(Advanced)
        /\ pass' = pass /\ is_draining' = is_draining
    BY <1>10 DEF MethodKnown, Asked
  <2>2. Data
    BY <1>10 DEF MethodKnown, Data, StateTyped, structVars, funVars
  <2> QED BY <2>1, <2>2, <1>a, <1>c
<1>11. CASE MethodNew
  <2> DEFINE f == MethodSignatureFrame(Request.name, Request.inst)
  <2>1. /\ stack # <<>> /\ Top.todo # <<>> /\ Head(Top.todo) # <<>> /\ Request.what = "method"
        /\ pass' = pass /\ is_draining' = is_draining /\ Call(f)
    BY <1>11 DEF MethodNew, Asked, MethodSignatureFrame
  <2>2. Request.inst \in Instances /\ Request.name \in Methods
    BY <1>11, <2>1, AdvancedFrame, RequestKind DEF MethodNew, StateTyped
  <2>3. pass = 1 /\ Top.role \in {"program", "body", "method_body"}
    BY <2>1, Caller
  <2>4. Data
    BY <1>11 DEF MethodNew, Data, StateTyped, structVars, funVars
  <2>5. ~is_draining'
    BY <2>1, <2>3 DEF StackShape, DrainFlag
  <2>6. f \in Frames /\ FrameOK(f) /\ f.role = "method_signature" /\ stack' = <<f, Advanced>> \o Tail(stack)
    BY <2>1, <2>2, EnteredMethod DEF Call
  <2> HIDE DEF f
  <2>7. stack' \in Seq(Frames) /\ StackShape'
    BY <2>1, <2>3, <2>5, <2>6, AdvancedFrame, CallShape
  <2> QED BY <2>4, <2>7, <1>a
<1>12. CASE CheckMethodBody
  <2> DEFINE f == MethodBodyFrame(Top.symbol, Top.inst)
  <2>1. stack # <<>> /\ Top.role = "method_signature" /\ pass' = pass /\ is_draining' = is_draining
        /\ Return(f) /\ Register(<<Top.symbol>> \o Top.inst)
    BY <1>12 DEF CheckMethodBody, MethodBodyFrame
  <2>2. FrameOK(Top) /\ Top.symbol \in Methods /\ Top.inst \in Instances
    BY <2>1, TopType DEF FrameOK
  <2>3. <<Top.symbol>> \o Top.inst \in Names /\ f \in Frames /\ FrameOK(f) /\ f.role = "method_body"
    BY <2>2, EnteredMethod, MethodInstance
  <2>4. Data
    BY <1>12, <2>1, <2>3, <1>d DEF CheckMethodBody, Data, StateTyped, structVars
  <2>5. stack' = <<f>> \o Tail(stack)
    BY <2>1 DEF Return
  <2> HIDE DEF f
  <2>6. pass = 1
    BY <2>1, TopType DEF StateTyped, StackShape, SignaturePass, ProgramLast
  <2>7. stack' \in Seq(Frames) /\ StackShape'
    BY <2>1, <2>3, <2>5, <2>6, ReturnShape
  <2> QED BY <2>4, <2>7, <1>a
<1>13. CASE FinishMethod
  <2>1. stack # <<>> /\ Top.role = "method_body" /\ pass' = pass /\ is_draining' = is_draining
        /\ stack' = Tail(stack)
    BY <1>13 DEF FinishMethod
  <2>2. Data
    BY <1>13 DEF FinishMethod, Data, StateTyped, structVars, funVars
  <2>3. is_draining' = FALSE
    BY <2>1 DEF StateTyped, StackShape, DrainFlag
  <2> QED BY <2>1, <2>2, <2>3, <1>a, PopShape
<1>14. CASE CheckBodies
  <2> DEFINE f == ProgramFrame(program.bodies)
  <2>1. pass' = 1 /\ is_draining' = TRUE /\ stack' = <<DrainFrame, f>>
    BY <1>14 DEF CheckBodies, DrainFrame, ProgramFrame
  <2>2. f \in Frames /\ FrameOK(f) /\ f.role = "program"
    BY ProgramUses, EnteredProgram
  <2>3. Data
    BY <1>14, <2>1 DEF CheckBodies, Data, StateTyped, structVars, funVars
  <2> HIDE DEF f
  <2> DEFINE d == DrainFrame
  <2>4. d \in Frames /\ FrameOK(d) /\ d.role = "drain" /\ stack' = <<d, f>>
    BY EnteredDrain, <2>1
  <2> HIDE DEF d
  <2>5. /\ stack' \in Seq(Frames) /\ Len(stack') = 2 /\ DOMAIN stack' = 1..2
        /\ stack'[1] = d /\ stack'[2] = f /\ Top' = d
    BY <2>2, <2>4 DEF Top
  <2>6. FramesOK' /\ ProgramLast' /\ DrainFirst' /\ SignatureHigh'
    BY <2>2, <2>4, <2>5 DEF FramesOK, ProgramLast, DrainFirst, SignatureHigh
  <2>7. DrainFlag' /\ SignaturePass'
    BY <2>1, <2>4, <2>5 DEF DrainFlag, SignaturePass
  <2> QED BY <2>3, <2>5, <2>6, <2>7, <1>a DEF StackShape
<1>15. CASE FinishProgram
  <2>1. stack # <<>> /\ Top.role = "program" /\ pass = 1 /\ pass' = 1 /\ stack' = <<>>
        /\ is_draining' = is_draining
    BY <1>15 DEF FinishProgram, AtProgram
  <2>2. Data
    BY <1>15 DEF FinishProgram, Data, StateTyped, structVars, funVars
  <2>3. ~is_draining'
    BY <2>1 DEF StackShape, DrainFlag
  <2>4. stack' \in Seq(Frames) /\ DOMAIN stack' = {}
    BY <2>1
  <2>5. StackShape'
    BY <2>1, <2>3, <2>4
       DEF StackShape, FramesOK, ProgramLast, DrainFirst, SignatureHigh, DrainFlag, SignaturePass
  <2> QED BY <2>2, <2>4, <2>5, <1>a
<1>16. CASE UNCHANGED vars
  BY <1>16 DEF vars, structVars, funVars, StateTyped, StackShape, FramesOK, ProgramLast, DrainFirst,
     SignatureHigh, DrainFlag, SignaturePass, Top
<1> QED BY <1>1, <1>2, <1>3, <1>4, <1>5, <1>6, <1>7, <1>8, <1>9, <1>10, <1>11, <1>12, <1>13, <1>14,
           <1>15, <1>16 DEF Next, RefuseStruct, RefuseFunction, Finished

-----------------------------------------------------------------------------
(* How a step moves the stack, whatever its frames still have to ask for.  *)

Like(f, g) ==
  /\ f.role = g.role
  /\ f.role \notin {"program", "drain"} => f.symbol = g.symbol /\ f.inst = g.inst

Kept       == Len(stack') = Len(stack) /\ \A i \in 1..Len(stack) : Like(stack'[i], stack[i])
Entered(f) == /\ Len(stack') = Len(stack) + 1 /\ Like(stack'[1], f)
              /\ \A i \in 1..Len(stack) : Like(stack'[i + 1], stack[i])
Turned(f)  == /\ Len(stack') = Len(stack) /\ Like(stack'[1], f)
              /\ \A i \in 2..Len(stack) : Like(stack'[i], stack[i])
Left       == /\ Len(stack') = Len(stack) - 1
              /\ \A i \in 1..Len(stack) - 1 : Like(stack'[i], stack[i + 1])

\* A return changes the frame on top only.
LEMMA ReturnKeeps ==
  ASSUME StateTyped, StackShape, stack # <<>>, NEW f \in Frames, stack' = <<f>> \o Tail(stack)
  PROVE  Turned(f) /\ (Like(f, Top) => Kept)
<1>1. stack \in Seq(Frames) /\ Top = stack[1]
  BY TopType DEF StateTyped
<1>2. /\ Len(stack') = Len(stack) /\ Len(stack) \in Nat \ {0}
      /\ stack'[1] = f /\ \A i \in 2..Len(stack) : stack'[i] = stack[i]
  BY <1>1, Replaced
<1>3. Turned(f)
  BY <1>2 DEF Turned, Like
<1>4. ASSUME Like(f, Top) PROVE Kept
  <2>1. Like(stack'[1], stack[1])
    BY <1>1, <1>2, <1>4
  <2>2. \A i \in 2..Len(stack) : Like(stack'[i], stack[i])
    BY <1>3 DEF Turned
  <2>3. \A i \in 1..Len(stack) : i = 1 \/ i \in 2..Len(stack)
    BY <1>2
  <2> QED BY <1>2, <2>1, <2>2, <2>3 DEF Kept
<1> QED BY <1>3, <1>4

\* A call adds one frame on top.
LEMMA CallEnters ==
  ASSUME StateTyped, StackShape, stack # <<>>, NEW f \in Frames, NEW g \in Frames, Like(g, Top),
         stack' = <<f, g>> \o Tail(stack)
  PROVE  Entered(f)
<1>1. stack \in Seq(Frames) /\ Top = stack[1]
  BY TopType DEF StateTyped
<1>2. /\ Len(stack') = Len(stack) + 1 /\ Len(stack) \in Nat \ {0}
      /\ stack'[1] = f /\ stack'[2] = g /\ \A i \in 3..Len(stack) + 1 : stack'[i] = stack[i - 1]
  BY <1>1, Pushed
<1>3. ASSUME NEW i \in 1..Len(stack) PROVE Like(stack'[i + 1], stack[i])
  <2>1. CASE i = 1
    BY <2>1, <1>1, <1>2
  <2>2. CASE i # 1
    <3>1. stack'[i + 1] = stack[i]
      BY <2>2, <1>2
    <3> QED BY <3>1 DEF Like
  <2> QED BY <2>1, <2>2
<1>4. Like(stack'[1], f)
  BY <1>2 DEF Like
<1> QED BY <1>2, <1>3, <1>4 DEF Entered

\* What is left is the stack below the top.
LEMMA PopLeaves ==
  ASSUME StateTyped, stack # <<>>, stack' = Tail(stack)
  PROVE  Left
<1>1. stack \in Seq(Frames)
  BY DEF StateTyped
<1>2. Len(stack') = Len(stack) - 1 /\ \A i \in 1..Len(stack) - 1 : stack'[i] = stack[i + 1]
  BY <1>1, Popped
<1> QED BY <1>2 DEF Left, Like

\* What each action does to the stack.
LEMMA Moves ==
  ASSUME StateTyped, StackShape
  PROVE  /\ NextUse \/ RefuseStruct \/ RefuseFunction \/ StartJob \/ CallCached \/ MethodKnown => Kept
         /\ RequestStruct => Kept \/ Entered(DrainFrame)
         /\ CallNew => Entered(SignatureFrame(Request.name, Request.inst))
         /\ MethodNew => Entered(MethodSignatureFrame(Request.name, Request.inst))
         /\ CheckBody => Turned(BodyFrame(Top.symbol, Top.inst))
         /\ CheckMethodBody => Turned(MethodBodyFrame(Top.symbol, Top.inst))
         /\ FinishDrain \/ FinishFunction \/ FinishMethod => Left
<1>a. ASSUME stack # <<>>, Top.todo # <<>>, Return(GivenUp) PROVE Kept
  BY <1>a, GivenUpFrame, ReturnKeeps DEF Return, Like
<1>b. ASSUME stack # <<>>, Top.todo # <<>>, Head(Top.todo) # <<>>, Return(Advanced) PROVE Kept
  BY <1>b, AdvancedFrame, ReturnKeeps DEF Return, Like
<1>c. ASSUME stack # <<>>, Top.todo # <<>>, Head(Top.todo) # <<>>, NEW f \in Frames, Call(f)
      PROVE  Entered(f)
  BY <1>c, AdvancedFrame, CallEnters DEF Call, Like
<1>1. NextUse => Kept
  BY <1>a DEF NextUse
<1>2. RefuseStruct \/ RefuseFunction => Kept
  BY <1>a DEF RefuseStruct, RefuseFunction, Refused, Fail, Asked
<1>3. ASSUME StartJob PROVE Kept
  <2>1. PICK i \in Pending : Return(JobFrame(mono_queue[i].inst))
    BY <1>3 DEF StartJob, JobFrame
  <2>2. mono_queue[i].inst \in Instances
    <3>1. mono_queue[i] \in Jobs
      BY DEF Pending, StateTyped
    <3> QED BY <3>1 DEF Jobs
  <2>3. stack # <<>> /\ Top.role = "drain"
    BY <1>3, DrainingFacts DEF StartJob
  <2> DEFINE f == JobFrame(mono_queue[i].inst)
  <2>4. f \in Frames /\ f.role = "drain" /\ stack' = <<f>> \o Tail(stack)
    BY <2>1, <2>2, EnteredJob DEF Return
  <2> HIDE DEF f
  <2>5. Like(f, Top)
    BY <2>3, <2>4 DEF Like
  <2> QED BY <2>3, <2>4, <2>5, ReturnKeeps
<1>4. CallCached => Kept
  BY <1>b DEF CallCached, Asked
<1>5. MethodKnown => Kept
  BY <1>b DEF MethodKnown, Asked
<1>6. RequestStruct => Kept \/ Entered(DrainFrame)
  BY <1>b, <1>c, EnteredDrain DEF RequestStruct, Asked, StartDrain, DrainFrame
<1>7. ASSUME CallNew PROVE Entered(SignatureFrame(Request.name, Request.inst))
  <2>1. /\ stack # <<>> /\ Top.todo # <<>> /\ Head(Top.todo) # <<>> /\ Request.what = "call"
        /\ Call(SignatureFrame(Request.name, Request.inst))
    BY <1>7 DEF CallNew, Asked, SignatureFrame, Mono
  <2>2. SignatureFrame(Request.name, Request.inst) \in Frames
    BY <2>1, AdvancedFrame, RequestKind, EnteredSignature
  <2> QED BY <2>1, <2>2, <1>c
<1>8. ASSUME MethodNew PROVE Entered(MethodSignatureFrame(Request.name, Request.inst))
  <2>1. /\ stack # <<>> /\ Top.todo # <<>> /\ Head(Top.todo) # <<>> /\ Request.what = "method"
        /\ Call(MethodSignatureFrame(Request.name, Request.inst)) /\ Request.inst \in concrete
    BY <1>8 DEF MethodNew, Asked, MethodSignatureFrame
  <2>2. MethodSignatureFrame(Request.name, Request.inst) \in Frames
    BY <2>1, AdvancedFrame, RequestKind, EnteredMethod DEF StateTyped
  <2> QED BY <2>1, <2>2, <1>c
<1>9. ASSUME CheckBody PROVE Turned(BodyFrame(Top.symbol, Top.inst))
  <2>1. stack # <<>> /\ Top.role = "signature" /\ Return(BodyFrame(Top.symbol, Top.inst))
    BY <1>9 DEF CheckBody, BodyFrame
  <2>2. Top.symbol \in FunctionSymbols /\ Top.inst \in Names /\ InstanceOf(Top.symbol, Top.inst)
    BY <2>1, TopType DEF Frames, FrameOK
  <2>3. BodyFrame(Top.symbol, Top.inst) \in Frames
    <3>1. Tail(Top.inst) \in Types
      BY <2>2, FunctionInstance DEF InstanceOf
    <3> QED BY <2>2, <3>1, EnteredBody
  <2> QED BY <2>1, <2>3, ReturnKeeps DEF Return
<1>10. ASSUME CheckMethodBody PROVE Turned(MethodBodyFrame(Top.symbol, Top.inst))
  <2>1. stack # <<>> /\ Top.role = "method_signature" /\ Return(MethodBodyFrame(Top.symbol, Top.inst))
    BY <1>10 DEF CheckMethodBody, MethodBodyFrame
  <2>2. MethodBodyFrame(Top.symbol, Top.inst) \in Frames
    BY <2>1, TopType, EnteredMethod DEF FrameOK
  <2> QED BY <2>1, <2>2, ReturnKeeps DEF Return
<1>11. FinishDrain \/ FinishFunction \/ FinishMethod => Left
  BY PopLeaves DEF FinishDrain, Draining, FinishFunction, FinishMethod
<1> QED BY <1>1, <1>2, <1>3, <1>4, <1>5, <1>6, <1>7, <1>8, <1>9, <1>10, <1>11

-----------------------------------------------------------------------------
(* Nothing is entered twice.                                               *)

\* what a body checks is cached, what a signature checks is not yet
BodyCached ==
  \A i \in DOMAIN stack : stack[i].role = "body" =>
    \E k \in DOMAIN overloads[stack[i].symbol] : overloads[stack[i].symbol][k] = stack[i].inst
SignatureUncached ==
  \A i \in DOMAIN stack : stack[i].role = "signature" =>
    \A k \in DOMAIN overloads[stack[i].symbol] : overloads[stack[i].symbol][k] # stack[i].inst
MethodCached ==
  \A i \in DOMAIN stack :
    /\ stack[i].role = "method_body" => [inst |-> stack[i].inst, method |-> stack[i].symbol] \in methods
    /\ stack[i].role = "method_signature" =>
         [inst |-> stack[i].inst, method |-> stack[i].symbol] \notin methods
NoTwins ==
  \A i, j \in DOMAIN stack :
    i # j /\ stack[i].role \notin {"program", "drain"} /\ stack[j].role = stack[i].role
      => stack[i].inst # stack[j].inst \/ stack[i].symbol # stack[j].symbol

Distinct == BodyCached /\ SignatureUncached /\ MethodCached /\ NoTwins

\* Steps that enter nothing keep it.
LEMMA DistinctKept ==
  ASSUME StateTyped, stack' \in Seq(Frames), Distinct,
         UNCHANGED overloads, UNCHANGED methods,
         Kept \/ Entered(DrainFrame) \/ Left
  PROVE  Distinct'
<1>1. /\ DOMAIN stack = 1..Len(stack) /\ Len(stack) \in Nat
      /\ DOMAIN stack' = 1..Len(stack') /\ Len(stack') \in Nat
  BY DEF StateTyped
<1>2. \E at \in [1..Len(stack') -> 0..Len(stack)] :
        /\ \A i, j \in 1..Len(stack') : i # j => at[i] # at[j]
        /\ \A i \in 1..Len(stack') :
             IF at[i] = 0 THEN stack'[i].role = "drain" ELSE Like(stack'[i], stack[at[i]])
  <2>1. CASE Kept
    <3> DEFINE at == [i \in 1..Len(stack') |-> i]
    <3>1. at \in [1..Len(stack') -> 0..Len(stack)]
      BY <2>1, <1>1 DEF Kept
    <3>2. \A i \in 1..Len(stack') : at[i] = i /\ at[i] # 0 /\ Like(stack'[i], stack[at[i]])
      BY <2>1, <1>1 DEF Kept
    <3>3. \A i, j \in 1..Len(stack') : i # j => at[i] # at[j]
      BY <3>2, <1>1
    <3> HIDE DEF at
    <3> QED BY <3>1, <3>2, <3>3
  <2>2. CASE Left
    <3> DEFINE at == [i \in 1..Len(stack') |-> i + 1]
    <3>1. at \in [1..Len(stack') -> 0..Len(stack)]
      BY <2>2, <1>1 DEF Left
    <3>2. \A i \in 1..Len(stack') : at[i] = i + 1 /\ at[i] # 0 /\ Like(stack'[i], stack[at[i]])
      BY <2>2, <1>1 DEF Left
    <3>3. \A i, j \in 1..Len(stack') : i # j => at[i] # at[j]
      BY <3>2, <1>1
    <3> HIDE DEF at
    <3> QED BY <3>1, <3>2, <3>3
  <2>3. CASE Entered(DrainFrame)
    <3> DEFINE at == [i \in 1..Len(stack') |-> i - 1]
    <3>1. at \in [1..Len(stack') -> 0..Len(stack)]
      BY <2>3, <1>1 DEF Entered
    <3>2. \A i \in 1..Len(stack') : at[i] = i - 1
      OBVIOUS
    <3>3. stack'[1].role = "drain"
      BY <2>3, EnteredDrain DEF Entered, Like
    <3>4. ASSUME NEW i \in 1..Len(stack'), at[i] # 0 PROVE Like(stack'[i], stack[at[i]])
      <4>1. i - 1 \in 1..Len(stack) /\ (i - 1) + 1 = i
        BY <2>3, <1>1, <3>2, <3>4 DEF Entered
      <4> QED BY <2>3, <3>2, <4>1 DEF Entered
    <3>5. \A i \in 1..Len(stack') : at[i] = 0 => stack'[i].role = "drain"
      BY <3>2, <3>3, <1>1
    <3>6. \A i, j \in 1..Len(stack') : i # j => at[i] # at[j]
      BY <3>2, <1>1
    <3> HIDE DEF at
    <3> QED BY <3>1, <3>4, <3>5, <3>6
  <2> QED BY <2>1, <2>2, <2>3
<1>3. PICK at \in [1..Len(stack') -> 0..Len(stack)] :
        /\ \A i, j \in 1..Len(stack') : i # j => at[i] # at[j]
        /\ \A i \in 1..Len(stack') :
             IF at[i] = 0 THEN stack'[i].role = "drain" ELSE Like(stack'[i], stack[at[i]])
  BY <1>2
<1>4. \A i \in DOMAIN stack' :
        \/ stack'[i].role \in {"program", "drain"}
        \/ /\ at[i] \in DOMAIN stack /\ stack'[i].role = stack[at[i]].role
           /\ stack'[i].symbol = stack[at[i]].symbol /\ stack'[i].inst = stack[at[i]].inst
  BY <1>1, <1>3 DEF Like
<1>5. BodyCached'
  BY <1>4 DEF Distinct, BodyCached
<1>6. SignatureUncached'
  <2>1. ASSUME NEW i \in DOMAIN stack', stack'[i].role = "signature",
               NEW k \in DOMAIN overloads[stack'[i].symbol]
        PROVE  overloads[stack'[i].symbol][k] # stack'[i].inst
    <3>1. /\ at[i] \in DOMAIN stack /\ stack[at[i]].role = "signature"
          /\ stack'[i].symbol = stack[at[i]].symbol /\ stack'[i].inst = stack[at[i]].inst
      BY <1>4, <2>1
    <3> QED BY <2>1, <3>1 DEF Distinct, SignatureUncached
  <2> QED BY <2>1 DEF SignatureUncached
<1>7. MethodCached'
  BY <1>4 DEF Distinct, MethodCached
<1>8. NoTwins'
  BY <1>1, <1>3, <1>4 DEF Distinct, NoTwins
<1> QED BY <1>5, <1>6, <1>7, <1>8 DEF Distinct

\* Signatures are at the top, or below a drain.
LEMMA NoSignatureBelow ==
  ASSUME StateTyped, StackShape, stack # <<>>, Top.role # "drain"
  PROVE  \A i \in 2..Len(stack) : stack[i].role \notin {"signature", "method_signature"}
<1>1. /\ Top = stack[1] /\ Len(stack) \in Nat /\ DOMAIN stack = 1..Len(stack)
  BY TopType DEF StateTyped
<1>2. ASSUME NEW i \in 2..Len(stack), stack[i].role \in {"signature", "method_signature"} PROVE FALSE
  <2>1. i \in DOMAIN stack /\ 1 \in 1..i - 1
    BY <1>1
  <2> QED BY <1>1, <1>2, <2>1 DEF StackShape, SignatureHigh
<1> QED BY <1>2

\* At first nothing is checked but the program.
LEMMA DistinctInit == Init => Distinct
<1> SUFFICES ASSUME Init PROVE Distinct
  OBVIOUS
<1>1. DOMAIN stack = {1} /\ stack[1].role = "program"
  BY DEF Init, Frame
<1> QED BY <1>1 DEF Distinct, BodyCached, SignatureUncached, MethodCached, NoTwins

\* What is entered is not cached, so it is not being checked.
LEMMA DistinctEntered ==
  ASSUME StateTyped, StackShape, Distinct, stack' \in Seq(Frames), stack # <<>>,
         Top.role \in {"program", "body", "method_body"},
         NEW f \in Frames, f.role \in {"signature", "method_signature"}, Entered(f),
         overloads' = overloads, methods' = methods,
         f.role = "signature" => \A k \in DOMAIN overloads[f.symbol] : overloads[f.symbol][k] # f.inst,
         f.role = "method_signature" => [inst |-> f.inst, method |-> f.symbol] \notin methods
  PROVE  Distinct'
<1>1. /\ Top = stack[1] /\ DOMAIN stack = 1..Len(stack) /\ Len(stack) \in Nat
      /\ DOMAIN stack' = 1..Len(stack) + 1
  BY TopType DEF StateTyped, Entered
<1>2. \A i \in DOMAIN stack : stack[i].role \notin {"signature", "method_signature"}
  <2>1. \A i \in DOMAIN stack : i = 1 \/ i \in 2..Len(stack)
    BY <1>1
  <2> QED BY <1>1, <2>1, NoSignatureBelow
<1>3. /\ stack'[1].role = f.role /\ stack'[1].symbol = f.symbol /\ stack'[1].inst = f.inst
      /\ \A i \in DOMAIN stack' \ {1} :
           /\ i - 1 \in DOMAIN stack /\ stack'[i].role = stack[i - 1].role
           /\ \/ stack'[i].role \in {"program", "drain"}
              \/ stack'[i].symbol = stack[i - 1].symbol /\ stack'[i].inst = stack[i - 1].inst
  <2>1. stack'[1].role = f.role /\ stack'[1].symbol = f.symbol /\ stack'[1].inst = f.inst
    BY DEF Entered, Like
  <2>2. ASSUME NEW i \in DOMAIN stack' \ {1}
        PROVE  /\ i - 1 \in DOMAIN stack /\ stack'[i].role = stack[i - 1].role
               /\ \/ stack'[i].role \in {"program", "drain"}
                  \/ stack'[i].symbol = stack[i - 1].symbol /\ stack'[i].inst = stack[i - 1].inst
    <3>1. i - 1 \in 1..Len(stack) /\ (i - 1) + 1 = i
      BY <1>1
    <3> QED BY <1>1, <3>1 DEF Entered, Like
  <2> QED BY <2>1, <2>2
<1>4. BodyCached'
  <2>1. ASSUME NEW i \in DOMAIN stack', stack'[i].role = "body"
        PROVE  \E k \in DOMAIN overloads[stack'[i].symbol] : overloads[stack'[i].symbol][k] = stack'[i].inst
    <3>1. /\ i - 1 \in DOMAIN stack /\ stack[i - 1].role = "body"
          /\ stack'[i].symbol = stack[i - 1].symbol /\ stack'[i].inst = stack[i - 1].inst
      BY <1>3, <2>1
    <3> QED BY <3>1 DEF Distinct, BodyCached
  <2> QED BY <2>1 DEF BodyCached
<1>5. SignatureUncached'
  <2>1. \A i \in DOMAIN stack' : stack'[i].role = "signature" => i = 1
    BY <1>2, <1>3
  <2> QED BY <1>3, <2>1 DEF SignatureUncached
<1>6. MethodCached'
  <2>1. ASSUME NEW i \in DOMAIN stack', stack'[i].role = "method_body"
        PROVE  [inst |-> stack'[i].inst, method |-> stack'[i].symbol] \in methods
    <3>1. /\ i - 1 \in DOMAIN stack /\ stack[i - 1].role = "method_body"
          /\ stack'[i].symbol = stack[i - 1].symbol /\ stack'[i].inst = stack[i - 1].inst
      BY <1>3, <2>1
    <3> QED BY <3>1 DEF Distinct, MethodCached
  <2>2. \A i \in DOMAIN stack' : stack'[i].role = "method_signature" => i = 1
    BY <1>2, <1>3
  <2> QED BY <1>3, <2>1, <2>2 DEF MethodCached
<1>7. NoTwins'
  <2>1. ASSUME NEW i \in DOMAIN stack', NEW j \in DOMAIN stack', i # j,
               stack'[i].role \notin {"program", "drain"}, stack'[j].role = stack'[i].role
        PROVE  stack'[i].inst # stack'[j].inst \/ stack'[i].symbol # stack'[j].symbol
    <3>1. i # 1 /\ j # 1
      BY <1>2, <1>3, <2>1
    <3>2. i - 1 # j - 1
      BY <1>1, <2>1
    <3> QED BY <1>3, <2>1, <3>1, <3>2 DEF Distinct, NoTwins
  <2> QED BY <2>1 DEF NoTwins
<1> QED BY <1>4, <1>5, <1>6, <1>7 DEF Distinct

\* A signature that is done enters the cache, and no body of it was being checked.
LEMMA DistinctTurned ==
  ASSUME StateTyped, StackShape, Distinct, StateTyped', stack # <<>>,
         NEW f \in Frames, Turned(f), f.symbol = Top.symbol, f.inst = Top.inst,
         \/ /\ Top.role = "signature" /\ f.role = "body" /\ methods' = methods
            /\ overloads' = [overloads EXCEPT ![Top.symbol] = Append(@, Top.inst)]
         \/ /\ Top.role = "method_signature" /\ f.role = "method_body" /\ overloads' = overloads
            /\ methods' = methods \cup {[inst |-> Top.inst, method |-> Top.symbol]}
  PROVE  Distinct'
<1>1. /\ Top = stack[1] /\ DOMAIN stack = 1..Len(stack) /\ Len(stack) \in Nat
      /\ DOMAIN stack' = DOMAIN stack /\ 1 \in DOMAIN stack /\ FrameOK(Top)
  BY TopType DEF StateTyped, Turned
<1>2. \A i \in DOMAIN stack \ {1} : stack[i].role \notin {"signature", "method_signature"}
  <2>1. \A i \in DOMAIN stack \ {1} : i \in 2..Len(stack)
    BY <1>1
  <2> QED BY <2>1, NoSignatureBelow
<1>3. /\ stack'[1].role = f.role /\ stack'[1].symbol = Top.symbol /\ stack'[1].inst = Top.inst
      /\ \A i \in DOMAIN stack' \ {1} :
           /\ i \in DOMAIN stack /\ stack'[i].role = stack[i].role
           /\ \/ stack'[i].role \in {"program", "drain"}
              \/ stack'[i].symbol = stack[i].symbol /\ stack'[i].inst = stack[i].inst
  <2>1. stack'[1].role = f.role /\ stack'[1].symbol = Top.symbol /\ stack'[1].inst = Top.inst
    BY DEF Turned, Like
  <2>2. ASSUME NEW i \in DOMAIN stack' \ {1}
        PROVE  /\ i \in DOMAIN stack /\ stack'[i].role = stack[i].role
               /\ \/ stack'[i].role \in {"program", "drain"}
                  \/ stack'[i].symbol = stack[i].symbol /\ stack'[i].inst = stack[i].inst
    <3>1. i \in 2..Len(stack)
      BY <1>1
    <3> QED BY <1>1, <3>1 DEF Turned, Like
  <2> QED BY <2>1, <2>2
<1>4. ASSUME NEW i \in DOMAIN stack, stack[i].role \in {"signature", "body"}
      PROVE  stack[i].symbol \in FunctionSymbols
  BY <1>4 DEF StackShape, FramesOK, FrameOK
<1>5. ASSUME NEW t \in FunctionSymbols, NEW x, \E k \in DOMAIN overloads[t] : overloads[t][k] = x
      PROVE  \E k \in DOMAIN overloads'[t] : overloads'[t][k] = x
  <2>1. overloads[t] \in Seq(Names)
    BY DEF StateTyped
  <2>2. overloads'[t] = overloads[t] \/ overloads'[t] = Append(overloads[t], Top.inst)
    BY DEF StateTyped
  <2> QED BY <1>5, <2>1, <2>2
<1>6. ASSUME Top.role = "signature"
      PROVE  \E k \in DOMAIN overloads'[Top.symbol] : overloads'[Top.symbol][k] = Top.inst
  <2>1. Top.symbol \in FunctionSymbols
    BY <1>1, <1>4, <1>6
  <2>2. overloads[Top.symbol] \in Seq(Names) /\ overloads'[Top.symbol] = Append(overloads[Top.symbol], Top.inst)
    BY <1>6, <2>1 DEF StateTyped
  <2>3. Len(overloads[Top.symbol]) + 1 \in DOMAIN overloads'[Top.symbol]
        /\ overloads'[Top.symbol][Len(overloads[Top.symbol]) + 1] = Top.inst
    BY <2>2
  <2> QED BY <2>3
<1>7. BodyCached'
  <2>1. ASSUME NEW i \in DOMAIN stack', stack'[i].role = "body"
        PROVE  \E k \in DOMAIN overloads'[stack'[i].symbol] : overloads'[stack'[i].symbol][k] = stack'[i].inst
    <3>1. CASE i = 1
      BY <1>3, <1>6, <2>1, <3>1
    <3>2. CASE i # 1
      <4>1. /\ i \in DOMAIN stack /\ stack[i].role = "body"
            /\ stack'[i].symbol = stack[i].symbol /\ stack'[i].inst = stack[i].inst
        BY <1>3, <2>1, <3>2
      <4>2. \E k \in DOMAIN overloads[stack[i].symbol] : overloads[stack[i].symbol][k] = stack[i].inst
        BY <4>1 DEF Distinct, BodyCached
      <4> QED BY <1>4, <1>5, <4>1, <4>2
    <3> QED BY <3>1, <3>2
  <2> QED BY <2>1 DEF BodyCached
<1>8. \A i \in DOMAIN stack' : stack'[i].role \notin {"signature", "method_signature"}
  BY <1>2, <1>3
<1>9. SignatureUncached'
  BY <1>8 DEF SignatureUncached
<1>10. MethodCached'
  <2>1. ASSUME NEW i \in DOMAIN stack', stack'[i].role = "method_body"
        PROVE  [inst |-> stack'[i].inst, method |-> stack'[i].symbol] \in methods'
    <3>1. CASE i = 1
      BY <1>3, <2>1, <3>1
    <3>2. CASE i # 1
      <4>1. /\ i \in DOMAIN stack /\ stack[i].role = "method_body"
            /\ stack'[i].symbol = stack[i].symbol /\ stack'[i].inst = stack[i].inst
        BY <1>3, <2>1, <3>2
      <4>2. [inst |-> stack[i].inst, method |-> stack[i].symbol] \in methods
        BY <4>1 DEF Distinct, MethodCached
      <4> QED BY <4>1, <4>2
    <3> QED BY <3>1, <3>2
  <2> QED BY <1>8, <2>1 DEF MethodCached
<1>11. ASSUME NEW j \in DOMAIN stack', j # 1, stack'[j].role = f.role,
              stack'[j].inst = Top.inst, stack'[j].symbol = Top.symbol
       PROVE  FALSE
  <2>1. j \in DOMAIN stack /\ stack[j].role = f.role /\ stack[j].inst = Top.inst /\ stack[j].symbol = Top.symbol
    BY <1>3, <1>11
  <2>2. CASE f.role = "body"
    <3>1. \E k \in DOMAIN overloads[Top.symbol] : overloads[Top.symbol][k] = Top.inst
      BY <2>1, <2>2 DEF Distinct, BodyCached
    <3>2. stack[1].role = "signature"
      BY <1>1, <2>2
    <3> QED BY <1>1, <3>1, <3>2 DEF Distinct, SignatureUncached
  <2>3. CASE f.role = "method_body"
    <3>1. [inst |-> Top.inst, method |-> Top.symbol] \in methods
      BY <2>1, <2>3 DEF Distinct, MethodCached
    <3>2. stack[1].role = "method_signature"
      BY <1>1, <2>3
    <3> QED BY <1>1, <3>1, <3>2 DEF Distinct, MethodCached
  <2> QED BY <2>2, <2>3
<1>12. NoTwins'
  <2>1. ASSUME NEW i \in DOMAIN stack', NEW j \in DOMAIN stack', i # j,
               stack'[i].role \notin {"program", "drain"}, stack'[j].role = stack'[i].role
        PROVE  stack'[i].inst # stack'[j].inst \/ stack'[i].symbol # stack'[j].symbol
    <3>1. CASE i = 1
      BY <1>3, <1>11, <2>1, <3>1
    <3>2. CASE j = 1
      BY <1>3, <1>11, <2>1, <3>2
    <3>3. CASE i # 1 /\ j # 1
      <4>1. stack[i].inst # stack[j].inst \/ stack[i].symbol # stack[j].symbol
        BY <1>3, <2>1, <3>3 DEF Distinct, NoTwins
      <4> QED BY <1>3, <2>1, <3>3, <4>1
    <3> QED BY <3>1, <3>2, <3>3
  <2> QED BY <2>1 DEF NoTwins
<1> QED BY <1>7, <1>9, <1>10, <1>12 DEF Distinct

\* No step enters what is being checked.
LEMMA DistinctStep ==
  ASSUME StateTyped, StackShape, Distinct, [Next]_vars
  PROVE  Distinct'
<1>1. StateTyped' /\ stack' \in Seq(Frames)
  BY TypeStep DEF StateTyped
<1>2. CASE NextUse \/ RefuseStruct \/ RequestStruct \/ StartJob \/ FinishDrain \/ RefuseFunction
           \/ CallCached \/ FinishFunction \/ MethodKnown \/ FinishMethod
  <2>1. UNCHANGED overloads /\ UNCHANGED methods
    BY <1>2 DEF NextUse, RefuseStruct, RequestStruct, StartJob, FinishDrain, RefuseFunction, Refused,
       CallCached, FinishFunction, MethodKnown, FinishMethod, funVars
  <2>2. Kept \/ Entered(DrainFrame) \/ Left
    BY <1>2, Moves
  <2> QED BY <1>1, <2>1, <2>2, DistinctKept
<1>3. CASE CallNew
  <2> DEFINE f == SignatureFrame(Request.name, Request.inst)
  <2>1. Entered(f)
    BY <1>3, Moves
  <2>2. /\ stack # <<>> /\ Top.todo # <<>> /\ Head(Top.todo) # <<>> /\ Request.what = "call"
        /\ overloads' = overloads /\ methods' = methods /\ Cached(Request) = {}
    BY <1>3 DEF CallNew, Asked, funVars
  <2>3. Request.inst \in Types /\ Request.name \in FunctionSymbols
    BY <2>2, AdvancedFrame, RequestKind
  <2>4. f \in Frames /\ f.role = "signature" /\ f.symbol = Request.name /\ f.inst = Mono(Request)
    BY <2>3, EnteredSignature DEF Mono
  <2>5. \A k \in DOMAIN overloads[f.symbol] : overloads[f.symbol][k] # f.inst
    BY <2>2, <2>4 DEF Cached
  <2>6. Top.role \in {"program", "body", "method_body"}
    BY <2>2, Caller
  <2> HIDE DEF f
  <2> QED BY <1>1, <2>1, <2>2, <2>4, <2>5, <2>6, DistinctEntered
<1>4. CASE MethodNew
  <2> DEFINE f == MethodSignatureFrame(Request.name, Request.inst)
  <2>1. Entered(f)
    BY <1>4, Moves
  <2>2. /\ stack # <<>> /\ Top.todo # <<>> /\ Head(Top.todo) # <<>> /\ Request.what = "method"
        /\ overloads' = overloads /\ methods' = methods
        /\ Request.inst \in concrete /\ Method(Request) \notin methods
    BY <1>4 DEF MethodNew, Asked, funVars
  <2>3. Request.inst \in Instances /\ Request.name \in Methods
    BY <2>2, AdvancedFrame, RequestKind DEF StateTyped
  <2>4. f \in Frames /\ f.role = "method_signature" /\ f.symbol = Request.name /\ f.inst = Request.inst
    BY <2>3, EnteredMethod
  <2>5. [inst |-> f.inst, method |-> f.symbol] \notin methods
    BY <2>2, <2>4 DEF Method
  <2>6. Top.role \in {"program", "body", "method_body"}
    BY <2>2, Caller
  <2> HIDE DEF f
  <2> QED BY <1>1, <2>1, <2>2, <2>4, <2>5, <2>6, DistinctEntered
<1>5. CASE CheckBody
  <2> DEFINE f == BodyFrame(Top.symbol, Top.inst)
  <2>1. Turned(f)
    BY <1>5, Moves
  <2>2. /\ stack # <<>> /\ Top.role = "signature" /\ methods' = methods
        /\ overloads' = [overloads EXCEPT ![Top.symbol] = Append(@, Top.inst)]
    BY <1>5 DEF CheckBody
  <2>3. Top.symbol \in FunctionSymbols /\ Top.inst \in Names /\ InstanceOf(Top.symbol, Top.inst)
    BY <2>2, TopType DEF Frames, FrameOK
  <2>4. Tail(Top.inst) \in Types
    BY <2>3, FunctionInstance DEF InstanceOf
  <2>5. f \in Frames /\ f.role = "body" /\ f.symbol = Top.symbol /\ f.inst = Top.inst
    BY <2>3, <2>4, EnteredBody
  <2> HIDE DEF f
  <2> QED BY <1>1, <2>1, <2>2, <2>5, DistinctTurned
<1>6. CASE CheckMethodBody
  <2> DEFINE f == MethodBodyFrame(Top.symbol, Top.inst)
  <2>1. Turned(f)
    BY <1>6, Moves
  <2>2. /\ stack # <<>> /\ Top.role = "method_signature" /\ overloads' = overloads
        /\ methods' = methods \cup {[inst |-> Top.inst, method |-> Top.symbol]}
    BY <1>6 DEF CheckMethodBody
  <2>3. f \in Frames /\ f.role = "method_body" /\ f.symbol = Top.symbol /\ f.inst = Top.inst
    BY <2>2, TopType, EnteredMethod DEF FrameOK
  <2> HIDE DEF f
  <2> QED BY <1>1, <2>1, <2>2, <2>3, DistinctTurned
<1>7. CASE CheckBodies
  <2>1. /\ stack' = <<DrainFrame, ProgramFrame(program.bodies)>>
    BY <1>7 DEF CheckBodies, DrainFrame, ProgramFrame
  <2>2. \A i \in DOMAIN stack' : stack'[i].role \in {"drain", "program"}
    BY <2>1, ProgramUses, EnteredDrain, EnteredProgram
  <2> QED BY <2>2 DEF Distinct, BodyCached, SignatureUncached, MethodCached, NoTwins
<1>8. CASE FinishProgram
  <2>1. DOMAIN stack' = {}
    BY <1>8 DEF FinishProgram
  <2> QED BY <2>1 DEF Distinct, BodyCached, SignatureUncached, MethodCached, NoTwins
<1>9. CASE UNCHANGED vars
  BY <1>9 DEF vars, funVars, Distinct, BodyCached, SignatureUncached, MethodCached, NoTwins
<1> QED BY <1>2, <1>3, <1>4, <1>5, <1>6, <1>7, <1>8, <1>9 DEF Next, Finished

-----------------------------------------------------------------------------
(* The queue.                                                              *)

QueuedOnce   == \A i, j \in DOMAIN mono_queue : mono_queue[i].inst = mono_queue[j].inst => i = j
ConcreteFrom == \A c \in concrete : Queued(c)
QueueOK == QueuedOnce /\ ConcreteFrom /\ SettledOutsideDrain

\* At first nothing is queued.
LEMMA QueueInit == Init => QueueOK
<1> SUFFICES ASSUME Init PROVE QueueOK
  OBVIOUS
<1>1. mono_queue = <<>> /\ concrete = {} /\ pass = 0
  BY DEF Init
<1> QED BY <1>1 DEF QueueOK, QueuedOnce, ConcreteFrom, SettledOutsideDrain

\* A request outside a drain starts one, and a drain ends when nothing is left.
LEMMA QueueStep ==
  ASSUME StateTyped, StackShape, QueueOK, [Next]_vars
  PROVE  QueueOK'
<1>1. CASE UNCHANGED <<mono_queue, concrete>> /\ (pass' = 1 /\ ~is_draining' => Pending = {})
  <2>1. Pending' = Pending /\ QueuedOnce' /\ ConcreteFrom'
    BY <1>1 DEF Pending, QueueOK, QueuedOnce, ConcreteFrom, Queued
  <2> QED BY <1>1, <2>1 DEF QueueOK, SettledOutsideDrain
<1>2. CASE UNCHANGED <<mono_queue, concrete, pass, is_draining>>
  BY <1>1, <1>2 DEF QueueOK, SettledOutsideDrain
<1>3. CASE NextUse \/ RefuseStruct \/ RefuseFunction \/ CallCached \/ CallNew \/ CheckBody
           \/ FinishFunction \/ MethodKnown \/ MethodNew \/ CheckMethodBody \/ FinishMethod
           \/ FinishProgram \/ UNCHANGED vars
  <2>1. UNCHANGED <<mono_queue, concrete, pass, is_draining>>
    BY <1>3 DEF NextUse, RefuseStruct, RefuseFunction, Refused, CallCached, CallNew, CheckBody,
       FinishFunction, MethodKnown, MethodNew, CheckMethodBody, FinishMethod, FinishProgram,
       structVars, vars
  <2> QED BY <1>2, <2>1
<1>4. CASE FinishDrain
  BY <1>1, <1>4 DEF FinishDrain, structVars
<1>5. CASE CheckBodies
  BY <1>1, <1>5 DEF CheckBodies, structVars
<1>6. CASE RequestStruct
  <2> DEFINE job == [inst |-> Request.inst, depth |-> current_mono_depth + 1]
  <2>1. ~(pass' = 1 /\ ~is_draining')
    BY <1>6 DEF RequestStruct, StartDrain, StateTyped
  <2>2. concrete' = concrete
    BY <1>6 DEF RequestStruct
  <2>3. CASE mono_queue' = mono_queue
    BY <1>1, <2>1, <2>2, <2>3
  <2>4. CASE ~Queued(job.inst) /\ mono_queue' = Append(mono_queue, job)
    <3>1. mono_queue \in Seq(Jobs)
      BY DEF StateTyped
    <3>2. /\ DOMAIN mono_queue = 1..Len(mono_queue) /\ Len(mono_queue) \in Nat
          /\ DOMAIN mono_queue' = 1..Len(mono_queue) + 1
          /\ mono_queue'[Len(mono_queue) + 1] = job
          /\ \A i \in DOMAIN mono_queue : mono_queue'[i] = mono_queue[i]
      BY <2>4, <3>1
    <3>3. \A i \in DOMAIN mono_queue : mono_queue[i].inst # job.inst
      BY <2>4 DEF Queued
    <3> HIDE DEF job
    <3>4. QueuedOnce'
      <4>1. \A i \in DOMAIN mono_queue' : i \in DOMAIN mono_queue \/ i = Len(mono_queue) + 1
        BY <3>2
      <4> QED BY <3>2, <3>3, <4>1 DEF QueueOK, QueuedOnce
    <3>5. ConcreteFrom'
      <4>1. \A i \in DOMAIN mono_queue : i \in DOMAIN mono_queue'
        BY <3>2
      <4> QED BY <2>2, <3>2, <4>1 DEF QueueOK, ConcreteFrom, Queued
    <3> QED BY <2>1, <3>4, <3>5 DEF QueueOK, SettledOutsideDrain
  <2> QED BY <1>6, <2>3, <2>4 DEF RequestStruct
<1>7. CASE StartJob
  <2>1. PICK i \in Pending : concrete' = concrete \cup {mono_queue[i].inst}
    BY <1>7 DEF StartJob
  <2>2. mono_queue' = mono_queue /\ is_draining' = TRUE
    BY <1>7, DrainingFacts DEF StartJob
  <2>3. i \in DOMAIN mono_queue
    BY DEF Pending
  <2> QED BY <2>1, <2>2, <2>3 DEF QueueOK, QueuedOnce, ConcreteFrom, Queued, SettledOutsideDrain
<1> QED BY <1>3, <1>4, <1>5, <1>6, <1>7 DEF Next, Finished

-----------------------------------------------------------------------------
(* The depth counter.                                                      *)

NestedAt(s) == {i \in DOMAIN s : s[i].role \in {"signature", "body"}}

\* what is left in the queue was asked for at the present depth
JobDepths == \A i \in Pending : Nested < mono_queue[i].depth
                                /\ mono_queue[i].depth <= Nested + Len(mono_queue)
DepthOK == DepthAccountsForNesting /\ JobDepths

\* The frames that count as nesting are finitely many.
LEMMA NestedFinite ==
  ASSUME NEW s \in Seq(Frames)
  PROVE  NestedAt(s) \in SUBSET (1..Len(s)) /\ IsFiniteSet(NestedAt(s)) /\ Cardinality(NestedAt(s)) \in Nat
<1>1. DOMAIN s = 1..Len(s) /\ Len(s) \in Nat
  OBVIOUS
<1>2. IsFiniteSet(1..Len(s)) /\ NestedAt(s) \in SUBSET (1..Len(s))
  BY <1>1, FS_Interval DEF NestedAt
<1>3. IsFiniteSet(NestedAt(s))
  BY <1>2, FS_Subset
<1> QED BY <1>2, <1>3, FS_CardinalityType

\* A set of indices moved by one place is as large as before.
LEMMA CountShifted ==
  ASSUME NEW A \in SUBSET Nat, IsFiniteSet(A)
  PROVE  LET B == {i + 1 : i \in A}
         IN  IsFiniteSet(B) /\ Cardinality(B) = Cardinality(A)
<1> DEFINE B == {i + 1 : i \in A}
           g == [i \in A |-> i + 1]
<1>1. g \in [A -> B] /\ \A i \in A : g[i] = i + 1
  OBVIOUS
<1>2. \A i, j \in A : g[i] = g[j] => i = j
  <2>1. \A i, j \in Nat : i + 1 = j + 1 => i = j
    OBVIOUS
  <2> QED BY <1>1, <2>1
<1>3. \A b \in B : \E i \in A : g[i] = b
  BY <1>1
<1> HIDE DEF g, B
<1>4. g \in Bijection(A, B)
  BY <1>1, <1>2, <1>3 DEF Bijection, Injection, Surjection, IsInjective
<1>5. IsFiniteSet(B) /\ Cardinality(B) = Cardinality(A)
  BY <1>4, FS_Bijection DEF ExistsBijection
<1> QED BY <1>5 DEF B

\* One frame more on top counts if it is a function's.
LEMMA NestedPush ==
  ASSUME NEW s \in Seq(Frames), NEW t \in Seq(Frames), Len(t) = Len(s) + 1,
         \A i \in 1..Len(s) : Like(t[i + 1], s[i]) \/ Like(s[i], t[i + 1])
  PROVE  Cardinality(NestedAt(t)) =
           Cardinality(NestedAt(s)) + (IF t[1].role \in {"signature", "body"} THEN 1 ELSE 0)
<1> DEFINE B == {i + 1 : i \in NestedAt(s)}
<1>1. /\ DOMAIN s = 1..Len(s) /\ Len(s) \in Nat /\ DOMAIN t = 1..Len(s) + 1
  OBVIOUS
<1>2. NestedAt(s) \in SUBSET Nat /\ IsFiniteSet(NestedAt(s)) /\ Cardinality(NestedAt(s)) \in Nat
  <2>1. 1..Len(s) \subseteq Nat
    BY <1>1
  <2> QED BY <2>1, NestedFinite
<1>3. IsFiniteSet(B) /\ Cardinality(B) = Cardinality(NestedAt(s))
  BY <1>2, CountShifted
<1>4. \A i \in 1..Len(s) : t[i + 1].role = s[i].role
  BY DEF Like
<1>5. 1 \notin B
  BY <1>1, NestedFinite
<1>6. NestedAt(t) = IF t[1].role \in {"signature", "body"} THEN B \cup {1} ELSE B
  <2>1. ASSUME NEW i \in NestedAt(t), i # 1 PROVE i \in B
    <3>1. i \in 1..Len(s) + 1 /\ i - 1 \in 1..Len(s) /\ (i - 1) + 1 = i
      BY <1>1, <2>1 DEF NestedAt
    <3>2. i - 1 \in NestedAt(s)
      BY <1>1, <1>4, <3>1 DEF NestedAt
    <3> QED BY <3>1, <3>2
  <2>2. ASSUME NEW j \in NestedAt(s) PROVE j + 1 \in NestedAt(t)
    <3>1. j \in 1..Len(s) /\ j + 1 \in DOMAIN t
      BY <1>1 DEF NestedAt
    <3> QED BY <1>4, <3>1 DEF NestedAt
  <2>3. 1 \in NestedAt(t) <=> t[1].role \in {"signature", "body"}
    BY <1>1 DEF NestedAt
  <2>4. B \subseteq NestedAt(t)
    BY <2>2
  <2> HIDE DEF B
  <2> QED BY <2>1, <2>3, <2>4
<1> HIDE DEF B
<1>7. Cardinality(B \cup {1}) = Cardinality(B) + 1
  BY <1>3, <1>5, FS_AddElement
<1> QED BY <1>2, <1>3, <1>6, <1>7

\* How each move of the stack changes the nesting.
LEMMA NestedMoves ==
  ASSUME stack \in Seq(Frames), stack' \in Seq(Frames)
  PROVE  /\ Nested \in Nat
         /\ Kept => Nested' = Nested
         /\ \A f \in Frames :
              /\ Entered(f) =>
                   Nested' = Nested + (IF f.role \in {"signature", "body"} THEN 1 ELSE 0)
              /\ Turned(f) /\ stack # <<>>
                 /\ (f.role \in {"signature", "body"} <=> Top.role \in {"signature", "body"})
                   => Nested' = Nested
         /\ Left => Nested = Nested' + (IF Top.role \in {"signature", "body"} THEN 1 ELSE 0)
<1>1. Nested = Cardinality(NestedAt(stack)) /\ Nested' = Cardinality(NestedAt(stack'))
  BY DEF Nested, NestedAt
<1>2. Nested \in Nat
  BY <1>1, NestedFinite
<1>3. /\ DOMAIN stack = 1..Len(stack) /\ Len(stack) \in Nat
      /\ DOMAIN stack' = 1..Len(stack') /\ Len(stack') \in Nat
  OBVIOUS
<1>4. ASSUME Kept PROVE Nested' = Nested
  <2>1. NestedAt(stack') = NestedAt(stack)
    BY <1>3, <1>4 DEF Kept, Like, NestedAt
  <2> QED BY <1>1, <2>1
<1>5. ASSUME NEW f \in Frames, Entered(f)
      PROVE  Nested' = Nested + (IF f.role \in {"signature", "body"} THEN 1 ELSE 0)
  <2>1. stack'[1].role = f.role /\ Len(stack') = Len(stack) + 1
        /\ \A i \in 1..Len(stack) : Like(stack'[i + 1], stack[i])
    BY <1>5 DEF Entered, Like
  <2> QED BY <1>1, <2>1, NestedPush
<1>6. ASSUME NEW f \in Frames, Turned(f), stack # <<>>,
             f.role \in {"signature", "body"} <=> Top.role \in {"signature", "body"}
      PROVE  Nested' = Nested
  <2>1. Top = stack[1]
    BY <1>6 DEF Top
  <2>2. \A i \in 1..Len(stack) : i = 1 \/ i \in 2..Len(stack)
    BY <1>3
  <2>3. NestedAt(stack') = NestedAt(stack)
    BY <1>3, <1>6, <2>1, <2>2 DEF Turned, Like, NestedAt
  <2> QED BY <1>1, <2>3
<1>7. ASSUME Left PROVE Nested = Nested' + (IF Top.role \in {"signature", "body"} THEN 1 ELSE 0)
  <2>1. Len(stack) = Len(stack') + 1 /\ Top = stack[1]
        /\ \A i \in 1..Len(stack') : Like(stack'[i], stack[i + 1])
    BY <1>3, <1>7 DEF Left, Top
  <2> QED BY <1>1, <2>1, NestedPush
<1> QED BY <1>2, <1>4, <1>5, <1>6, <1>7

\* At first nothing is nested.
LEMMA DepthInit == Init => DepthOK
<1> SUFFICES ASSUME Init PROVE DepthOK
  OBVIOUS
<1>1. DOMAIN stack = {1} /\ stack[1].role = "program" /\ mono_queue = <<>> /\ current_mono_depth = 0
  BY DEF Init, Frame
<1>2. {i \in DOMAIN stack : stack[i].role \in {"signature", "body"}} = {}
  BY <1>1
<1>3. Nested = 0
  BY <1>2, FS_EmptySet DEF Nested
<1> QED BY <1>1, <1>3 DEF DepthOK, DepthAccountsForNesting, JobDepths, Pending

\* A function is entered and left only while nothing is pending, so the depth of
\* a job still fits when its turn comes.
LEMMA DepthStep ==
  ASSUME StateTyped, StackShape, QueueOK, DepthOK, [Next]_vars
  PROVE  DepthOK'
<1>1. /\ stack \in Seq(Frames) /\ stack' \in Seq(Frames)
      /\ mono_queue \in Seq(Jobs) /\ Len(mono_queue) \in Nat /\ current_mono_depth \in Int
  BY TypeStep DEF StateTyped, Depths
<1>2. Nested \in Nat /\ \A i \in Pending : mono_queue[i].depth \in Int
  <2>1. \A i \in Pending : mono_queue[i] \in Jobs
    BY <1>1 DEF Pending
  <2> QED BY <1>1, <2>1, NestedMoves DEF Jobs, Depths
<1>3. CASE NextUse \/ RefuseStruct \/ RefuseFunction \/ CallCached \/ MethodKnown \/ UNCHANGED vars
  <2>1. Nested' = Nested
    <3>1. CASE UNCHANGED vars
      BY <3>1 DEF vars, Nested
    <3> QED BY <1>1, <1>3, <3>1, Moves, NestedMoves
  <2>2. UNCHANGED <<mono_queue, concrete, current_mono_depth>>
    BY <1>3 DEF NextUse, RefuseStruct, RefuseFunction, Refused, CallCached, MethodKnown, structVars, vars
  <2> QED BY <2>1, <2>2 DEF DepthOK, DepthAccountsForNesting, JobDepths, Pending
<1>4. CASE RequestStruct
  <2>1. Nested' = Nested
    <3>1. DrainFrame \in Frames /\ DrainFrame.role = "drain"
      BY EnteredDrain
    <3> QED BY <1>1, <1>2, <1>4, <3>1, Moves, NestedMoves
  <2>2. current_mono_depth' = current_mono_depth /\ concrete' = concrete
    BY <1>4 DEF RequestStruct
  <2>3. CASE mono_queue' = mono_queue
    BY <2>1, <2>2, <2>3 DEF DepthOK, DepthAccountsForNesting, JobDepths, Pending
  <2>4. CASE mono_queue' = Append(mono_queue, [inst |-> Request.inst, depth |-> current_mono_depth + 1])
    <3>1. /\ Len(mono_queue') = Len(mono_queue) + 1
          /\ \A i \in Pending' : \/ i \in Pending /\ mono_queue'[i] = mono_queue[i]
                                 \/ mono_queue'[i].depth = current_mono_depth + 1
      BY <1>1, <2>2, <2>4 DEF Pending
    <3> QED BY <1>1, <1>2, <2>1, <2>2, <3>1 DEF DepthOK, DepthAccountsForNesting, JobDepths
  <2> QED BY <1>4, <2>3, <2>4 DEF RequestStruct
<1>5. CASE StartJob
  <2>1. Nested' = Nested
    BY <1>1, <1>5, Moves, NestedMoves
  <2>2. PICK i \in Pending : current_mono_depth' = mono_queue[i].depth
    BY <1>5 DEF StartJob
  <2>3. mono_queue' = mono_queue /\ concrete \subseteq concrete'
    BY <1>5 DEF StartJob
  <2>4. Pending' \subseteq Pending
    BY <2>3 DEF Pending
  <2> QED BY <1>1, <1>2, <2>1, <2>2, <2>3, <2>4 DEF DepthOK, DepthAccountsForNesting, JobDepths
<1>6. CASE FinishDrain \/ FinishMethod
  <2>1. Nested' = Nested
    <3>1. Top.role \notin {"signature", "body"}
      BY <1>6 DEF FinishDrain, Draining, FinishMethod
    <3>2. Nested' \in Nat
      BY <1>1, NestedFinite DEF Nested, NestedAt
    <3> QED BY <1>1, <1>6, <3>1, <3>2, Moves, NestedMoves
  <2>2. UNCHANGED <<mono_queue, concrete, current_mono_depth>>
    BY <1>6 DEF FinishDrain, FinishMethod, structVars
  <2> QED BY <2>1, <2>2 DEF DepthOK, DepthAccountsForNesting, JobDepths, Pending
<1>7. CASE CheckBody
  <2> DEFINE f == BodyFrame(Top.symbol, Top.inst)
  <2>1. stack # <<>> /\ Top.role = "signature"
    BY <1>7 DEF CheckBody
  <2>2. Top.symbol \in FunctionSymbols /\ Top.inst \in Names /\ InstanceOf(Top.symbol, Top.inst)
    BY <2>1, TopType DEF Frames, FrameOK
  <2>3. Tail(Top.inst) \in Types
    BY <2>2, FunctionInstance DEF InstanceOf
  <2>4. Turned(f) /\ f \in Frames /\ f.role = "body"
    BY <1>7, <2>2, <2>3, Moves, EnteredBody
  <2> HIDE DEF f
  <2>5. Nested' = Nested
    BY <1>1, <2>1, <2>4, NestedMoves
  <2>6. UNCHANGED <<mono_queue, concrete, current_mono_depth>>
    BY <1>7 DEF CheckBody, structVars
  <2> QED BY <2>5, <2>6 DEF DepthOK, DepthAccountsForNesting, JobDepths, Pending
<1>8. CASE CheckMethodBody
  <2> DEFINE f == MethodBodyFrame(Top.symbol, Top.inst)
  <2>1. stack # <<>> /\ Top.role = "method_signature"
    BY <1>8 DEF CheckMethodBody
  <2>2. Turned(f) /\ f \in Frames /\ f.role = "method_body"
    BY <1>8, <2>1, TopType, Moves, EnteredMethod DEF FrameOK
  <2> HIDE DEF f
  <2>3. Nested' = Nested
    BY <1>1, <2>1, <2>2, NestedMoves
  <2>4. UNCHANGED <<mono_queue, concrete, current_mono_depth>>
    BY <1>8 DEF CheckMethodBody, structVars
  <2> QED BY <2>3, <2>4 DEF DepthOK, DepthAccountsForNesting, JobDepths, Pending
<1>9. CASE CallNew
  <2> DEFINE f == SignatureFrame(Request.name, Request.inst)
  <2>1. /\ stack # <<>> /\ Top.todo # <<>> /\ Head(Top.todo) # <<>> /\ Request.what = "call"
        /\ UNCHANGED <<mono_queue, concrete>> /\ current_mono_depth' = current_mono_depth + 1
    BY <1>9 DEF CallNew, Asked, structVars
  <2>2. Entered(f) /\ f \in Frames /\ f.role = "signature"
    BY <1>9, <2>1, Moves, AdvancedFrame, RequestKind, EnteredSignature
  <2> HIDE DEF f
  <2>3. Nested' = Nested + 1
    BY <1>1, <2>2, NestedMoves
  <2>4. Pending = {}
    <3>1. pass = 1 /\ Top.role # "drain"
      BY <2>1, Caller
    <3>2. ~is_draining
      BY <3>1 DEF StackShape, DrainFlag
    <3> QED BY <3>1, <3>2 DEF QueueOK, SettledOutsideDrain
  <2>5. Pending' = {}
    BY <2>1, <2>4 DEF Pending
  <2> QED BY <1>1, <1>2, <2>1, <2>3, <2>5 DEF DepthOK, DepthAccountsForNesting, JobDepths
<1>10. CASE MethodNew
  <2> DEFINE f == MethodSignatureFrame(Request.name, Request.inst)
  <2>1. /\ stack # <<>> /\ Top.todo # <<>> /\ Head(Top.todo) # <<>> /\ Request.what = "method"
        /\ UNCHANGED <<mono_queue, concrete, current_mono_depth>> /\ Request.inst \in concrete
    BY <1>10 DEF MethodNew, Asked, structVars
  <2>2. Entered(f) /\ f \in Frames /\ f.role = "method_signature"
    BY <1>10, <2>1, Moves, AdvancedFrame, RequestKind, EnteredMethod DEF StateTyped
  <2> HIDE DEF f
  <2>3. Nested' = Nested
    BY <1>1, <1>2, <2>2, NestedMoves
  <2> QED BY <2>1, <2>3 DEF DepthOK, DepthAccountsForNesting, JobDepths, Pending
<1>11. CASE FinishFunction
  <2>1. /\ stack # <<>> /\ Top.role = "body" /\ UNCHANGED <<mono_queue, concrete>>
        /\ current_mono_depth' = current_mono_depth - 1
    BY <1>11 DEF FinishFunction, structVars
  <2>2. Nested = Nested' + 1
    BY <1>1, <1>11, <2>1, Moves, NestedMoves
  <2>3. Nested' \in Nat
    BY <1>1, NestedFinite DEF Nested, NestedAt
  <2>4. Pending = {}
    <3>1. pass = 1
      BY <2>1, TopType DEF StateTyped, StackShape, SignaturePass, ProgramLast
    <3>2. ~is_draining
      BY <2>1 DEF StackShape, DrainFlag
    <3> QED BY <3>1, <3>2 DEF QueueOK, SettledOutsideDrain
  <2>5. Pending' = {}
    BY <2>1, <2>4 DEF Pending
  <2> QED BY <1>1, <1>2, <2>1, <2>2, <2>3, <2>5 DEF DepthOK, DepthAccountsForNesting, JobDepths
<1>12. CASE CheckBodies \/ FinishProgram
  <2>1. UNCHANGED <<mono_queue, concrete, current_mono_depth>>
    BY <1>12 DEF CheckBodies, FinishProgram, structVars
  <2>2. Nested = 0
    <3>1. stack # <<>> /\ Top.role = "program" /\ Top = stack[1]
      BY <1>12, TopType DEF CheckBodies, FinishProgram, AtProgram
    <3>2. DOMAIN stack = {1}
      <4>1. 1 = Len(stack)
        BY <3>1, TopType DEF StackShape, ProgramLast
      <4> QED BY <1>1, <4>1
    <3>3. {i \in DOMAIN stack : stack[i].role \in {"signature", "body"}} = {}
      BY <3>1, <3>2
    <3> QED BY <3>3, FS_EmptySet DEF Nested
  <2>3. Nested' = 0
    <3>1. \A i \in DOMAIN stack' : stack'[i].role \notin {"signature", "body"}
      <4>1. CASE FinishProgram
        BY <4>1 DEF FinishProgram
      <4>2. CASE CheckBodies
        <5>1. stack' = <<DrainFrame, ProgramFrame(program.bodies)>>
          BY <4>2 DEF CheckBodies, DrainFrame, ProgramFrame
        <5> QED BY <5>1, ProgramUses, EnteredDrain, EnteredProgram
      <4> QED BY <1>12, <4>1, <4>2
    <3>2. {i \in DOMAIN stack' : stack'[i].role \in {"signature", "body"}} = {}
      BY <3>1
    <3> QED BY <3>2, FS_EmptySet DEF Nested
  <2> QED BY <2>1, <2>2, <2>3 DEF DepthOK, DepthAccountsForNesting, JobDepths, Pending
<1> QED BY <1>3, <1>4, <1>5, <1>6, <1>7, <1>8, <1>9, <1>10, <1>11, <1>12 DEF Next, Finished

-----------------------------------------------------------------------------
(* What is checked without an error is closed under what it mentions.      *)

\* r has been granted, or what it asks for is being made
Answered(r) ==
  CASE r.what = "struct" -> Queued(r.inst)
    [] r.what = "method" ->
         \/ Method(r) \in methods
         \/ \E i \in DOMAIN stack : /\ stack[i].role = "method_signature"
                                    /\ stack[i].inst = r.inst /\ stack[i].symbol = r.name
    [] OTHER ->
         \/ \E i \in DOMAIN mono_instances : Mangled(mono_instances[i]) = Mangled(Mono(r))
         \/ \E i \in DOMAIN stack : /\ stack[i].role = "signature"
                                    /\ Mangled(stack[i].inst) = Mangled(Mono(r))

AllAnswered(uses, arg) ==
  \A i \in DOMAIN uses : \A n \in DOMAIN Requests(uses[i], arg) : Answered(Requests(uses[i], arg)[n])

\* what uses ask for is answered, or frame f will still ask for it
Covered(f, uses, arg) ==
  \A i \in DOMAIN uses : \A n \in DOMAIN Requests(uses[i], arg) :
    Answered(Requests(uses[i], arg)[n]) \/ InTodo(f, Requests(uses[i], arg)[n])

FrameCovered(f) ==
  /\ f.role = "program" => Covered(f, IF pass = 0 THEN program.signatures ELSE program.bodies, <<>>)
  /\ f.role = "drain" /\ f.inst # <<>> => Covered(f, program.fields[Head(f.inst)], Tail(f.inst))
  /\ f.role = "signature" => Covered(f, program.signature[Declaration[f.symbol]], Tail(f.inst))
  /\ f.role = "body" => /\ AllAnswered(program.signature[Declaration[f.symbol]], Tail(f.inst))
                        /\ Covered(f, program.body[Declaration[f.symbol]], Tail(f.inst))
  /\ f.role = "method_signature" => Covered(f, program.signature[f.symbol], Tail(f.inst))
  /\ f.role = "method_body" => /\ AllAnswered(program.signature[f.symbol], Tail(f.inst))
                               /\ Covered(f, program.body[f.symbol], Tail(f.inst))

FramesCovered == \A i \in DOMAIN stack : FrameCovered(stack[i])

\* g is frame f after a step: what it no longer asks for is answered
Succeeds(g, f) ==
  /\ g.role = f.role /\ g.symbol = f.symbol /\ g.inst = f.inst
  /\ \A r : InTodo(f, r) => InTodo(g, r) \/ Answered(r)'

AnswersStay == \A r : Answered(r) => Answered(r)'

\* A frame that is entered still asks for all of its uses.
LEMMA GroupsCover ==
  ASSUME NEW f, NEW uses, NEW arg, f.todo = Groups(uses, arg)
  PROVE  Covered(f, uses, arg)
<1>1. ASSUME NEW i \in DOMAIN uses, NEW n \in DOMAIN Requests(uses[i], arg)
      PROVE  InTodo(f, Requests(uses[i], arg)[n])
  <2>1. i \in DOMAIN f.todo /\ f.todo[i] = Requests(uses[i], arg)
    BY DEF Groups
  <2> QED BY <2>1 DEF InTodo
<1> QED BY <1>1 DEF Covered

\* A frame that asks for nothing more has had it all.
LEMMA NothingLeft ==
  ASSUME NEW f, NEW uses, NEW arg, f.todo = <<>>, Covered(f, uses, arg)
  PROVE  AllAnswered(uses, arg)
<1>1. \A r : ~InTodo(f, r)
  BY DEF InTodo
<1> QED BY <1>1 DEF Covered, AllAnswered

\* A frame that goes on is covered as before.
LEMMA SucceedsCovered ==
  ASSUME AnswersStay, program' = program, NEW f, NEW g, Succeeds(g, f), FrameCovered(f),
         f.role = "program" => pass' = pass
  PROVE  FrameCovered(g)'
<1>1. ASSUME NEW uses, NEW arg, Covered(f, uses, arg) PROVE Covered(g, uses, arg)'
  BY <1>1 DEF AnswersStay, Succeeds, Covered
<1>2. ASSUME NEW uses, NEW arg, AllAnswered(uses, arg) PROVE AllAnswered(uses, arg)'
  BY <1>2 DEF AnswersStay, AllAnswered
<1> QED BY <1>1, <1>2 DEF Succeeds, FrameCovered


\* Frames that are not left are there after the step.
LEMMA FramesStay ==
  ASSUME StateTyped, StateTyped', NEW i \in DOMAIN stack
  PROVE  /\ Kept => \E j \in DOMAIN stack' : Like(stack'[j], stack[i])
         /\ \A f : Entered(f) => \E j \in DOMAIN stack' : Like(stack'[j], stack[i])
         /\ \A f : Turned(f) /\ i # 1 => \E j \in DOMAIN stack' : Like(stack'[j], stack[i])
         /\ Left /\ i # 1 => \E j \in DOMAIN stack' : Like(stack'[j], stack[i])
<1>1. /\ DOMAIN stack = 1..Len(stack) /\ Len(stack) \in Nat
      /\ DOMAIN stack' = 1..Len(stack') /\ Len(stack') \in Nat
  BY DEF StateTyped
<1>2. Kept => \E j \in DOMAIN stack' : Like(stack'[j], stack[i])
  BY <1>1 DEF Kept
<1>3. ASSUME NEW f, Entered(f) PROVE \E j \in DOMAIN stack' : Like(stack'[j], stack[i])
  <2>1. i + 1 \in DOMAIN stack' /\ Like(stack'[i + 1], stack[i])
    BY <1>1, <1>3 DEF Entered
  <2> QED BY <2>1
<1>4. ASSUME NEW f, Turned(f), i # 1 PROVE \E j \in DOMAIN stack' : Like(stack'[j], stack[i])
  BY <1>1, <1>4 DEF Turned
<1>5. ASSUME Left, i # 1 PROVE \E j \in DOMAIN stack' : Like(stack'[j], stack[i])
  <2>1. i - 1 \in 1..Len(stack) - 1 /\ (i - 1) + 1 = i /\ i - 1 \in DOMAIN stack'
    BY <1>1, <1>5 DEF Left
  <2>2. Like(stack'[i - 1], stack[(i - 1) + 1])
    BY <1>5, <2>1 DEF Left
  <2> QED BY <2>1, <2>2
<1> QED BY <1>2, <1>3, <1>4, <1>5

\* What is being made, of a function or of a method.
Making(rl, s, t) == \E i \in DOMAIN stack : stack[i].role = rl /\ stack[i].symbol = s /\ stack[i].inst = t

\* What is being made is being made after the step, or is done by it.
LEMMA MakingStays ==
  ASSUME StateTyped, StackShape, [Next]_vars, NEW rl \in {"signature", "method_signature"}, NEW s, NEW t,
         Making(rl, s, t)
  PROVE  \/ Making(rl, s, t)'
         \/ CheckBody /\ rl = "signature" /\ Top.inst = t
         \/ CheckMethodBody /\ rl = "method_signature" /\ Top.symbol = s /\ Top.inst = t
<1>1. PICK i \in DOMAIN stack : stack[i].role = rl /\ stack[i].symbol = s /\ stack[i].inst = t
  BY DEF Making
<1>2. StateTyped'
  BY TypeStep
<1>3. ASSUME \E j \in DOMAIN stack' : Like(stack'[j], stack[i]) PROVE Making(rl, s, t)'
  <2>1. PICK j \in DOMAIN stack' : Like(stack'[j], stack[i])
    BY <1>3
  <2>2. stack'[j].role = rl /\ stack'[j].symbol = s /\ stack'[j].inst = t
    BY <1>1, <2>1 DEF Like
  <2> QED BY <2>2 DEF Making
<1>4. stack # <<>> /\ Top = stack[1] /\ DOMAIN stack = 1..Len(stack) /\ Len(stack) \in Nat
  <2>1. stack # <<>>
    BY <1>1
  <2> QED BY <2>1, TopType DEF StateTyped
<1>5. CASE Kept \/ \E f : Entered(f)
  BY <1>2, <1>3, <1>5, FramesStay
<1>6. CASE FinishDrain \/ FinishFunction \/ FinishMethod
  <2>1. i # 1 /\ Left
    BY <1>1, <1>4, <1>6, Moves DEF FinishDrain, Draining, FinishFunction, FinishMethod
  <2> QED BY <1>2, <1>3, <2>1, FramesStay
<1>7. CASE CheckBody
  <2>1. Turned(BodyFrame(Top.symbol, Top.inst)) /\ Top.role = "signature"
    BY <1>7, Moves DEF CheckBody
  <2>2. CASE i # 1
    BY <1>2, <1>3, <2>1, <2>2, FramesStay
  <2>3. CASE i = 1
    BY <1>1, <1>4, <1>7, <2>1, <2>3
  <2> QED BY <2>2, <2>3
<1>8. CASE CheckMethodBody
  <2>1. Turned(MethodBodyFrame(Top.symbol, Top.inst)) /\ Top.role = "method_signature"
    BY <1>8, Moves DEF CheckMethodBody
  <2>2. CASE i # 1
    BY <1>2, <1>3, <2>1, <2>2, FramesStay
  <2>3. CASE i = 1
    BY <1>1, <1>4, <1>8, <2>1, <2>3
  <2> QED BY <2>2, <2>3
<1>9. CASE CheckBodies \/ FinishProgram
  <2>1. Top.role = "program" /\ Len(stack) = 1
    <3>1. stack[1].role = "program" /\ 1 \in DOMAIN stack
      BY <1>4, <1>9 DEF CheckBodies, FinishProgram, AtProgram
    <3> QED BY <1>4, <3>1 DEF StackShape, ProgramLast
  <2> QED BY <1>1, <1>4, <2>1
<1>10. CASE UNCHANGED vars
  BY <1>10 DEF vars, Making
<1> QED BY <1>5, <1>6, <1>7, <1>8, <1>9, <1>10, Moves DEF Next, Finished

\* What a step adds to, it takes nothing from.
LEMMA Growing ==
  ASSUME StateTyped, [Next]_vars
  PROVE  /\ \A t : Queued(t) => Queued(t)'
         /\ methods \subseteq methods' /\ concrete \subseteq concrete' /\ errors \subseteq errors'
         /\ program' = program
         /\ \A i \in DOMAIN mono_instances : i \in DOMAIN mono_instances' /\ mono_instances'[i] = mono_instances[i]
<1>1. mono_queue' = mono_queue \/ \E job : mono_queue' = Append(mono_queue, job)
  BY DEF Next, NextUse, RefuseStruct, RefuseFunction, Refused, RequestStruct, StartJob, FinishDrain, CallCached, CallNew, CheckBody,
     FinishFunction, MethodKnown, MethodNew, CheckMethodBody, FinishMethod, CheckBodies, FinishProgram, Finished, structVars, vars
<1>2. mono_queue \in Seq(Jobs) /\ mono_instances \in Seq(Names)
  BY DEF StateTyped
<1>3. ASSUME NEW t, Queued(t) PROVE Queued(t)'
  <2>1. PICK i \in DOMAIN mono_queue : mono_queue[i].inst = t
    BY <1>3 DEF Queued
  <2>2. i \in DOMAIN mono_queue' /\ mono_queue'[i] = mono_queue[i]
    BY <1>1, <1>2
  <2> QED BY <2>1, <2>2 DEF Queued
<1>4. mono_instances' = mono_instances \/ \E inst : mono_instances' = Append(mono_instances, inst)
  BY DEF Next, NextUse, RefuseStruct, RefuseFunction, Refused, RequestStruct, StartJob, FinishDrain, CallCached, CallNew, CheckBody,
     FinishFunction, MethodKnown, MethodNew, CheckMethodBody, FinishMethod, CheckBodies, FinishProgram, Finished, funVars, vars, Register
<1>5. ASSUME NEW i \in DOMAIN mono_instances
      PROVE i \in DOMAIN mono_instances' /\ mono_instances'[i] = mono_instances[i]
  BY <1>2, <1>4
<1>6. methods \subseteq methods' /\ concrete \subseteq concrete' /\ program' = program
  BY DEF Next, NextUse, RefuseStruct, RefuseFunction, Refused, RequestStruct, StartJob, FinishDrain, CallCached, CallNew, CheckBody,
     FinishFunction, MethodKnown, MethodNew, CheckMethodBody, FinishMethod, CheckBodies, FinishProgram, Finished, structVars, funVars, vars
<1>7. errors \subseteq errors'
  BY DEF Next, NextUse, RefuseStruct, RefuseFunction, Refused, Fail, RequestStruct, StartJob, FinishDrain, CallCached, CallNew, CheckBody,
     FinishFunction, MethodKnown, MethodNew, CheckMethodBody, FinishMethod, CheckBodies, FinishProgram, Finished, structVars, funVars, vars, Register
<1> QED BY <1>3, <1>5, <1>6, <1>7

\* An answer is never taken back: what is being made is handed over when its
\* signature is done.
LEMMA AnswersStayStep ==
  ASSUME StateTyped, StackShape, [Next]_vars
  PROVE  AnswersStay
<1> SUFFICES ASSUME NEW r, Answered(r) PROVE Answered(r)'
  BY DEF AnswersStay
<1>1. StateTyped'
  BY TypeStep
<1>2. CASE r.what = "struct"
  BY <1>2, Growing DEF Answered
<1>3. CASE r.what = "method"
  <2>1. Method(r) \in methods => Method(r) \in methods'
    BY Growing
  <2>2. ASSUME Making("method_signature", r.name, r.inst)
        PROVE  Method(r) \in methods' \/ Making("method_signature", r.name, r.inst)'
    <3>1. CASE CheckMethodBody /\ Top.symbol = r.name /\ Top.inst = r.inst
      BY <3>1 DEF CheckMethodBody, Method
    <3> QED BY <2>2, <3>1, MakingStays
  <2>3. Method(r) \in methods \/ Making("method_signature", r.name, r.inst)
    BY <1>3 DEF Answered, Making
  <2>4. Method(r) \in methods' \/ Making("method_signature", r.name, r.inst)'
    BY <2>1, <2>2, <2>3
  <2> QED BY <1>3, <2>4 DEF Answered, Making, Method
<1>4. CASE r.what # "struct" /\ r.what # "method"
  <2>1. ASSUME NEW i \in DOMAIN mono_instances, Mangled(mono_instances[i]) = Mangled(Mono(r))
        PROVE  \E k \in DOMAIN mono_instances' : Mangled(mono_instances'[k]) = Mangled(Mono(r))
    BY <2>1, Growing
  <2>2. ASSUME NEW i \in DOMAIN stack, stack[i].role = "signature",
               Mangled(stack[i].inst) = Mangled(Mono(r))
        PROVE  \/ \E k \in DOMAIN mono_instances' : Mangled(mono_instances'[k]) = Mangled(Mono(r))
               \/ \E j \in DOMAIN stack' : stack'[j].role = "signature" /\ Mangled(stack'[j].inst) = Mangled(Mono(r))
    <3> PICK s, t : s = stack[i].symbol /\ t = stack[i].inst
      OBVIOUS
    <3>1. Making("signature", s, t)
      BY <2>2 DEF Making
    <3>2. CASE Making("signature", s, t)'
      BY <2>2, <3>2 DEF Making
    <3>3. CASE CheckBody /\ Top.inst = t
      <4>1. mono_instances' = Append(mono_instances, t) /\ mono_instances \in Seq(Names)
        BY <3>3 DEF CheckBody, Register, StateTyped
      <4>2. Len(mono_instances) + 1 \in DOMAIN mono_instances' /\ mono_instances'[Len(mono_instances) + 1] = t
        BY <4>1
      <4> QED BY <2>2, <4>2
    <3> QED BY <3>1, <3>2, <3>3, MakingStays
  <2>3. \/ \E i \in DOMAIN mono_instances : Mangled(mono_instances[i]) = Mangled(Mono(r))
        \/ \E i \in DOMAIN stack : stack[i].role = "signature" /\ Mangled(stack[i].inst) = Mangled(Mono(r))
    BY <1>4 DEF Answered
  <2>4. \/ \E i \in DOMAIN mono_instances' : Mangled(mono_instances'[i]) = Mangled(Mono(r))
        \/ \E i \in DOMAIN stack' : stack'[i].role = "signature" /\ Mangled(stack'[i].inst) = Mangled(Mono(r))
    BY <2>1, <2>2, <2>3
  <2> QED BY <1>4, <2>4 DEF Answered
<1> QED BY <1>2, <1>3, <1>4

\* A frame the step leaves alone stays covered.
LEMMA FrameStaysCovered ==
  ASSUME AnswersStay, program' = program, pass' = pass, NEW f, FrameCovered(f)
  PROVE  FrameCovered(f)'
<1>1. Succeeds(f, f)
  BY DEF Succeeds
<1> QED BY <1>1, SucceedsCovered

\* The frames below the top stay covered, so a step has to see to the new top.
LEMMA ReturnCovered ==
  ASSUME StateTyped, FramesCovered, AnswersStay, program' = program, pass' = pass, stack # <<>>,
         NEW f \in Frames, FrameCovered(f)', stack' = <<f>> \o Tail(stack)
  PROVE  FramesCovered'
<1>1. stack \in Seq(Frames)
  BY DEF StateTyped
<1>2. \A i \in DOMAIN stack' : i = 1 \/ (i \in DOMAIN stack /\ stack'[i] = stack[i])
  BY <1>1, Replaced
<1>3. stack'[1] = f
  BY <1>1, Replaced
<1>4. ASSUME NEW i \in DOMAIN stack', NEW g, g = stack'[i] PROVE FrameCovered(g)'
  <2>1. g = f \/ FrameCovered(g)
    BY <1>2, <1>3, <1>4 DEF FramesCovered
  <2> QED BY <2>1, FrameStaysCovered
<1> QED BY <1>4 DEF FramesCovered

\* The same for a call, which puts a frame on top of the one that goes on.
LEMMA CallCovered ==
  ASSUME StateTyped, FramesCovered, AnswersStay, program' = program, pass' = pass, stack # <<>>,
         NEW f \in Frames, NEW g \in Frames, FrameCovered(f)', FrameCovered(g)',
         stack' = <<f, g>> \o Tail(stack)
  PROVE  FramesCovered'
<1>1. stack \in Seq(Frames)
  BY DEF StateTyped
<1>2. \A i \in DOMAIN stack' : i = 1 \/ i = 2 \/ (i - 1 \in DOMAIN stack /\ stack'[i] = stack[i - 1])
  BY <1>1, Pushed
<1>3. stack'[1] = f /\ stack'[2] = g
  BY <1>1, Pushed
<1>4. ASSUME NEW i \in DOMAIN stack', NEW h, h = stack'[i] PROVE FrameCovered(h)'
  <2>1. h = f \/ h = g \/ FrameCovered(h)
    BY <1>2, <1>3, <1>4 DEF FramesCovered
  <2> QED BY <2>1, FrameStaysCovered
<1> QED BY <1>4 DEF FramesCovered

\* The same for the end of a frame.
LEMMA PopCovered ==
  ASSUME StateTyped, FramesCovered, AnswersStay, program' = program, pass' = pass, stack # <<>>,
         stack' = Tail(stack)
  PROVE  FramesCovered'
<1>1. stack \in Seq(Frames)
  BY DEF StateTyped
<1>2. \A i \in DOMAIN stack' : i + 1 \in DOMAIN stack /\ stack'[i] = stack[i + 1]
  BY <1>1, Popped
<1>3. ASSUME NEW i \in DOMAIN stack', NEW h, h = stack'[i] PROVE FrameCovered(h)'
  <2>1. FrameCovered(h)
    BY <1>2, <1>3 DEF FramesCovered
  <2> QED BY <2>1, FrameStaysCovered
<1> QED BY <1>3 DEF FramesCovered

\* what a cache holds has been handed over
OverloadsRegistered ==
  \A s \in FunctionSymbols : \A k \in DOMAIN overloads[s] :
    \E i \in DOMAIN mono_instances : mono_instances[i] = overloads[s][k]

\* A request that is not refused is answered by the step that takes it.
LEMMA Answering ==
  ASSUME StateTyped, StackShape, QueueOK, OverloadsRegistered, NEW r, r = Request,
         RequestStruct \/ CallCached \/ CallNew \/ MethodKnown \/ MethodNew
  PROVE  Answered(r)' /\ stack # <<>> /\ Top.todo # <<>> /\ Head(Top.todo) # <<>>
<1>1. stack # <<>> /\ Top.todo # <<>> /\ Head(Top.todo) # <<>>
  BY DEF RequestStruct, CallCached, CallNew, MethodKnown, MethodNew, Asked
<1> SUFFICES Answered(r)'
  BY <1>1
<1>2. r \in AllRequests
  BY <1>1, AdvancedFrame
<1>3. [Next]_vars /\ StateTyped'
  <2>1. [Next]_vars
    BY DEF Next
  <2> QED BY <2>1, TypeStep
<1>4. CASE RequestStruct
  <2>1. r.what = "struct"
    BY <1>4 DEF RequestStruct, Asked
  <2>2. CASE Queued(r.inst)
    BY <1>3, <2>1, <2>2, Growing DEF Answered
  <2>3. CASE ~Queued(r.inst)
    <3>1. r.inst \notin concrete
      BY <2>3 DEF QueueOK, ConcreteFrom
    <3>2. mono_queue' = Append(mono_queue, [inst |-> r.inst, depth |-> current_mono_depth + 1])
          /\ mono_queue \in Seq(Jobs)
      BY <1>4, <2>3, <3>1 DEF RequestStruct, StateTyped
    <3>3. Len(mono_queue) + 1 \in DOMAIN mono_queue'
          /\ mono_queue'[Len(mono_queue) + 1] = [inst |-> r.inst, depth |-> current_mono_depth + 1]
      BY <3>2
    <3>4. Queued(r.inst)'
      BY <3>3 DEF Queued
    <3> QED BY <2>1, <3>4 DEF Answered
  <2> QED BY <2>2, <2>3
<1>5. CASE CallCached
  <2>1. r.what = "call" /\ mono_instances' = mono_instances
    BY <1>5 DEF CallCached, Asked
  <2>2. PICK i \in Cached(r) : TRUE
    BY <1>5 DEF CallCached
  <2>3. i \in DOMAIN overloads[r.name] /\ Mangled(overloads[r.name][i]) = Mangled(Mono(r))
    BY <2>2 DEF Cached
  <2>4. r.name \in FunctionSymbols
    BY <1>2, <2>1, RequestKind
  <2>5. PICK k \in DOMAIN mono_instances : mono_instances[k] = overloads[r.name][i]
    BY <2>3, <2>4 DEF OverloadsRegistered
  <2>6. \E n \in DOMAIN mono_instances' : Mangled(mono_instances'[n]) = Mangled(Mono(r))
    BY <2>1, <2>3, <2>5
  <2> QED BY <2>1, <2>6 DEF Answered
<1>6. CASE CallNew
  <2>1. r.what = "call"
    BY <1>6 DEF CallNew, Asked
  <2>2. r.name \in FunctionSymbols /\ r.inst \in Types
    BY <1>2, <2>1, RequestKind
  <2>3. Entered(SignatureFrame(r.name, r.inst))
    BY <1>6, Moves
  <2>4. stack'[1].role = "signature" /\ stack'[1].inst = Mono(r)
    BY <2>2, <2>3, EnteredSignature DEF Entered, Like, Mono
  <2>5. 1 \in DOMAIN stack'
    BY <1>3, <2>3 DEF Entered, StateTyped
  <2>6. \E i \in DOMAIN stack' : stack'[i].role = "signature" /\ Mangled(stack'[i].inst) = Mangled(Mono(r))
    BY <2>4, <2>5
  <2> QED BY <2>1, <2>6 DEF Answered
<1>7. CASE MethodKnown
  <2>1. r.what = "method" /\ Method(r) \in methods'
    BY <1>7 DEF MethodKnown, Asked, funVars
  <2> QED BY <2>1 DEF Answered, Method
<1>8. CASE MethodNew
  <2>1. r.what = "method" /\ r.inst \in concrete
    BY <1>8 DEF MethodNew, Asked
  <2>2. r.name \in Methods /\ r.inst \in Instances
    BY <1>2, <2>1, RequestKind DEF StateTyped
  <2>3. Entered(MethodSignatureFrame(r.name, r.inst))
    BY <1>8, Moves
  <2>4. stack'[1].role = "method_signature" /\ stack'[1].inst = r.inst /\ stack'[1].symbol = r.name
    BY <2>2, <2>3, EnteredMethod DEF Entered, Like
  <2>5. 1 \in DOMAIN stack'
    BY <1>3, <2>3 DEF Entered, StateTyped
  <2>6. \E i \in DOMAIN stack' : /\ stack'[i].role = "method_signature"
                                 /\ stack'[i].inst = r.inst /\ stack'[i].symbol = r.name
    BY <2>4, <2>5
  <2> QED BY <2>1, <2>6 DEF Answered
<1> QED BY <1>1, <1>4, <1>5, <1>6, <1>7, <1>8

\* The frame on top, when it goes on, is covered by that answer.
LEMMA AdvancedSucceeds ==
  ASSUME StateTyped, StackShape, stack # <<>>, Top.todo # <<>>, Head(Top.todo) # <<>>,
         NEW r, r = Request, Answered(r)'
  PROVE  \A g : g = Advanced => \A f : f = Top => Succeeds(g, f)
  BY AdvancedFrame DEF Succeeds

\* At first the caches are empty.
LEMMA OverloadsInit == Init => OverloadsRegistered
  BY DEF Init, OverloadsRegistered

\* An instance enters the cache when it is handed over.
LEMMA OverloadsStep ==
  ASSUME StateTyped, StackShape, OverloadsRegistered, [Next]_vars
  PROVE  OverloadsRegistered'
<1>1. CASE overloads' = overloads
  <2>1. ASSUME NEW s \in FunctionSymbols, NEW k \in DOMAIN overloads[s]
        PROVE  \E i \in DOMAIN mono_instances' : mono_instances'[i] = overloads[s][k]
    <3>1. PICK i \in DOMAIN mono_instances : mono_instances[i] = overloads[s][k]
      BY DEF OverloadsRegistered
    <3> QED BY <3>1, Growing
  <2> QED BY <1>1, <2>1 DEF OverloadsRegistered
<1>2. CASE CheckBody
  <2>1. /\ overloads' = [overloads EXCEPT ![Top.symbol] = Append(@, Top.inst)]
        /\ mono_instances' = Append(mono_instances, Top.inst)
        /\ stack # <<>> /\ Top.role = "signature"
    BY <1>2 DEF CheckBody, Register
  <2>2. Top.symbol \in FunctionSymbols /\ Top.inst \in Names
    BY <2>1, TopType DEF FrameOK, Frames
  <2>3. mono_instances \in Seq(Names) /\ overloads \in [FunctionSymbols -> Seq(Names)]
    BY DEF StateTyped
  <2>4. Len(mono_instances) + 1 \in DOMAIN mono_instances'
        /\ mono_instances'[Len(mono_instances) + 1] = Top.inst
    BY <2>1, <2>3
  <2>5. ASSUME NEW s \in FunctionSymbols, NEW k \in DOMAIN overloads'[s]
        PROVE  \E i \in DOMAIN mono_instances' : mono_instances'[i] = overloads'[s][k]
    <3>1. (k \in DOMAIN overloads[s] /\ overloads'[s][k] = overloads[s][k])
          \/ overloads'[s][k] = Top.inst
      BY <2>1, <2>2, <2>3
    <3>2. CASE k \in DOMAIN overloads[s] /\ overloads'[s][k] = overloads[s][k]
      <4>1. PICK i \in DOMAIN mono_instances : mono_instances[i] = overloads[s][k]
        BY <3>2 DEF OverloadsRegistered
      <4> QED BY <3>2, <4>1, Growing
    <3> QED BY <2>4, <3>1, <3>2
  <2> QED BY <2>5 DEF OverloadsRegistered
<1> QED BY <1>1, <1>2 DEF Next, NextUse, RefuseStruct, RefuseFunction, Refused, RequestStruct, StartJob,
     FinishDrain, CallCached, CallNew, FinishFunction, MethodKnown, MethodNew, CheckMethodBody,
     FinishMethod, CheckBodies, FinishProgram, Finished, funVars, vars

\* A frame that is entered is covered: it still asks for everything.
LEMMA FreshCovered ==
  ASSUME StateTyped
  PROVE  /\ FrameCovered(DrainFrame)
         /\ \A inst \in Instances : FrameCovered(JobFrame(inst))
         /\ \A name \in FunctionSymbols, arg \in Types : FrameCovered(SignatureFrame(name, arg))
         /\ \A name \in FunctionSymbols, inst \in Names :
              /\ Tail(inst) \in Types /\ InstanceOf(name, inst)
              /\ AllAnswered(program.signature[Declaration[name]], Tail(inst))
              => FrameCovered(BodyFrame(name, inst))
         /\ \A name \in Methods, inst \in Instances :
              /\ FrameCovered(MethodSignatureFrame(name, inst))
              /\ AllAnswered(program.signature[name], Tail(inst))
                 => FrameCovered(MethodBodyFrame(name, inst))
<1>1. FrameCovered(DrainFrame)
  BY EnteredDrain DEF FrameCovered
<1>2. ASSUME NEW inst \in Instances PROVE FrameCovered(JobFrame(inst))
  <2> DEFINE f == JobFrame(inst)
  <2>1. /\ f.role = "drain" /\ f.inst = inst
        /\ f.todo = Groups(program.fields[Head(inst)], Tail(inst))
    BY EnteredJob
  <2> HIDE DEF f
  <2>2. Covered(f, program.fields[Head(f.inst)], Tail(f.inst))
    BY <2>1, GroupsCover
  <2>3. FrameCovered(f)
    BY <2>1, <2>2 DEF FrameCovered
  <2> QED BY <2>3 DEF f
<1>3. ASSUME NEW name \in FunctionSymbols, NEW arg \in Types PROVE FrameCovered(SignatureFrame(name, arg))
  <2> DEFINE f == SignatureFrame(name, arg)
  <2>1. /\ f.role = "signature" /\ f.symbol = name /\ Tail(f.inst) = arg
        /\ f.todo = Groups(program.signature[Declaration[name]], arg)
    <3>1. /\ f.role = "signature" /\ f.symbol = name /\ f.inst = <<Declaration[name]>> \o arg
          /\ f.todo = Groups(program.signature[Declaration[name]], arg)
      BY EnteredSignature
    <3>2. Tail(<<Declaration[name]>> \o arg) = arg
      BY FunctionInstance
    <3> HIDE DEF f
    <3> QED BY <3>1, <3>2
  <2> HIDE DEF f
  <2>2. Covered(f, program.signature[Declaration[f.symbol]], Tail(f.inst))
    BY <2>1, GroupsCover
  <2>3. FrameCovered(f)
    BY <2>1, <2>2 DEF FrameCovered
  <2> QED BY <2>3 DEF f
<1>4. ASSUME NEW name \in FunctionSymbols, NEW inst \in Names, Tail(inst) \in Types, InstanceOf(name, inst),
             AllAnswered(program.signature[Declaration[name]], Tail(inst))
      PROVE  FrameCovered(BodyFrame(name, inst))
  <2> DEFINE f == BodyFrame(name, inst)
  <2>1. /\ f.role = "body" /\ f.symbol = name /\ f.inst = inst
        /\ f.todo = Groups(program.body[Declaration[name]], Tail(inst))
    BY <1>4, EnteredBody
  <2> HIDE DEF f
  <2>2. Covered(f, program.body[Declaration[f.symbol]], Tail(f.inst))
    BY <2>1, GroupsCover
  <2>3. FrameCovered(f)
    BY <1>4, <2>1, <2>2 DEF FrameCovered
  <2> QED BY <2>3 DEF f
<1>5. ASSUME NEW name \in Methods, NEW inst \in Instances
      PROVE  FrameCovered(MethodSignatureFrame(name, inst))
  <2> DEFINE f == MethodSignatureFrame(name, inst)
  <2>1. /\ f.role = "method_signature" /\ f.symbol = name /\ f.inst = inst
        /\ f.todo = Groups(program.signature[name], Tail(inst))
    BY EnteredMethod
  <2> HIDE DEF f
  <2>2. Covered(f, program.signature[f.symbol], Tail(f.inst))
    BY <2>1, GroupsCover
  <2>3. FrameCovered(f)
    BY <2>1, <2>2 DEF FrameCovered
  <2> QED BY <2>3 DEF f
<1>6. ASSUME NEW name \in Methods, NEW inst \in Instances, AllAnswered(program.signature[name], Tail(inst))
      PROVE  FrameCovered(MethodBodyFrame(name, inst))
  <2> DEFINE f == MethodBodyFrame(name, inst)
  <2>1. /\ f.role = "method_body" /\ f.symbol = name /\ f.inst = inst
        /\ f.todo = Groups(program.body[name], Tail(inst))
    BY EnteredMethod
  <2> HIDE DEF f
  <2>2. Covered(f, program.body[f.symbol], Tail(f.inst))
    BY <2>1, GroupsCover
  <2>3. FrameCovered(f)
    BY <1>6, <2>1, <2>2 DEF FrameCovered
  <2> QED BY <2>3 DEF f
<1> QED BY <1>1, <1>2, <1>3, <1>4, <1>5, <1>6

\* What is checked to its end has had all it asks for.
LEMMA TopDone ==
  ASSUME StateTyped, StackShape, FramesCovered, stack # <<>>, Top.todo = <<>>
  PROVE  /\ Top.role = "signature" => AllAnswered(program.signature[Declaration[Top.symbol]], Tail(Top.inst))
         /\ Top.role = "method_signature" => AllAnswered(program.signature[Top.symbol], Tail(Top.inst))
         /\ Top.role = "drain" /\ Top.inst # <<>> =>
              AllAnswered(program.fields[Head(Top.inst)], Tail(Top.inst))
         /\ Top.role = "body" =>
              /\ AllAnswered(program.signature[Declaration[Top.symbol]], Tail(Top.inst))
              /\ AllAnswered(program.body[Declaration[Top.symbol]], Tail(Top.inst))
         /\ Top.role = "method_body" =>
              /\ AllAnswered(program.signature[Top.symbol], Tail(Top.inst))
              /\ AllAnswered(program.body[Top.symbol], Tail(Top.inst))
         /\ Top.role = "program" =>
              AllAnswered(IF pass = 0 THEN program.signatures ELSE program.bodies, <<>>)
<1> DEFINE f == Top
<1>1. FrameCovered(f) /\ f.todo = <<>>
  BY TopType DEF FramesCovered
<1> HIDE DEF f
<1> SUFFICES
       /\ f.role = "signature" => AllAnswered(program.signature[Declaration[f.symbol]], Tail(f.inst))
       /\ f.role = "method_signature" => AllAnswered(program.signature[f.symbol], Tail(f.inst))
       /\ f.role = "drain" /\ f.inst # <<>> => AllAnswered(program.fields[Head(f.inst)], Tail(f.inst))
       /\ f.role = "body" => /\ AllAnswered(program.signature[Declaration[f.symbol]], Tail(f.inst))
                             /\ AllAnswered(program.body[Declaration[f.symbol]], Tail(f.inst))
       /\ f.role = "method_body" => /\ AllAnswered(program.signature[f.symbol], Tail(f.inst))
                                    /\ AllAnswered(program.body[f.symbol], Tail(f.inst))
       /\ f.role = "program" => AllAnswered(IF pass = 0 THEN program.signatures ELSE program.bodies, <<>>)
  BY DEF f
<1>2. \A uses, arg : Covered(f, uses, arg) => AllAnswered(uses, arg)
  BY <1>1, NothingLeft
<1> QED BY <1>1, <1>2 DEF FrameCovered

\* A step either goes on in the frame on top, enters a covered frame, or leaves.
LEMMA FramesCoveredStep ==
  ASSUME StateTyped, StackShape, QueueOK, OverloadsRegistered, FramesCovered, [Next]_vars, errors' = {}
  PROVE  FramesCovered'
<1>1. AnswersStay /\ program' = program
  BY AnswersStayStep, Growing
<1>2. stack # <<>> => Top \in Frames /\ FrameCovered(Top) /\ FrameOK(Top)
  BY TopType DEF FramesCovered
<1>3. CASE NextUse
  <2>1. /\ stack # <<>> /\ Top.todo # <<>> /\ Head(Top.todo) = <<>>
        /\ stack' = <<GivenUp>> \o Tail(stack) /\ pass' = pass
    BY <1>3 DEF NextUse, Return
  <2>2. PICK g, f : g = GivenUp /\ f = Top
    OBVIOUS
  <2>3. g \in Frames /\ Succeeds(g, f)
    BY <2>1, <2>2, GivenUpFrame DEF Succeeds
  <2>4. FrameCovered(g)'
    BY <1>1, <1>2, <2>1, <2>2, <2>3, SucceedsCovered
  <2> QED BY <1>1, <2>1, <2>2, <2>3, <2>4, ReturnCovered
<1>4. CASE RefuseStruct \/ RefuseFunction
  <2>1. errors' # {}
    BY <1>4 DEF RefuseStruct, RefuseFunction, Refused, Fail
  <2> QED BY <2>1
<1>5. ASSUME RequestStruct \/ CallCached \/ CallNew \/ MethodKnown \/ MethodNew
      PROVE  \E g \in Frames : /\ g = Advanced /\ FrameCovered(g)' /\ stack # <<>> /\ pass' = pass
                               /\ stack # <<>> /\ Top.todo # <<>> /\ Head(Top.todo) # <<>>
  <2>1. PICK r, g, f : r = Request /\ g = Advanced /\ f = Top
    OBVIOUS
  <2>2. Answered(r)' /\ stack # <<>> /\ Top.todo # <<>> /\ Head(Top.todo) # <<>>
    BY <1>5, <2>1, Answering
  <2>3. g \in Frames /\ Succeeds(g, f)
    BY <2>1, <2>2, AdvancedFrame, AdvancedSucceeds
  <2>4. pass' = pass
    BY <1>5 DEF RequestStruct, CallCached, CallNew, MethodKnown, MethodNew
  <2>5. FrameCovered(g)'
    BY <1>1, <1>2, <2>1, <2>2, <2>3, <2>4, SucceedsCovered
  <2> QED BY <2>1, <2>2, <2>3, <2>4, <2>5
<1>6. ASSUME RequestStruct \/ CallCached \/ CallNew \/ MethodKnown \/ MethodNew, Return(Advanced)
      PROVE  FramesCovered'
  <2>1. PICK g \in Frames : g = Advanced /\ FrameCovered(g)' /\ stack # <<>> /\ pass' = pass
    BY <1>5, <1>6
  <2>2. stack' = <<g>> \o Tail(stack)
    BY <1>6, <2>1 DEF Return
  <2> QED BY <1>1, <2>1, <2>2, ReturnCovered
<1>7. ASSUME RequestStruct \/ CallCached \/ CallNew \/ MethodKnown \/ MethodNew,
             NEW f \in Frames, FrameCovered(f), Call(f)
      PROVE  FramesCovered'
  <2>1. PICK g \in Frames : g = Advanced /\ FrameCovered(g)' /\ stack # <<>> /\ pass' = pass
    BY <1>5, <1>7
  <2>2. stack' = <<f, g>> \o Tail(stack)
    BY <1>7, <2>1 DEF Call
  <2>3. FrameCovered(f)'
    BY <1>1, <1>7, <2>1, FrameStaysCovered
  <2> QED BY <1>1, <2>1, <2>2, <2>3, CallCovered
<1>8. CASE RequestStruct
  <2>1. Return(Advanced) \/ Call(DrainFrame)
    BY <1>8 DEF RequestStruct, StartDrain, DrainFrame
  <2>2. PICK d : d = DrainFrame
    OBVIOUS
  <2>3. d \in Frames /\ FrameCovered(d) /\ (Call(DrainFrame) => Call(d))
    BY <2>2, EnteredDrain, FreshCovered
  <2> QED BY <1>6, <1>7, <1>8, <2>1, <2>3
<1>9. CASE CallCached \/ MethodKnown
  <2>1. Return(Advanced)
    BY <1>9 DEF CallCached, MethodKnown
  <2> QED BY <1>6, <1>9, <2>1
<1>10. CASE CallNew
  <2>1. stack # <<>> /\ Top.todo # <<>> /\ Head(Top.todo) # <<>> /\ Request.what = "call"
    BY <1>10 DEF CallNew, Asked
  <2>2. Request.name \in FunctionSymbols /\ Request.inst \in Types
    BY <2>1, AdvancedFrame, RequestKind
  <2>3. PICK f : f = SignatureFrame(Request.name, Request.inst)
    OBVIOUS
  <2>4. f \in Frames /\ FrameCovered(f)
    BY <2>2, <2>3, EnteredSignature, FreshCovered
  <2>5. Call(f)
    BY <1>10, <2>3 DEF CallNew, SignatureFrame, Mono
  <2> QED BY <1>7, <1>10, <2>4, <2>5
<1>11. CASE MethodNew
  <2>1. /\ stack # <<>> /\ Top.todo # <<>> /\ Head(Top.todo) # <<>> /\ Request.what = "method"
        /\ Request.inst \in concrete
    BY <1>11 DEF MethodNew, Asked
  <2>2. Request.name \in Methods /\ Request.inst \in Instances
    BY <2>1, AdvancedFrame, RequestKind DEF StateTyped
  <2>3. PICK f : f = MethodSignatureFrame(Request.name, Request.inst)
    OBVIOUS
  <2>4. f \in Frames /\ FrameCovered(f)
    BY <2>2, <2>3, EnteredMethod, FreshCovered
  <2>5. Call(f)
    BY <1>11, <2>3 DEF MethodNew, MethodSignatureFrame
  <2> QED BY <1>7, <1>11, <2>4, <2>5
<1>12. ASSUME NEW f \in Frames, FrameCovered(f), Return(f), stack # <<>>, pass' = pass
       PROVE  FramesCovered'
  <2>1. FrameCovered(f)'
    BY <1>1, <1>12, FrameStaysCovered
  <2> QED BY <1>1, <1>12, <2>1, ReturnCovered DEF Return
<1>13. CASE StartJob
  <2>1. PICK i \in Pending : Return(JobFrame(mono_queue[i].inst))
    BY <1>13 DEF StartJob, JobFrame
  <2>2. mono_queue[i].inst \in Instances
    <3>1. mono_queue[i] \in Jobs
      BY DEF Pending, StateTyped
    <3> QED BY <3>1 DEF Jobs
  <2>3. stack # <<>> /\ pass' = pass
    BY <1>13, DrainingFacts DEF StartJob
  <2>4. PICK f : f = JobFrame(mono_queue[i].inst)
    OBVIOUS
  <2>5. f \in Frames /\ FrameCovered(f) /\ Return(f)
    BY <2>1, <2>2, <2>4, EnteredJob, FreshCovered
  <2> QED BY <1>12, <2>3, <2>5
<1>14. CASE CheckBody
  <2>1. /\ stack # <<>> /\ Top.role = "signature" /\ Top.todo = <<>> /\ pass' = pass
        /\ Return(BodyFrame(Top.symbol, Top.inst))
    BY <1>14 DEF CheckBody, BodyFrame
  <2>2. Top.symbol \in FunctionSymbols /\ Top.inst \in Names /\ InstanceOf(Top.symbol, Top.inst)
    BY <2>1, TopType DEF Frames, FrameOK
  <2>3. Tail(Top.inst) \in Types
    BY <2>2, FunctionInstance DEF InstanceOf
  <2>4. AllAnswered(program.signature[Declaration[Top.symbol]], Tail(Top.inst))
    BY <2>1, TopDone
  <2>5. PICK f : f = BodyFrame(Top.symbol, Top.inst)
    OBVIOUS
  <2>6. f \in Frames /\ FrameCovered(f) /\ Return(f)
    BY <2>1, <2>2, <2>3, <2>4, <2>5, EnteredBody, FreshCovered
  <2> QED BY <1>12, <2>1, <2>6
<1>15. CASE CheckMethodBody
  <2>1. /\ stack # <<>> /\ Top.role = "method_signature" /\ Top.todo = <<>> /\ pass' = pass
        /\ Return(MethodBodyFrame(Top.symbol, Top.inst))
    BY <1>15 DEF CheckMethodBody, MethodBodyFrame
  <2>2. Top.symbol \in Methods /\ Top.inst \in Instances
    BY <2>1, TopType DEF FrameOK
  <2>3. AllAnswered(program.signature[Top.symbol], Tail(Top.inst))
    BY <2>1, TopDone
  <2>4. PICK f : f = MethodBodyFrame(Top.symbol, Top.inst)
    OBVIOUS
  <2>5. f \in Frames /\ FrameCovered(f) /\ Return(f)
    BY <2>1, <2>2, <2>3, <2>4, EnteredMethod, FreshCovered
  <2> QED BY <1>12, <2>1, <2>5
<1>16. CASE FinishDrain \/ FinishFunction \/ FinishMethod
  <2>1. stack # <<>> /\ stack' = Tail(stack) /\ pass' = pass
    BY <1>16 DEF FinishDrain, Draining, FinishFunction, FinishMethod
  <2> QED BY <1>1, <2>1, PopCovered
<1>17. CASE CheckBodies
  <2>1. stack' = <<DrainFrame, ProgramFrame(program.bodies)>> /\ pass' = 1
    BY <1>17 DEF CheckBodies, DrainFrame, ProgramFrame
  <2>2. ASSUME NEW f, f = DrainFrame PROVE FrameCovered(f)'
    BY <2>2, EnteredDrain DEF FrameCovered
  <2>3. ASSUME NEW f, f = ProgramFrame(program.bodies) PROVE FrameCovered(f)'
    <3>1. f.role = "program" /\ f.todo = Groups(program.bodies, <<>>)
      BY <2>3, ProgramUses, EnteredProgram
    <3>2. Covered(f, program.bodies, <<>>)
      BY <3>1, GroupsCover
    <3>3. PICK uses : uses = program.bodies
      OBVIOUS
    <3>4. Covered(f, uses, <<>>)'
      BY <1>1, <3>2, <3>3 DEF Covered, AnswersStay
    <3> QED BY <1>1, <2>1, <3>1, <3>3, <3>4 DEF FrameCovered
  <2>4. ASSUME NEW i \in DOMAIN stack', NEW f, f = stack'[i] PROVE FrameCovered(f)'
    <3>1. f = DrainFrame \/ f = ProgramFrame(program.bodies)
      BY <2>1, <2>4
    <3> QED BY <2>2, <2>3, <3>1
  <2> QED BY <2>4 DEF FramesCovered
<1>18. CASE FinishProgram
  <2>1. DOMAIN stack' = {}
    BY <1>18 DEF FinishProgram
  <2> QED BY <2>1 DEF FramesCovered
<1>19. CASE UNCHANGED vars
  <2>1. stack' = stack /\ pass' = pass
    BY <1>19 DEF vars
  <2>2. ASSUME NEW i \in DOMAIN stack', NEW f, f = stack'[i] PROVE FrameCovered(f)'
    <3>1. FrameCovered(f)
      BY <2>1, <2>2 DEF FramesCovered
    <3> QED BY <1>1, <2>1, <3>1, FrameStaysCovered
  <2> QED BY <2>2 DEF FramesCovered
<1> QED BY <1>3, <1>4, <1>8, <1>9, <1>10, <1>11, <1>13, <1>14, <1>15, <1>16, <1>17, <1>18, <1>19
        DEF Next, Finished

\* what has been dealt with is answered in full, or a frame is still at it
SignaturesCovered == pass = 1 => AllAnswered(program.signatures, <<>>)
BodiesCovered     == stack = <<>> => pass = 1 /\ AllAnswered(program.bodies, <<>>)

FieldsAnswered(c) == AllAnswered(program.fields[Head(c)], Tail(c))
ConcreteCovered ==
  \A c \in concrete : FieldsAnswered(c) \/ (stack # <<>> /\ Top.role = "drain" /\ Top.inst = c)

Argument(inst) == IF Head(inst) \in Methods THEN Tail(Tail(inst)) ELSE Tail(inst)
InstanceAnswered(inst) ==
  /\ Head(inst) \in Templates
  /\ AllAnswered(program.signature[Head(inst)], Argument(inst))
  /\ AllAnswered(program.body[Head(inst)], Argument(inst))
Checks(f, inst) ==
  \/ f.role = "body" /\ f.inst = inst
  \/ f.role = "method_body" /\ <<f.symbol>> \o f.inst = inst
InstancesCovered ==
  \A k \in DOMAIN mono_instances :
    InstanceAnswered(mono_instances[k]) \/ \E i \in DOMAIN stack : Checks(stack[i], mono_instances[k])

\* Answers stay, so what was answered in full stays so.
LEMMA AllStay ==
  ASSUME AnswersStay, program' = program
  PROVE  /\ \A uses, arg : AllAnswered(uses, arg) => AllAnswered(uses, arg)'
         /\ \A c : FieldsAnswered(c) => FieldsAnswered(c)'
         /\ \A inst : InstanceAnswered(inst) => InstanceAnswered(inst)'
<1>1. ASSUME NEW uses, NEW arg, AllAnswered(uses, arg) PROVE AllAnswered(uses, arg)'
  BY <1>1 DEF AnswersStay, AllAnswered
<1>2. ASSUME NEW c, FieldsAnswered(c) PROVE FieldsAnswered(c)'
  BY <1>1, <1>2 DEF FieldsAnswered
<1>3. ASSUME NEW inst, InstanceAnswered(inst) PROVE InstanceAnswered(inst)'
  BY <1>1, <1>3 DEF InstanceAnswered, Argument
<1> QED BY <1>1, <1>2, <1>3

\* Signatures are answered when the first pass ends, bodies when the second does.
LEMMA ProgramCoveredStep ==
  ASSUME StateTyped, StackShape, FramesCovered, SignaturesCovered, BodiesCovered, [Next]_vars
  PROVE  SignaturesCovered' /\ BodiesCovered'
<1>1. AnswersStay /\ program' = program
  BY AnswersStayStep, Growing
<1>2. ASSUME pass' = pass, stack' = <<>> => stack = <<>> \/ (AtProgram /\ pass = 1)
      PROVE  SignaturesCovered' /\ BodiesCovered'
  <2>1. PICK s, b : s = program.signatures /\ b = program.bodies
    OBVIOUS
  <2>2. pass' = 1 => AllAnswered(s, <<>>)'
    BY <1>1, <1>2, <2>1, AllStay DEF SignaturesCovered
  <2>3. stack' = <<>> => pass' = 1 /\ AllAnswered(b, <<>>)'
    <3>1. stack' = <<>> => pass = 1 /\ AllAnswered(b, <<>>)
      BY <1>2, <2>1, TopDone DEF BodiesCovered, AtProgram
    <3> QED BY <1>1, <1>2, <3>1, AllStay
  <2>4. s = program'.signatures /\ b = program'.bodies
    BY <1>1, <2>1
  <2>5. SignaturesCovered'
    BY <2>2, <2>4 DEF SignaturesCovered
  <2>6. BodiesCovered'
    BY <2>3, <2>4 DEF BodiesCovered
  <2> QED BY <2>5, <2>6
<1>3. StateTyped' /\ StackShape'
  BY TypeStep
<1>4. Len(stack) \in Nat /\ Len(stack') \in Nat
      /\ (stack = <<>> <=> Len(stack) = 0) /\ (stack' = <<>> <=> Len(stack') = 0)
  BY <1>3 DEF StateTyped
<1>5. CASE NextUse \/ RefuseStruct \/ RefuseFunction \/ StartJob \/ CallCached \/ MethodKnown
           \/ RequestStruct \/ CallNew \/ MethodNew \/ CheckBody \/ CheckMethodBody
  <2>1. Kept \/ \E f : Entered(f) \/ Turned(f)
    BY <1>5, Moves
  <2>2. stack' = <<>> => stack = <<>>
    BY <1>4, <2>1 DEF Kept, Entered, Turned
  <2>3. pass' = pass
    BY <1>5 DEF NextUse, RefuseStruct, RefuseFunction, Refused, RequestStruct, StartJob, CallCached,
       CallNew, CheckBody, MethodKnown, MethodNew, CheckMethodBody
  <2> QED BY <1>2, <2>2, <2>3
<1>6. CASE FinishDrain \/ FinishFunction \/ FinishMethod
  <2>1. Left /\ pass' = pass /\ stack # <<>> /\ Top.role # "program"
    BY <1>6, Moves DEF FinishDrain, Draining, FinishFunction, FinishMethod
  <2>2. Len(stack) # 1
    BY <2>1, TopType DEF StackShape, ProgramLast
  <2>3. stack' # <<>>
    BY <1>4, <2>1, <2>2 DEF Left
  <2> QED BY <1>2, <2>1, <2>3
<1>7. CASE CheckBodies
  <2>1. pass = 0 /\ stack # <<>> /\ Top.role = "program" /\ Top.todo = <<>> /\ stack' # <<>>
    BY <1>7 DEF CheckBodies, AtProgram
  <2>2. PICK s : s = program.signatures
    OBVIOUS
  <2>3. AllAnswered(s, <<>>)
    BY <2>1, <2>2, TopDone
  <2>4. AllAnswered(s, <<>>)'
    BY <1>1, <2>3, AllStay
  <2> QED BY <1>1, <2>1, <2>2, <2>4 DEF SignaturesCovered, BodiesCovered
<1>8. CASE FinishProgram
  BY <1>2, <1>8 DEF FinishProgram
<1>9. CASE UNCHANGED vars
  BY <1>2, <1>9 DEF vars
<1> QED BY <1>5, <1>6, <1>7, <1>8, <1>9 DEF Next, Finished

\* A frame that may not be left goes on checking what it checks.
LEMMA ChecksStay ==
  ASSUME StateTyped, StackShape, [Next]_vars, NEW inst, NEW i \in DOMAIN stack, Checks(stack[i], inst)
  PROVE  (\E j \in DOMAIN stack' : Checks(stack'[j], inst))
         \/ ((FinishFunction \/ FinishMethod) /\ i = 1)
<1>1. StateTyped'
  BY TypeStep
<1>2. ASSUME \E j \in DOMAIN stack' : Like(stack'[j], stack[i])
      PROVE  \E j \in DOMAIN stack' : Checks(stack'[j], inst)
  BY <1>2 DEF Like, Checks
<1>3. stack # <<>> /\ Top = stack[1] /\ DOMAIN stack = 1..Len(stack) /\ Len(stack) \in Nat
  <2>1. stack # <<>>
    OBVIOUS
  <2> QED BY <2>1, TopType DEF StateTyped
<1>4. stack[i].role \in {"body", "method_body"}
  BY DEF Checks
<1>5. CASE Kept \/ \E f : Entered(f)
  BY <1>1, <1>2, <1>5, FramesStay
<1>6. CASE FinishDrain
  <2>1. i # 1 /\ Left
    BY <1>3, <1>4, <1>6, Moves DEF FinishDrain, Draining
  <2> QED BY <1>1, <1>2, <2>1, FramesStay
<1>7. CASE FinishFunction \/ FinishMethod
  BY <1>1, <1>2, <1>7, Moves, FramesStay
<1>8. CASE CheckBody \/ CheckMethodBody
  <2>1. (\E f : Turned(f)) /\ Top.role \in {"signature", "method_signature"}
    BY <1>8, Moves DEF CheckBody, CheckMethodBody
  <2>2. i # 1
    BY <1>3, <1>4, <2>1
  <2> QED BY <1>1, <1>2, <2>1, <2>2, FramesStay
<1>9. CASE CheckBodies \/ FinishProgram
  <2>1. Top.role = "program" /\ Len(stack) = 1
    <3>1. stack[1].role = "program" /\ 1 \in DOMAIN stack
      BY <1>3, <1>9 DEF CheckBodies, FinishProgram, AtProgram
    <3> QED BY <1>3, <3>1 DEF StackShape, ProgramLast
  <2> QED BY <1>3, <1>4, <2>1
<1>10. CASE UNCHANGED vars
  BY <1>10 DEF vars
<1> QED BY <1>5, <1>6, <1>7, <1>8, <1>9, <1>10, Moves DEF Next, Finished

\* The drain's frame stays on top until the fields of its job are done.
LEMMA ConcreteCoveredStep ==
  ASSUME StateTyped, StackShape, FramesCovered, ConcreteCovered, [Next]_vars
  PROVE  ConcreteCovered'
<1>1. AnswersStay /\ program' = program
  BY AnswersStayStep, Growing
<1>2. ASSUME NEW c \in concrete,
             stack # <<>> /\ Top.role = "drain" /\ Top.inst = c =>
               FieldsAnswered(c) \/ (stack' # <<>> /\ Top'.role = "drain" /\ Top'.inst = c)
      PROVE  FieldsAnswered(c)' \/ (stack' # <<>> /\ Top'.role = "drain" /\ Top'.inst = c)
  <2>1. FieldsAnswered(c) \/ (stack' # <<>> /\ Top'.role = "drain" /\ Top'.inst = c)
    BY <1>2 DEF ConcreteCovered
  <2> QED BY <1>1, <2>1, AllStay
<1>3. ASSUME concrete' = concrete,
             stack # <<>> /\ Top.role = "drain" =>
               stack' # <<>> /\ Top'.role = "drain" /\ Top'.inst = Top.inst
      PROVE  ConcreteCovered'
  <2>1. ASSUME NEW c \in concrete
        PROVE  FieldsAnswered(c)' \/ (stack' # <<>> /\ Top'.role = "drain" /\ Top'.inst = c)
    BY <1>2, <1>3
  <2> QED BY <1>3, <2>1 DEF ConcreteCovered
<1>4. ASSUME Draining, NEW c \in concrete, Top.inst = c PROVE FieldsAnswered(c)
  <2>1. c # <<>>
    BY DEF StateTyped, Instances
  <2> QED BY <1>4, <2>1, TopDone DEF Draining, FieldsAnswered
<1>5. ASSUME stack # <<>>, NEW f \in Frames, stack' = <<f>> \o Tail(stack)
      PROVE  stack' # <<>> /\ Top' = f
  BY <1>5, Replaced DEF StateTyped, Top
<1>6. CASE NextUse \/ RefuseStruct \/ RefuseFunction
  <2>1. /\ concrete' = concrete /\ stack # <<>> /\ Top.todo # <<>> /\ stack' = <<GivenUp>> \o Tail(stack)
    BY <1>6 DEF NextUse, RefuseStruct, RefuseFunction, Refused, Asked, Fail, Return, structVars
  <2> QED BY <1>3, <1>5, <2>1, GivenUpFrame
<1>7. CASE RequestStruct
  <2>1. concrete' = concrete /\ stack # <<>> /\ Top.todo # <<>> /\ Head(Top.todo) # <<>>
    BY <1>7 DEF RequestStruct, Asked
  <2>2. Top.role = "drain" => stack' = <<Advanced>> \o Tail(stack)
    BY <1>7, <2>1 DEF RequestStruct, StartDrain, Return, StackShape, DrainFlag
  <2> QED BY <1>3, <1>5, <2>1, <2>2, AdvancedFrame
<1>8. CASE StartJob
  <2>1. PICK i \in Pending : /\ concrete' = concrete \cup {mono_queue[i].inst}
                             /\ Return(JobFrame(mono_queue[i].inst)) /\ Draining
    BY <1>8 DEF StartJob, JobFrame
  <2>2. mono_queue[i].inst \in Instances
    <3>1. mono_queue[i] \in Jobs
      BY DEF Pending, StateTyped
    <3> QED BY <3>1 DEF Jobs
  <2>3. PICK t : t = mono_queue[i].inst
    OBVIOUS
  <2>4. stack' # <<>> /\ Top' = JobFrame(t) /\ Top'.role = "drain" /\ Top'.inst = t
    BY <1>5, <2>1, <2>2, <2>3, EnteredJob DEF Return, Draining
  <2>5. ASSUME NEW c \in concrete
        PROVE  FieldsAnswered(c)' \/ (stack' # <<>> /\ Top'.role = "drain" /\ Top'.inst = c)
    BY <1>2, <1>4, <2>1
  <2> QED BY <2>1, <2>3, <2>4, <2>5 DEF ConcreteCovered
<1>9. CASE FinishDrain
  <2>1. concrete' = concrete /\ Draining
    BY <1>9 DEF FinishDrain, structVars
  <2>2. ASSUME NEW c \in concrete
        PROVE  FieldsAnswered(c)' \/ (stack' # <<>> /\ Top'.role = "drain" /\ Top'.inst = c)
    BY <1>2, <1>4, <2>1
  <2> QED BY <2>1, <2>2 DEF ConcreteCovered
<1>10. CASE CallCached \/ CallNew \/ MethodKnown \/ MethodNew
  <2>1. /\ concrete' = concrete /\ stack # <<>> /\ Top.todo # <<>> /\ Head(Top.todo) # <<>>
        /\ Request.what # "struct"
    BY <1>10 DEF CallCached, CallNew, MethodKnown, MethodNew, Asked, structVars
  <2>2. Top.role # "drain"
    BY <2>1, Caller
  <2> QED BY <1>3, <2>1, <2>2
<1>11. CASE CheckBody \/ CheckMethodBody \/ FinishFunction \/ FinishMethod \/ CheckBodies \/ FinishProgram
  <2>1. concrete' = concrete /\ Top.role # "drain"
    BY <1>11 DEF CheckBody, CheckMethodBody, FinishFunction, FinishMethod, CheckBodies, FinishProgram,
       AtProgram, structVars
  <2> QED BY <1>3, <2>1
<1>12. CASE UNCHANGED vars
  <2>1. concrete' = concrete /\ stack' = stack
    BY <1>12 DEF vars, structVars
  <2>2. Top' = Top
    BY <2>1 DEF Top
  <2> QED BY <1>3, <2>1, <2>2
<1> QED BY <1>6, <1>7, <1>8, <1>9, <1>10, <1>11, <1>12 DEF Next, Finished

\* An instance is handed over with the frame that checks its body, and the frame
\* is left when the body is done.
LEMMA InstancesCoveredStep ==
  ASSUME StateTyped, StackShape, FramesCovered, InstancesCovered, [Next]_vars
  PROVE  InstancesCovered'
<1>1. AnswersStay /\ program' = program /\ StateTyped'
  BY AnswersStayStep, Growing, TypeStep
<1>2. ASSUME FinishFunction \/ FinishMethod, NEW inst, Checks(Top, inst) PROVE InstanceAnswered(inst)
  <2>1. stack # <<>> /\ Top.todo = <<>>
    BY <1>2 DEF FinishFunction, FinishMethod
  <2>2. CASE Top.role = "body" /\ Top.inst = inst
    <3>1. Top.symbol \in FunctionSymbols /\ InstanceOf(Top.symbol, Top.inst)
      BY <2>1, <2>2, TopType DEF FrameOK
    <3>2. Head(inst) = Declaration[Top.symbol]
      BY <2>2, <3>1, FunctionInstance DEF InstanceOf
    <3>3. Head(inst) \notin Methods
      BY <3>1, <3>2, TemplatesAssumption DEF FunctionTemplates
    <3>4. Head(inst) \in Templates
      BY <3>1, <3>2 DEF Templates, FunctionTemplates
    <3> QED BY <2>1, <2>2, <3>2, <3>3, <3>4, TopDone DEF InstanceAnswered, Argument
  <2>3. CASE Top.role = "method_body" /\ <<Top.symbol>> \o Top.inst = inst
    <3>1. Top.symbol \in Methods /\ Top.inst \in Instances
      BY <2>1, <2>3, TopType DEF FrameOK
    <3>2. Head(inst) = Top.symbol /\ Tail(inst) = Top.inst
      BY <2>3, <3>1, MethodInstance
    <3>3. Head(inst) \in Templates
      BY <3>1, <3>2 DEF Templates
    <3> QED BY <2>1, <2>3, <3>1, <3>2, <3>3, TopDone DEF InstanceAnswered, Argument
  <2> QED BY <1>2, <2>2, <2>3 DEF Checks
<1>3. ASSUME NEW inst, InstanceAnswered(inst) \/ \E i \in DOMAIN stack : Checks(stack[i], inst)
      PROVE  InstanceAnswered(inst)' \/ \E i \in DOMAIN stack' : Checks(stack'[i], inst)
  <2>1. CASE InstanceAnswered(inst)
    BY <1>1, <2>1, AllStay
  <2>2. ASSUME NEW i \in DOMAIN stack, Checks(stack[i], inst)
        PROVE  InstanceAnswered(inst)' \/ \E j \in DOMAIN stack' : Checks(stack'[j], inst)
    <3>1. CASE (FinishFunction \/ FinishMethod) /\ i = 1
      <4>1. Checks(Top, inst)
        <5>1. Top = stack[1]
          BY <3>1, TopType DEF FinishFunction, FinishMethod
        <5> QED BY <2>2, <3>1, <5>1
      <4> QED BY <1>1, <1>2, <3>1, <4>1, AllStay
    <3> QED BY <2>2, <3>1, ChecksStay
  <2> QED BY <1>3, <2>1, <2>2
<1>4. ASSUME NEW inst, mono_instances' = Append(mono_instances, inst),
             \E i \in DOMAIN stack' : Checks(stack'[i], inst)
      PROVE  InstancesCovered'
  <2>1. mono_instances \in Seq(Names)
    BY DEF StateTyped
  <2>2. \A k \in DOMAIN mono_instances' :
          (k \in DOMAIN mono_instances /\ mono_instances'[k] = mono_instances[k])
          \/ mono_instances'[k] = inst
    BY <1>4, <2>1
  <2>3. ASSUME NEW k \in DOMAIN mono_instances', NEW t, t = mono_instances'[k]
        PROVE  InstanceAnswered(t)' \/ \E i \in DOMAIN stack' : Checks(stack'[i], t)
    <3>1. CASE t = inst
      BY <1>4, <3>1
    <3>2. CASE t # inst
      <4>1. k \in DOMAIN mono_instances /\ mono_instances[k] = t
        BY <2>2, <2>3, <3>2
      <4>2. InstanceAnswered(t) \/ \E i \in DOMAIN stack : Checks(stack[i], t)
        BY <4>1 DEF InstancesCovered
      <4> QED BY <1>3, <4>2
    <3> QED BY <3>1, <3>2
  <2> QED BY <2>3 DEF InstancesCovered, Checks
<1>5. CASE mono_instances' = mono_instances
  <2>1. ASSUME NEW k \in DOMAIN mono_instances, NEW t, t = mono_instances[k]
        PROVE  InstanceAnswered(t)' \/ \E i \in DOMAIN stack' : Checks(stack'[i], t)
    <3>1. InstanceAnswered(t) \/ \E i \in DOMAIN stack : Checks(stack[i], t)
      BY <2>1 DEF InstancesCovered
    <3> QED BY <1>3, <3>1
  <2> QED BY <1>5, <2>1 DEF InstancesCovered, Checks
<1>6. CASE CheckBody
  <2>1. /\ stack # <<>> /\ Top.role = "signature" /\ mono_instances' = Append(mono_instances, Top.inst)
        /\ Turned(BodyFrame(Top.symbol, Top.inst))
    BY <1>6, Moves DEF CheckBody, Register
  <2>2. Top.symbol \in FunctionSymbols /\ Top.inst \in Names /\ InstanceOf(Top.symbol, Top.inst)
    BY <2>1, TopType DEF Frames, FrameOK
  <2>3. Tail(Top.inst) \in Types
    BY <2>2, FunctionInstance DEF InstanceOf
  <2>4. BodyFrame(Top.symbol, Top.inst).role = "body" /\ BodyFrame(Top.symbol, Top.inst).inst = Top.inst
    BY <2>2, <2>3, EnteredBody
  <2>5. 1 \in DOMAIN stack' /\ Checks(stack'[1], Top.inst)
    <3>1. 1 \in DOMAIN stack'
      BY <1>1, <2>1, TopType DEF Turned, StateTyped
    <3>2. stack'[1].role = "body" /\ stack'[1].inst = Top.inst
      BY <2>1, <2>4 DEF Turned, Like
    <3> QED BY <3>1, <3>2 DEF Checks
  <2> QED BY <1>4, <2>1, <2>5
<1>7. CASE CheckMethodBody
  <2>1. /\ stack # <<>> /\ Top.role = "method_signature"
        /\ mono_instances' = Append(mono_instances, <<Top.symbol>> \o Top.inst)
        /\ Turned(MethodBodyFrame(Top.symbol, Top.inst))
    BY <1>7, Moves DEF CheckMethodBody, Register
  <2>2. Top.symbol \in Methods /\ Top.inst \in Instances
    BY <2>1, TopType DEF FrameOK
  <2>3. PICK f : f = MethodBodyFrame(Top.symbol, Top.inst)
    OBVIOUS
  <2>4. f.role = "method_body" /\ f.inst = Top.inst /\ f.symbol = Top.symbol /\ Turned(f)
    BY <2>1, <2>2, <2>3, EnteredMethod
  <2>5. 1 \in DOMAIN stack'
    BY <1>1, <2>1, TopType DEF Turned, StateTyped
  <2>6. stack'[1].role = "method_body" /\ stack'[1].inst = Top.inst /\ stack'[1].symbol = Top.symbol
    BY <2>4 DEF Turned, Like
  <2>7. PICK inst : inst = <<Top.symbol>> \o Top.inst
    OBVIOUS
  <2>8. Checks(stack'[1], inst)
    BY <2>6, <2>7 DEF Checks
  <2> QED BY <1>4, <2>1, <2>5, <2>7, <2>8
<1> QED BY <1>5, <1>6, <1>7 DEF Next, NextUse, RefuseStruct, RefuseFunction, Refused, RequestStruct, StartJob,
     FinishDrain, CallCached, CallNew, FinishFunction, MethodKnown, MethodNew,
     FinishMethod, CheckBodies, FinishProgram, Finished, funVars, vars

\* once there is an error, the rest of its use is given up and nothing is promised
ClosedOK ==
  /\ OverloadsRegistered
  /\ errors = {} => /\ FramesCovered
                    /\ SignaturesCovered /\ BodiesCovered /\ ConcreteCovered /\ InstancesCovered

\* At first the program asks for all of its signatures.
LEMMA ClosedInit == Init => ClosedOK
<1> SUFFICES ASSUME Init PROVE ClosedOK
  OBVIOUS
<1>1. stack = <<ProgramFrame(program.signatures)>> /\ pass = 0 /\ concrete = {} /\ mono_instances = <<>>
  BY DEF Init, ProgramFrame
<1>2. PICK f : f = ProgramFrame(program.signatures)
  OBVIOUS
<1>3. f.role = "program" /\ f.todo = Groups(program.signatures, <<>>)
  <2>1. program.signatures \in Seq(Uses)
    BY ProgramsAssumption, EnteredType DEF Init
  <2> QED BY <1>2, <2>1, EnteredProgram
<1>4. FrameCovered(f)
  BY <1>1, <1>3, GroupsCover DEF FrameCovered
<1>5. FramesCovered
  <2>1. \A i \in DOMAIN stack : stack[i] = f
    BY <1>1, <1>2
  <2> QED BY <1>4, <2>1 DEF FramesCovered
<1>6. SignaturesCovered /\ BodiesCovered /\ ConcreteCovered /\ InstancesCovered
  BY <1>1 DEF SignaturesCovered, BodiesCovered, ConcreteCovered, InstancesCovered
<1> QED BY <1>5, <1>6, OverloadsInit DEF ClosedOK

\* No step that reports nothing forgets a request.
LEMMA ClosedStep ==
  ASSUME StateTyped, StackShape, QueueOK, ClosedOK, [Next]_vars
  PROVE  ClosedOK'
<1>1. errors \subseteq errors'
  BY Growing
<1>2. OverloadsRegistered'
  BY OverloadsStep DEF ClosedOK
<1>3. ASSUME errors' = {}
      PROVE  /\ FramesCovered'
             /\ SignaturesCovered' /\ BodiesCovered' /\ ConcreteCovered' /\ InstancesCovered'
  <2>1. /\ OverloadsRegistered /\ FramesCovered
        /\ SignaturesCovered /\ BodiesCovered /\ ConcreteCovered /\ InstancesCovered
    BY <1>1, <1>3 DEF ClosedOK
  <2> QED BY <1>3, <2>1, FramesCoveredStep, ProgramCoveredStep, ConcreteCoveredStep, InstancesCoveredStep
<1> QED BY <1>2, <1>3 DEF ClosedOK

-----------------------------------------------------------------------------
(* The inductive invariant and what it gives.                              *)

IInv == StateTyped /\ StackShape /\ Distinct /\ QueueOK /\ DepthOK /\ ClosedOK

\* The invariant holds in every reachable state.
LEMMA InstantiationInvariant == Spec => []IInv
<1>1. Init => IInv
  BY TypeInit, DistinctInit, QueueInit, DepthInit, ClosedInit DEF IInv
<1>2. IInv /\ [Next]_vars => IInv'
  BY TypeStep, DistinctStep, QueueStep, DepthStep, ClosedStep DEF IInv
<1> QED BY <1>1, <1>2, PTL DEF Spec

\* While bodies are checked and no drain is under way, every struct instance that
\* was asked for is concrete.
THEOREM QueueAlwaysSettled == Spec => []SettledOutsideDrain
<1>1. IInv => SettledOutsideDrain
  BY DEF IInv, QueueOK
<1> QED BY <1>1, InstantiationInvariant, PTL

\* The depth counter is never below the number of instantiations in progress, so
\* that the limit stops a program that instantiates itself, and exceeds it by no
\* more than the structs queued.
THEOREM DepthAlwaysAccounts == Spec => []DepthAccountsForNesting
<1>1. IInv => DepthAccountsForNesting
  BY DEF IInv, DepthOK
<1> QED BY <1>1, InstantiationInvariant, PTL

\* The flag is set exactly while one drain is on the stack.
LEMMA OneDrain ==
  ASSUME StateTyped, StackShape
  PROVE  Cardinality({i \in DOMAIN stack : stack[i].role = "drain"}) = IF is_draining THEN 1 ELSE 0
<1> DEFINE D == {i \in DOMAIN stack : stack[i].role = "drain"}
<1>1. D \subseteq {1}
  BY DEF StackShape, DrainFirst
<1>2. stack # <<>> => 1 \in DOMAIN stack /\ Top = stack[1]
  BY TopType
<1>3. is_draining => D = {1}
  BY <1>1, <1>2 DEF StackShape, DrainFlag
<1>4. ~is_draining => D = {}
  <2>1. ASSUME ~is_draining, 1 \in D PROVE FALSE
    <3>1. stack # <<>>
      BY <2>1
    <3> QED BY <1>2, <2>1, <3>1 DEF StackShape, DrainFlag
  <2> QED BY <1>1, <2>1
<1>5. Cardinality({1}) = 1 /\ Cardinality({}) = 0
  BY FS_EmptySet, FS_Singleton
<1> HIDE DEF D
<1> QED BY <1>3, <1>4, <1>5 DEF D

\* The state is well typed, an instance is queued once, one drain is under way at
\* most, and no function or method is entered again for an instance of it that is
\* being checked.
THEOREM NeverReentered == Spec => []NoReentry
<1>1. ASSUME IInv PROVE NoReentry
  <2>1. StateTyped /\ StackShape /\ NoTwins /\ QueuedOnce /\ ConcreteFrom /\ DepthAccountsForNesting
    BY <1>1 DEF IInv, Distinct, QueueOK, DepthOK
  <2>2. pass \in {0, 1} /\ errors \subseteq {"arity", "depth", "redeclared"}
    BY <2>1 DEF StateTyped
  <2>3. IsInjective([i \in DOMAIN mono_queue |-> mono_queue[i].inst])
    BY <2>1 DEF IsInjective, QueuedOnce
  <2>4. \A i \in DOMAIN mono_queue : Head(mono_queue[i].inst) \in Structs
    <3>1. \A i \in DOMAIN mono_queue : mono_queue[i] \in Jobs
      BY <2>1 DEF StateTyped
    <3> QED BY <3>1 DEF Jobs, Instances
  <2>5. concrete \subseteq {mono_queue[i].inst : i \in DOMAIN mono_queue}
    BY <2>1 DEF ConcreteFrom, Queued
  <2>6. current_mono_depth \in 0..MaxMonoDepth + 1
    <3>1. Nested \in Nat
      BY <2>1, NestedFinite DEF StateTyped, Nested, NestedAt
    <3>2. current_mono_depth \in Int /\ current_mono_depth <= MaxMonoDepth + 1
      BY <2>1 DEF StateTyped, Depths
    <3> QED BY <2>1, <3>1, <3>2, TemplatesAssumption DEF DepthAccountsForNesting
  <2>7. \A i \in DOMAIN stack : stack[i].role \in Roles
    <3>1. \A i \in DOMAIN stack : stack[i] \in Frames
      BY <2>1 DEF StateTyped
    <3> QED BY <3>1 DEF Frames
  <2>8. Cardinality({i \in DOMAIN stack : stack[i].role = "drain"}) = IF is_draining THEN 1 ELSE 0
    BY <2>1, OneDrain
  <2>9. TypeOK
    BY <2>2, <2>3, <2>4, <2>5, <2>6, <2>7, <2>8 DEF TypeOK
  <2> QED BY <2>1, <2>9 DEF NoReentry, NoTwins
<1> QED BY <1>1, InstantiationInvariant, PTL

\* Nothing is forgotten: when a program has been checked without an error, whatever
\* its declarations and each of its instances mention has been instantiated.
THEOREM InstancesAlwaysClosed == Spec => []InstancesAreClosed
<1>1. ASSUME IInv, Done, errors = {}
      PROVE  /\ AllSatisfied(program.signatures, <<>>)
             /\ AllSatisfied(program.bodies, <<>>)
             /\ \A inst \in concrete : AllSatisfied(program.fields[Head(inst)], Tail(inst))
             /\ \A i \in DOMAIN mono_instances :
                  LET inst == mono_instances[i]
                      arg  == IF Head(inst) \in Methods THEN Tail(Tail(inst)) ELSE Tail(inst)
                  IN  AllSatisfied(program.signature[Head(inst)] \o program.body[Head(inst)], arg)
  <2>1. /\ StateTyped /\ StackShape /\ QueueOK /\ stack = <<>>
        /\ SignaturesCovered /\ BodiesCovered /\ ConcreteCovered /\ InstancesCovered
    BY <1>1 DEF IInv, ClosedOK, Done
  <2>2. pass = 1 /\ Pending = {} /\ DOMAIN stack = {}
    <3>1. pass = 1 /\ ~is_draining
      BY <2>1 DEF BodiesCovered, StackShape, DrainFlag
    <3> QED BY <2>1, <3>1 DEF QueueOK, SettledOutsideDrain
  <2>3. ASSUME NEW r, Answered(r) PROVE Satisfied(r)
    <3>1. Queued(r.inst) => r.inst \in concrete
      BY <2>2 DEF Queued, Pending
    <3> QED BY <2>2, <2>3, <3>1 DEF Answered, Satisfied
  <2>4. ASSUME NEW uses, NEW arg, AllAnswered(uses, arg) PROVE AllSatisfied(uses, arg)
    BY <2>3, <2>4 DEF AllAnswered, AllSatisfied
  <2>5. AllSatisfied(program.signatures, <<>>) /\ AllSatisfied(program.bodies, <<>>)
    BY <2>1, <2>2, <2>4 DEF SignaturesCovered, BodiesCovered
  <2>6. \A inst \in concrete : AllSatisfied(program.fields[Head(inst)], Tail(inst))
    BY <2>1, <2>4 DEF ConcreteCovered, FieldsAnswered
  <2>7. ASSUME NEW s \in Seq(Uses), NEW b \in Seq(Uses), NEW arg, AllSatisfied(s, arg), AllSatisfied(b, arg)
        PROVE  AllSatisfied(s \o b, arg)
    <3>1. ASSUME NEW i \in DOMAIN (s \o b)
          PROVE  (\E j \in DOMAIN s : (s \o b)[i] = s[j]) \/ (\E j \in DOMAIN b : (s \o b)[i] = b[j])
      <4>1. i \in 1..Len(s) + Len(b) /\ Len(s) \in Nat /\ Len(b) \in Nat
        OBVIOUS
      <4>2. CASE i <= Len(s)
        BY <4>1, <4>2
      <4>3. CASE i > Len(s)
        <5>1. i - Len(s) \in DOMAIN b /\ (s \o b)[i] = b[i - Len(s)]
          BY <4>1, <4>3
        <5> QED BY <5>1
      <4> QED BY <4>1, <4>2, <4>3
    <3> QED BY <2>7, <3>1 DEF AllSatisfied
  <2>8. ASSUME NEW i \in DOMAIN mono_instances, NEW inst, inst = mono_instances[i]
        PROVE  AllSatisfied(program.signature[Head(inst)] \o program.body[Head(inst)], Argument(inst))
    <3>1. InstanceAnswered(inst)
      BY <2>1, <2>2, <2>8 DEF InstancesCovered
    <3>2. Head(inst) \in Templates
      BY <3>1 DEF InstanceAnswered
    <3>3. program.signature[Head(inst)] \in Seq(Uses) /\ program.body[Head(inst)] \in Seq(Uses)
      BY <2>1, <3>2, ProgramUses, EnteredType
    <3> QED BY <2>4, <2>7, <3>1, <3>3 DEF InstanceAnswered
  <2> QED BY <2>5, <2>6, <2>8 DEF Argument
<1>2. IInv => InstancesAreClosed
  BY <1>1 DEF InstancesAreClosed
<1> QED BY <1>2, InstantiationInvariant, PTL
=============================================================================
