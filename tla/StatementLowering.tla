------------------------- MODULE StatementLowering -------------------------
(***************************************************************************)
(* codegen_statement (src/codegen/codegen_stmt.c): how a function body with *)
(* blocks, conditionals, loops, early exits and defer statements becomes a *)
(* graph of basic blocks, and what that graph does when it runs.           *)
(*                                                                         *)
(* A statement is a record with its kind and its parts; it is identified   *)
(* by its path in the function body, the sequence of child indices.  An    *)
(* expression statement is only the event of having been reached.  A basic *)
(* block is labelled by the path of the statement that appends it and the  *)
(* role it has there.  The condition of a conditional or a loop is not     *)
(* modelled: it yields either value, TRUE at most MaxTrue times in a run.  *)
(***************************************************************************)
EXTENDS Integers, Sequences, SequencesExt

CONSTANTS
  Bodies,    \* the function bodies considered, each a block
  MaxTrue    \* how often a condition may yield TRUE in one run

VARIABLES
  code,      \* label |-> instructions of the generated function
  body,      \* the function body it was generated from
  pc,        \* <<label, index>> of the next instruction
  dest,      \* exit_dest_var
  retVal,    \* ret_val_var: path of the return statement that wrote it last
  trace,     \* the events so far: <<"do", path>> and <<"test", path, value>>
  result     \* <<"running">>, then <<"end">> or <<"value", path>>

vars == <<code, body, pc, dest, retVal, trace, result>>

ASSUME BoundAssumption == MaxTrue \in Nat

NONE == <<>>   \* a NULL basic block; the value returned without a return

-----------------------------------------------------------------------------
(* Instructions and where they go.                                         *)

Do(path)              == [op |-> "do", path |-> path]
SetDest(v)            == [op |-> "dest", v |-> v]
SetRet(path)          == [op |-> "ret_val", path |-> path]
Br(to)                == [op |-> "br", to |-> to]
CondBr(path, yes, no) == [op |-> "cond", path |-> path, yes |-> yes, no |-> no]
Switch(cases, other)  == [op |-> "switch", cases |-> cases, other |-> other]
Return(v)             == [op |-> "return", v |-> v]

IsTerminator(i) == i.op \in {"br", "cond", "switch", "return"}

Emit(st, ins)  == [st EXCEPT !.code[st.at] = Append(@, ins)]
Blocks(st, ls) == [st EXCEPT !.code = [l \in DOMAIN @ \cup ls |->
                                         IF l \in ls THEN <<>> ELSE @[l]]]
At(st, label)  == [st EXCEPT !.at = label]

Terminated(st) == st.code[st.at] # <<>> /\ IsTerminator(Last(st.code[st.at]))

Goto(st, label) == IF Terminated(st) THEN st ELSE Emit(st, Br(label))

-----------------------------------------------------------------------------
(* The statements.  "st" is the part of CodegenContext they use: the code, *)
(* the insert block, current_cleanup_bb, loop_end_bb, loop_cond_bb and     *)
(* deferred_actions.                                                       *)

GenReturn(st, p) ==
  LET stored == Emit(Emit(st, SetRet(p)), SetDest(0))
  IN  Emit(stored, IF st.cleanup # NONE THEN Br(st.cleanup) ELSE Return("ret_val"))

\* break and continue: outside a loop they generate nothing
GenJump(st, target, v) ==
  IF target = NONE THEN st
  ELSE Emit(Emit(st, SetDest(v)), Br(IF st.cleanup # NONE THEN st.cleanup ELSE target))

GenDefer(st, s, p) ==
  LET label == <<p, "defer">>
  IN  [Blocks(st, {label}) EXCEPT
         !.defers = Append(@, [body |-> s.body, path |-> p, bb |-> label]),
         !.cleanup = label]

\* Mutant: a return leaves from the inner block at once.
ExitCasesReturnAtOnce(st, outer, ret) ==
  (0 :> ret)
  @@ (IF st.end = NONE THEN <<>> ELSE 1 :> (IF outer # NONE THEN outer ELSE st.end))
  @@ (IF st.cond = NONE THEN <<>> ELSE 2 :> (IF outer # NONE THEN outer ELSE st.cond))

\* what follows the last of a block's defers: on to the enclosing cleanup or to
\* where the exit was going; anything else is the natural end of the block
ExitCases(st, outer, ret) ==
  (0 :> (IF outer # NONE THEN outer ELSE ret))
  @@ (IF st.end = NONE THEN <<>> ELSE 1 :> (IF outer # NONE THEN outer ELSE st.end))
  @@ (IF st.cond = NONE THEN <<>> ELSE 2 :> (IF outer # NONE THEN outer ELSE st.cond))

RECURSIVE Gen(_, _, _)

\* Mutant: the branch to the next cleanup is emitted after any body.
GenCleanupUnguarded(st, d, next) ==
  LET done == Gen([At(st, d.bb) EXCEPT !.cleanup = next], d.body, Append(d.path, 1))
  IN  Emit(done, Br(done.cleanup))

\* one deferred body, generated into its block and chained to the next
GenCleanup(st, d, next) ==
  LET done == Gen([At(st, d.bb) EXCEPT !.cleanup = next], d.body, Append(d.path, 1))
  IN  Goto(done, done.cleanup)

\* Mutant: every deferred body leads straight to the end of the chain.
GenChainOne(st, own, after) ==
  FoldRight(LAMBDA k, acc : GenCleanup(acc, own[k], after), [k \in DOMAIN own |-> k], st)

\* lines 78-93: the deferred bodies, last registered first
GenChain(st, own, after) ==
  FoldRight(LAMBDA k, acc :
              GenCleanup(acc, own[k], IF k = 1 THEN after ELSE own[k - 1].bb),
            [k \in DOMAIN own |-> k], st)

GenStatements(st, stmts, p) ==
  FoldLeft(LAMBDA acc, k : Gen(acc, stmts[k], Append(p, k)), st, [k \in DOMAIN stmts |-> k])

\* Mutant: the enclosing cleanup is not put back at the end of a block.
GenBlockNoRestore(st, s, p) ==
  LET inner   == GenStatements(st, s.stmts, p)
      own     == SubSeq(inner.defers, Len(st.defers) + 1, Len(inner.defers))
      after   == <<p, "after">>
      natural == <<p, "natural">>
      ret     == <<p, "ret">>
      left    == Goto(IF Terminated(inner) THEN inner ELSE Emit(inner, SetDest(3)), inner.cleanup)
      chained == GenChain(Blocks(left, {after, natural, ret}), own, after)
      chosen  == Emit(At(chained, after), Switch(ExitCases(st, st.cleanup, ret), natural))
      final   == Emit(At(chosen, ret), Return("ret_val"))
  IN  IF own = <<>> THEN inner
      ELSE [At(final, natural) EXCEPT !.defers = st.defers]

GenBlock(st, s, p) ==
  LET inner   == GenStatements(st, s.stmts, p)
      own     == SubSeq(inner.defers, Len(st.defers) + 1, Len(inner.defers))
      after   == <<p, "after">>
      natural == <<p, "natural">>
      ret     == <<p, "ret">>
      left    == Goto(IF Terminated(inner) THEN inner ELSE Emit(inner, SetDest(3)), inner.cleanup)
      chained == GenChain(Blocks(left, {after, natural, ret}), own, after)
      chosen  == Emit(At(chained, after), Switch(ExitCases(st, st.cleanup, ret), natural))
      final   == Emit(At(chosen, ret), Return("ret_val"))
  IN  IF own = <<>> THEN [inner EXCEPT !.cleanup = st.cleanup]
      ELSE [At(final, natural) EXCEPT !.defers = st.defers, !.cleanup = st.cleanup]

GenIf(st, s, p) ==
  LET yes  == <<p, "then">>
      no   == <<p, "else">>
      end  == <<p, "merge">>
      test == Emit(Blocks(st, {yes, no, end}), CondBr(p, yes, no))
      then == Goto(Gen(At(test, yes), s.then, Append(p, 1)), end)
  IN  At(Goto(Gen(At(then, no), s.else, Append(p, 2)), end), end)

\* a while loop, or a for loop with a post expression
GenLoop(st, s, p) ==
  LET cond == <<p, "cond">>
      run  == <<p, "body">>
      post == <<p, "post">>
      end  == <<p, "end">>
      next == IF s.kind = "for" THEN post ELSE cond
      test == Emit(At(Emit(Blocks(st, {cond, run, end} \cup {next}), Br(cond)), cond),
                   CondBr(p, run, end))
      once == Goto(Gen([At(test, run) EXCEPT !.cond = next, !.end = end], s.body, Append(p, 1)), next)
      step == IF s.kind = "for" THEN Emit(Emit(At(once, post), Do(p)), Br(cond)) ELSE once
  IN  [At(step, end) EXCEPT !.cond = st.cond, !.end = st.end]

\* a statement after a terminated block is dropped
Gen(st, s, p) ==
  IF Terminated(st) THEN st
  ELSE CASE s.kind = "do"       -> Emit(st, Do(p))
         [] s.kind = "return"   -> GenReturn(st, p)
         [] s.kind = "break"    -> GenJump(st, st.end, 1)
         [] s.kind = "continue" -> GenJump(st, st.cond, 2)
         [] s.kind = "defer"    -> GenDefer(st, s, p)
         [] s.kind = "block"    -> GenBlock(st, s, p)
         [] s.kind = "if"       -> GenIf(st, s, p)
         [] s.kind \in {"while", "for"} -> GenLoop(st, s, p)

Entry == <<<<>>, "entry">>

\* codegen_func_body: a body that can reach its end returns zero there
GenFunction(b) ==
  LET start == [code |-> (Entry :> <<>>), at |-> Entry, cleanup |-> NONE,
                end |-> NONE, cond |-> NONE, defers |-> <<>>]
      done  == Gen(start, b, <<>>)
  IN  IF Terminated(done) THEN done.code ELSE Emit(done, Return("zero")).code

-----------------------------------------------------------------------------
(* Running the generated function.                                         *)

Init ==
  /\ body \in Bodies
  /\ code = GenFunction(body)
  /\ pc = <<Entry, 1>>
  /\ dest = -1               \* the alloca is not initialised
  /\ retVal = NONE
  /\ trace = <<>>
  /\ result = <<"running">>

Ins        == code[pc[1]][pc[2]]
Goes(l)    == pc' = <<l, 1>>
Falls      == pc' = <<pc[1], pc[2] + 1>>
Trues      == Len(SelectSeq(trace, LAMBDA e : e[1] = "test" /\ e[3]))
Fixed      == UNCHANGED <<code, body>>

RunDo ==
  /\ Ins.op = "do"
  /\ trace' = Append(trace, <<"do", Ins.path>>)
  /\ Falls /\ Fixed /\ UNCHANGED <<dest, retVal, result>>

RunStore ==
  /\ Ins.op \in {"dest", "ret_val"}
  /\ dest' = IF Ins.op = "dest" THEN Ins.v ELSE dest
  /\ retVal' = IF Ins.op = "ret_val" THEN Ins.path ELSE retVal
  /\ Falls /\ Fixed /\ UNCHANGED <<trace, result>>

RunCond ==
  /\ Ins.op = "cond"
  /\ \E value \in BOOLEAN :
       /\ value => Trues < MaxTrue
       /\ trace' = Append(trace, <<"test", Ins.path, value>>)
       /\ Goes(IF value THEN Ins.yes ELSE Ins.no)
  /\ Fixed /\ UNCHANGED <<dest, retVal, result>>

RunJump ==
  /\ Ins.op \in {"br", "switch"}
  /\ Goes(IF Ins.op = "br" THEN Ins.to
          ELSE IF dest \in DOMAIN Ins.cases THEN Ins.cases[dest] ELSE Ins.other)
  /\ Fixed /\ UNCHANGED <<dest, retVal, trace, result>>

RunReturn ==
  /\ Ins.op = "return"
  /\ result' = IF Ins.v = "zero" THEN <<"end">> ELSE <<"value", retVal>>
  /\ Fixed /\ UNCHANGED <<pc, dest, retVal, trace>>

Next == result = <<"running">> /\ (RunDo \/ RunStore \/ RunCond \/ RunJump \/ RunReturn)

Spec == Init /\ [][Next]_vars /\ WF_vars(Next)

Done == result # <<"running">>

-----------------------------------------------------------------------------
(* Properties.                                                             *)

Reference == INSTANCE DeferSemantics

Tests   == LET tests == SelectSeq(trace, LAMBDA e : e[1] = "test")
           IN  [k \in DOMAIN tests |-> tests[k][3]]
Meant   == Reference!Meaning(body, Tests)

AsMeant ==
  Done => /\ trace = Meant.trace
          /\ result = IF Meant.exit = "return" THEN <<"value", Meant.value>> ELSE <<"end">>

\* the statements below s, itself included
RECURSIVE Parts(_)
Parts(s) ==
  {s} \cup CASE s.kind = "block" -> UNION {Parts(s.stmts[k]) : k \in DOMAIN s.stmts}
            [] s.kind = "if"    -> Parts(s.then) \cup Parts(s.else)
            [] s.kind \in {"while", "for", "defer"} -> Parts(s.body)
            [] OTHER            -> {}

Kinds(s) == {t.kind : t \in Parts(s)}

\* every break and continue has a loop around it
RECURSIVE JumpsInLoops(_)
JumpsInLoops(s) ==
  CASE s.kind = "block" -> \A k \in DOMAIN s.stmts : JumpsInLoops(s.stmts[k])
    [] s.kind = "if"    -> JumpsInLoops(s.then) /\ JumpsInLoops(s.else)
    [] s.kind = "defer" -> JumpsInLoops(s.body)
    [] OTHER            -> s.kind \notin {"break", "continue"}

\* no deferred body defers again
FlatDefers(s) == \A d \in Parts(s) : d.kind = "defer" => "defer" \notin Kinds(d.body)

\* no loop is entered, and left early, while a defer of a block around it is
\* pending
RECURSIVE LoopsBeforeDefers(_, _)
LoopsBeforeDefers(s, pending) ==
  CASE s.kind = "block" ->
         \A k \in DOMAIN s.stmts :
           LoopsBeforeDefers(s.stmts[k],
             pending \/ \E j \in 1..k - 1 : s.stmts[j].kind = "defer")
    [] s.kind = "if"    -> LoopsBeforeDefers(s.then, pending) /\ LoopsBeforeDefers(s.else, pending)
    [] s.kind = "defer" -> LoopsBeforeDefers(s.body, TRUE)
    [] s.kind \in {"while", "for"} ->
         /\ pending => Kinds(s) \cap {"break", "continue"} = {}
         /\ LoopsBeforeDefers(s.body, pending)
    [] OTHER -> TRUE

\* the statement at a path below s
RECURSIVE StatementAt(_, _)
StatementAt(s, p) ==
  IF p = <<>> THEN s
  ELSE StatementAt(CASE s.kind = "block" -> s.stmts[p[1]]
                     [] s.kind = "if"    -> IF p[1] = 1 THEN s.then ELSE s.else
                     [] OTHER            -> s.body,
                   Tail(p))

\* p is right before a defer; p is, or comes first in, the deferred statement; what
\* is right before that defer
MarksDefer(p) ==
  p # <<>> /\ LET around == StatementAt(body, Front(p))
              IN  around.kind = "block" /\ Last(p) < Len(around.stmts)
                    /\ around.stmts[Last(p) + 1].kind = "defer"
DeferOf(p) ==
  IF Len(p) >= 2 /\ Last(p) = 1 /\ StatementAt(body, Front(p)).kind = "block"
  THEN Front(Front(p)) ELSE Front(p)
OpensDeferred(p) == p # <<>> /\ StatementAt(body, DeferOf(p)).kind = "defer"
MarkOf(p) == LET d == DeferOf(p) IN Append(Front(d), Last(d) - 1)

\* Types of the running function; the instruction pointer is always on an
\* instruction of an existing block.
TypeOK ==
  /\ pc[1] \in DOMAIN code /\ pc[2] \in 1..Len(code[pc[1]])
  /\ dest \in -1..3
  /\ result \in {<<"running">>, <<"end">>} \cup {<<"value", retVal>>}

\* The generated graph is what LLVM accepts: every block that was appended ends
\* in its only terminator, and every branch leads to a block (codegen_emit.c
\* 104; the guards at 32, 73, 90, 160-165, 194, 234-239); no run leaves it.
WellFormed ==
  /\ TypeOK
  /\ \A l \in DOMAIN code :
       /\ code[l] # <<>>
       /\ \A k \in DOMAIN code[l] : IsTerminator(code[l][k]) <=> k = Len(code[l])
       /\ LET i == Last(code[l])
          IN  CASE i.op = "br"     -> i.to \in DOMAIN code
                [] i.op = "cond"   -> {i.yes, i.no} \subseteq DOMAIN code
                [] i.op = "switch" -> {i.cases[v] : v \in DOMAIN i.cases} \cup {i.other} \subseteq DOMAIN code
                [] OTHER           -> TRUE

\* The generated function does what the body means, event by event, and returns
\* the same value, whatever the conditions yield: statements, early returns,
\* break and continue out of blocks with defers, and exits in deferred bodies
\* (lines 54-145, 252-311), for bodies whose loops are entered before the
\* defers around them and whose deferred bodies do not defer.
MeaningPreserved ==
  JumpsInLoops(body) /\ FlatDefers(body) /\ LoopsBeforeDefers(body, FALSE) => AsMeant

\* A pending defer runs once, after every defer registered later, wherever the
\* exit was meant to go: where each defer statement follows the statement that
\* marks it, marks and deferred events close like brackets in every run.
DefersNest ==
  LET Step(open, e) ==
        IF e[1] = "do" /\ MarksDefer(e[2]) THEN Append(open, e[2])
        ELSE IF e[1] = "do" /\ OpensDeferred(e[2]) THEN
          IF open # <<>> /\ Last(open) = MarkOf(e[2]) THEN Front(open) ELSE Append(open, <<>>)
        ELSE open
      open == FoldLeft(Step, <<>>, trace)
  IN  <<>> \notin {open[k] : k \in DOMAIN open} /\ (Done => open = <<>>)

\* Every run of the generated function ends: no cycle of the graph avoids the
\* conditions.
Returns == <>Done

=============================================================================
