--------------------------- MODULE DeferSemantics ---------------------------
(***************************************************************************)
(* What a function body means, without basic blocks: statements run in     *)
(* order until one exits; a block left in any way first runs the deferred  *)
(* bodies it reached, last reached first; an exit out of a deferred body   *)
(* replaces the exit in progress, and nothing else about it does; break    *)
(* and continue end at the innermost loop around them.                     *)
(*                                                                         *)
(* A run is a record: the events so far, the values the conditions still   *)
(* have to yield, and the exit in progress ("none" while there is none)    *)
(* with the path of the return statement whose value it carries.           *)
(***************************************************************************)
EXTENDS Naturals, Sequences, SequencesExt

Event(m, e)   == [m EXCEPT !.trace = Append(@, e)]
Exit(m, kind) == [m EXCEPT !.exit = kind]

\* the next condition, FALSE when no value is left
Test(m, p) ==
  [m EXCEPT !.trace   = Append(@, <<"test", p, IF m.choices = <<>> THEN FALSE ELSE Head(m.choices)>>),
            !.choices = IF @ = <<>> THEN <<>> ELSE Tail(@)]
Passed(m) == Last(m.trace)[3]

RECURSIVE Run(_, _, _), RunLoop(_, _, _)

\* a deferred body, run although m is exiting
RunDeferred(m, s, p) ==
  LET end == Run([m EXCEPT !.exit = "none"], s, p)
  IN  IF end.exit = "none" THEN [end EXCEPT !.exit = m.exit, !.value = m.value] ELSE end

RunBlock(m, stmts, p) ==
  LET step(acc, k) ==
        IF acc.m.exit # "none" THEN acc
        ELSE IF stmts[k].kind = "defer" THEN [acc EXCEPT !.pending = <<k>> \o @]
        ELSE [acc EXCEPT !.m = Run(@, stmts[k], Append(p, k))]
      ran == FoldLeft(step, [m |-> m, pending |-> <<>>], [k \in DOMAIN stmts |-> k])
  IN  FoldLeft(LAMBDA acc, k : RunDeferred(acc, stmts[k].body, p \o <<k, 1>>), ran.m, ran.pending)

RunLoop(m, s, p) ==
  LET test == Test(m, p)
      once == Run(test, s.body, Append(p, 1))
      on   == Exit(once, "none")
      step == IF s.kind = "for" THEN Event(on, <<"do", p>>) ELSE on
  IN  IF ~Passed(test) THEN test
      ELSE CASE once.exit = "return" -> once
             [] once.exit = "break"  -> on
             [] OTHER                -> RunLoop(step, s, p)

Run(m, s, p) ==
  CASE s.kind = "do"                    -> Event(m, <<"do", p>>)
    [] s.kind = "return"                -> [m EXCEPT !.exit = "return", !.value = p]
    [] s.kind \in {"break", "continue"} -> Exit(m, s.kind)
    [] s.kind = "block"                 -> RunBlock(m, s.stmts, p)
    [] s.kind = "if" ->
         LET test == Test(m, p)
         IN  IF Passed(test) THEN Run(test, s.then, Append(p, 1))
             ELSE Run(test, s.else, Append(p, 2))
    [] s.kind \in {"while", "for"}      -> RunLoop(m, s, p)

\* the run of a function body whose conditions yield the given values
Meaning(body, choices) ==
  Run([trace |-> <<>>, choices |-> choices, exit |-> "none", value |-> <<>>], body, <<>>)
=============================================================================
