------------------------ MODULE MCStatementLowering ------------------------
(***************************************************************************)
(* Function bodies for StatementLowering: a first statement that may be a  *)
(* defer, a compound statement with up to two statements in it, and a last *)
(* statement or return.                                                    *)
(***************************************************************************)
EXTENDS StatementLowering

Plain(kind)     == [kind |-> kind]
DoIt            == Plain("do")
Block(stmts)    == [kind |-> "block", stmts |-> stmts]
Defer(stmts)    == [kind |-> "defer", body |-> Block(stmts)]
If(stmts)       == [kind |-> "if", then |-> Block(stmts), else |-> Block(<<>>)]
IfElse(s, t)    == [kind |-> "if", then |-> Block(s), else |-> Block(t)]
Loop(kind, stmts) == [kind |-> kind, body |-> Block(stmts)]

\* a defer with the statement that marks it
Marked(stmts)   == <<DoIt, Defer(stmts)>>

Exits   == {<<Plain("return")>>, <<Plain("break")>>, <<Plain("continue")>>}
Inner   == Exits \cup {<<>>, Marked(<<DoIt>>), <<DoIt, [kind |-> "defer", body |-> DoIt]>>, Marked(<<DoIt, Plain("return")>>),
                      Marked(<<DoIt, Plain("break")>>), Marked(<<DoIt, Loop("while", <<Plain("break")>>)>>), Marked(<<DoIt>> \o Marked(<<DoIt>>)),
                      <<If(<<Plain("continue")>>)>>, <<If(Marked(<<DoIt>>) \o <<Plain("return")>>)>>,
                      <<Loop("while", <<Plain("break")>>)>>}
Inners == {s \o t : s \in Inner, t \in Inner}

Compound == {Block(s) : s \in Inners} \cup {If(s) : s \in Inners}
              \cup {Loop(kind, s) : kind \in {"while", "for"}, s \in Inners}

First == {<<>>, Marked(<<DoIt>>), Marked(<<DoIt, Plain("return")>>),
          Marked(<<DoIt>> \o Marked(<<DoIt>>)), Marked(<<DoIt>>) \o Marked(<<DoIt>>)}

MCBodies == {Block(f \o <<c>> \o l) : f \in First, c \in Compound,
               l \in {<<DoIt>>, <<Plain("return")>>}}
=============================================================================
