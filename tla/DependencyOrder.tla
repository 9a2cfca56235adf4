-------------------------- MODULE DependencyOrder --------------------------
(***************************************************************************)
(* What loading a program promises about its import graph, without files,  *)
(* logical paths or recursion: the files reachable from the root are       *)
(* completed one at a time, each once, each after the files it imports     *)
(* unless those import it back, and the root last.  Loading fails only for *)
(* a bad file or a chain of more imports than the limit, however many      *)
(* files there are.                                                        *)
(***************************************************************************)
EXTENDS Naturals, Sequences

CONSTANTS root, limit    \* the entry file; the most imports in a row allowed

VARIABLES
  edges,     \* <<f, g>>: f imports g
  sound,     \* files that can be read, lexed and parsed
  order,     \* completed files, in order of completion
  outcome    \* "loading", "loaded" or "failed"

\* the smallest set that has f and, with a file, all that it imports
Reach(f) ==
  LET E      == edges
      files  == {f} \cup {e[2] : e \in E}
      closed == {F \in SUBSET files : f \in F /\ \A e \in E : e[1] \in F => e[2] \in F}
  IN  {g \in files : \A F \in closed : g \in F}

Completed == {order[i] : i \in 1..Len(order)}
Imports(f) == {e[2] : e \in {d \in edges : d[1] = f}}

OrderInit == order = <<>> /\ outcome = "loading"

Complete(f) ==
  /\ outcome = "loading"
  /\ order' = Append(order, f)
  /\ outcome' = IF f = root THEN "loaded" ELSE "loading"
  /\ f \notin Completed
  /\ f \in Reach(root)
  /\ \A g \in Imports(f) : g \in Completed \/ f \in Reach(g)
  /\ f = root => Reach(root) \subseteq Completed \cup {root}
  /\ UNCHANGED <<edges, sound>>

\* limit imports in a row lead from the root through as many other files, each
\* good and none twice, and there is an import more
TooLong(chain) ==
  /\ chain[1] = root
  /\ \A i, j \in 1..limit + 1 : chain[i] = chain[j] => i = j
  /\ \A i \in 1..limit : chain[i + 1] \in Imports(chain[i])
  /\ Imports(chain[limit + 1]) # {}

Fail ==
  /\ outcome = "loading"
  /\ outcome' = "failed"
  /\ ~(Reach(root) \subseteq sound) \/ \E chain \in [1..limit + 1 -> sound] : TooLong(chain)
  /\ UNCHANGED <<edges, sound, order>>

OrderNext == (\E f \in sound : Complete(f)) \/ Fail

orderVars == <<edges, sound, order, outcome>>
OrderSpec == OrderInit /\ [][OrderNext]_orderVars
=============================================================================
