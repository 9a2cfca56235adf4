----------------------------- MODULE MCHashMap -----------------------------
(***************************************************************************)
(* Four keys: k1 and k2 share their home slot in every table, k3 and k4 in *)
(* tables of two and four slots, where theirs is the last one.             *)
(***************************************************************************)
EXTENDS HashMap

CONSTANTS k1, k2, k3, k4

MCKeys == {k1, k2, k3, k4}
MCHash == [k \in MCKeys |-> CASE k = k1 -> 0 [] k = k2 -> 8 [] k = k3 -> 3 [] k = k4 -> 7]
=============================================================================
