---------------------------- MODULE LeastNumber ----------------------------
(***************************************************************************)
(* A set of natural numbers has a least member: what the proofs use where  *)
(* they argue by induction over a position, and what recursive functions   *)
(* over positions owe their existence to.                                  *)
(***************************************************************************)
EXTENDS Integers, NaturalsInduction, WellFoundedInduction, TLAPS

\* Every set of numbers that is not empty has a least one.
LEMMA LeastNat ==
  ASSUME NEW T \in SUBSET Nat, T # {}
  PROVE  \E x \in T : \A y \in T : x <= y
  <1>R. PICK R : R = OpToRel(<, Nat)
    OBVIOUS
  <1>1. IsWellFoundedOn(R, Nat)
    BY <1>R, NatLessThanWellFounded, Zenon
  <1>2. \A x, y \in Nat : x < y => <<x, y>> \in R
    BY <1>R DEF OpToRel
  <1>3. PICK x \in T : \A y \in T : ~(<<y, x>> \in R)
    BY <1>1, WFMin
  <1>4. ASSUME NEW y \in T PROVE x <= y
    <2>1. x \in Nat /\ y \in Nat /\ ~(y < x)
      BY <1>2, <1>3
    <2> QED
      BY <2>1
  <1> QED
    BY <1>4

\* Induction over an interval, upwards: T is the set of positions shown so far.
LEMMA GoingUp ==
  ASSUME NEW a \in Int, NEW b \in Int, NEW T, a \in T,
         \A n \in a..b - 1 : n \in T => n + 1 \in T
  PROVE  \A n \in a..b : n \in T
  <1> SUFFICES ASSUME NEW n \in a..b, n \notin T PROVE FALSE
    OBVIOUS
  <1>1. PICK D : D = {d \in Nat : a + d <= b /\ a + d \notin T}
    OBVIOUS
  <1>2. n - a \in D
    BY <1>1
  <1>3. PICK d \in D : \A e \in D : d <= e
    BY <1>1, <1>2, LeastNat
  <1>4. d \in Nat /\ a + d <= b /\ a + d \notin T /\ d # 0
    BY <1>1
  <1>5. d - 1 \notin D /\ d - 1 \in Nat /\ a + (d - 1) <= b
    BY <1>3, <1>4
  <1>6. a + (d - 1) \in T /\ a + (d - 1) \in a..b - 1
    BY <1>1, <1>4, <1>5
  <1> QED
    BY <1>4, <1>6

\* Induction over an interval, downwards: a position may use all the later ones.
LEMMA GoingDown ==
  ASSUME NEW a \in Int, NEW b \in Int, NEW T,
         \A n \in a..b : (\A m \in n + 1..b : m \in T) => n \in T
  PROVE  \A n \in a..b : n \in T
  <1> SUFFICES ASSUME NEW n \in a..b, n \notin T PROVE FALSE
    OBVIOUS
  <1>1. PICK D : D = {d \in Nat : b - d >= a /\ b - d \notin T}
    OBVIOUS
  <1>2. b - n \in D
    BY <1>1
  <1>3. PICK d \in D : \A e \in D : d <= e
    BY <1>1, <1>2, LeastNat
  <1>4. d \in Nat /\ b - d >= a /\ b - d \notin T /\ b - d \in a..b
    BY <1>1
  <1>5. ASSUME NEW m \in (b - d) + 1..b PROVE m \in T
    <2>1. b - m \in Nat /\ b - m < d /\ b - (b - m) = m /\ m >= a
      BY <1>4
    <2>2. b - m \notin D
      BY <1>3, <1>4, <2>1
    <2> QED
      BY <1>1, <2>1, <2>2
  <1> QED
    BY <1>4, <1>5

\* f has the value of base at a stop, and elsewhere its own value further on
Climbs(f, a, b, stops, base, next) ==
  /\ f = [p \in a..b |-> f[p]]
  /\ \A p \in a..b : f[p] = IF p \in stops THEN base[p] ELSE f[next[p]]

\* f steps from each number to the next
Iterates(f, b, start, step) ==
  \A n \in 0..b : f[n] = IF n = 0 THEN start ELSE step[n][f[n - 1]]

\* A function over an interval may be defined from its values at later positions.
LEMMA ClimbingFunction ==
  ASSUME NEW a \in Int, NEW b \in Int, NEW stops, NEW base, NEW next,
         \A p \in a..b : p \notin stops => next[p] \in p + 1..b
  PROVE  \E f : Climbs(f, a, b, stops, base, next)
  <1>1. PICK T : T = {k \in Int : \E f : f = [p \in k..b |-> IF p \in stops THEN base[p] ELSE f[next[p]]]}
    OBVIOUS
  <1>2. ASSUME NEW n \in a..b, \A m \in n + 1..b : m \in T PROVE n \in T
    <2>1. PICK g : g = [p \in n + 1..b |-> IF p \in stops THEN base[p] ELSE g[next[p]]]
      <3>1. CASE n + 1 <= b
        BY <1>1, <1>2, <3>1
      <3>2. CASE n = b
        <4>1. PICK g : g = [p \in {} |-> 0]
          OBVIOUS
        <4>2. n + 1..b = {}
          BY <3>2
        <4> QED
          BY <4>1, <4>2
      <3> QED
        BY <3>1, <3>2
    <2>2. PICK v : v = IF n \in stops THEN base[n] ELSE g[next[n]]
      OBVIOUS
    <2>3. PICK f : f = [p \in n..b |-> IF p = n THEN v ELSE g[p]]
      OBVIOUS
    <2>4. ASSUME NEW p \in n..b PROVE f[p] = IF p \in stops THEN base[p] ELSE f[next[p]]
      <3>1. p \notin stops => next[p] \in p + 1..b /\ f[next[p]] = g[next[p]]
        <4>1. p \notin stops => next[p] \in p + 1..b
          OBVIOUS
        <4>2. p \notin stops => next[p] \in n..b /\ next[p] # n
          BY <4>1
        <4> QED
          BY <4>1, <4>2, <2>3
      <3>2. CASE p = n
        BY <2>2, <2>3, <3>1, <3>2
      <3>3. CASE p # n
        <4>1. p \in n + 1..b /\ f[p] = g[p]
          BY <3>3, <2>3
        <4> QED
          BY <4>1, <3>1, <2>1
      <3> QED
        BY <3>2, <3>3
    <2>5. f = [p \in n..b |-> IF p \in stops THEN base[p] ELSE f[next[p]]]
      BY <2>3, <2>4
    <2> QED
      BY <1>1, <2>5
  <1>3. \A n \in a..b : n \in T
    BY <1>2, GoingDown
  <1>4. CASE a <= b
    <2>1. PICK f : f = [p \in a..b |-> IF p \in stops THEN base[p] ELSE f[next[p]]]
      BY <1>1, <1>3, <1>4
    <2> QED
      BY <2>1 DEF Climbs
  <1>5. CASE b < a
    <2>1. PICK g : g = [p \in {} |-> 0]
      OBVIOUS
    <2>2. a..b = {}
      BY <1>5
    <2> QED
      BY <2>1, <2>2 DEF Climbs
  <1> QED
    BY <1>4, <1>5

\* A function over 0..b may be defined from its value one before.
LEMMA SteppingFunction ==
  ASSUME NEW b \in Nat, NEW S, NEW start \in S, NEW step,
         \A n \in 1..b : \A x \in S : step[n][x] \in S
  PROVE  \E f \in [0..b -> S] : Iterates(f, b, start, step)
  <1>1. PICK T : T = {k \in Nat : \E f \in [0..k -> S] :
                                    f = [n \in 0..k |-> IF n = 0 THEN start ELSE step[n][f[n - 1]]]}
    OBVIOUS
  <1>2. 0 \in T
    <2>1. PICK f : f = [n \in 0..0 |-> start]
      OBVIOUS
    <2>2. f \in [0..0 -> S] /\ f = [n \in 0..0 |-> IF n = 0 THEN start ELSE step[n][f[n - 1]]]
      BY <2>1
    <2> QED
      BY <1>1, <2>2
  <1>3. ASSUME NEW k \in 0..b - 1, k \in T PROVE k + 1 \in T
    <2>1. PICK g \in [0..k -> S] : g = [n \in 0..k |-> IF n = 0 THEN start ELSE step[n][g[n - 1]]]
      BY <1>1, <1>3
    <2>2. g[k] \in S /\ step[k + 1][g[k]] \in S
      BY <2>1
    <2>3. PICK f : f = [n \in 0..k + 1 |-> IF n = k + 1 THEN step[k + 1][g[k]] ELSE g[n]]
      OBVIOUS
    <2>4. f \in [0..k + 1 -> S]
      BY <2>1, <2>2, <2>3
    <2>5. ASSUME NEW n \in 0..k + 1 PROVE f[n] = IF n = 0 THEN start ELSE step[n][f[n - 1]]
      <3>1. CASE n = k + 1
        BY <3>1, <2>3
      <3>2. CASE n # k + 1
        <4>1. n \in 0..k /\ f[n] = g[n]
          BY <3>2, <2>3
        <4>2. n # 0 => n - 1 \in 0..k /\ f[n - 1] = g[n - 1]
          BY <4>1, <2>3
        <4> QED
          BY <4>1, <4>2, <2>1
      <3> QED
        BY <3>1, <3>2
    <2>6. f = [n \in 0..k + 1 |-> IF n = 0 THEN start ELSE step[n][f[n - 1]]]
      BY <2>3, <2>5
    <2>7. k + 1 \in Nat
      OBVIOUS
    <2>8. \E h \in [0..k + 1 -> S] : h = [n \in 0..k + 1 |-> IF n = 0 THEN start ELSE step[n][h[n - 1]]]
      BY <2>4, <2>6
    <2> QED
      BY ONLY <1>1, <2>7, <2>8
  <1>4. b \in T
    BY <1>2, <1>3, GoingUp
  <1> QED
    BY <1>1, <1>4 DEF Iterates

\* as Climbs, where each value is made from the one further on
ClimbsWith(f, a, b, stops, base, next, step) ==
  \A p \in a..b : f[p] = IF p \in stops THEN base[p] ELSE step[p][f[next[p]]]

\* The same for values made from those at later positions.
LEMMA ClimbingFunctionWith ==
  ASSUME NEW a \in Int, NEW b \in Int, NEW stops, NEW base, NEW next, NEW step, NEW S,
         \A p \in a..b : base[p] \in S /\ \A x \in S : step[p][x] \in S,
         \A p \in a..b : p \notin stops => next[p] \in p + 1..b
  PROVE  \E f \in [a..b -> S] : ClimbsWith(f, a, b, stops, base, next, step)
  <1>1. PICK T : T = {k \in Int : \E f \in [k..b -> S] : ClimbsWith(f, k, b, stops, base, next, step)}
    OBVIOUS
  <1>2. ASSUME NEW n \in a..b, \A m \in n + 1..b : m \in T PROVE n \in T
    <2>1. PICK g \in [n + 1..b -> S] : ClimbsWith(g, n + 1, b, stops, base, next, step)
      <3>1. CASE n + 1 <= b
        BY <1>1, <1>2, <3>1
      <3>2. CASE n = b
        <4>1. PICK g : g = [p \in {} |-> 0]
          OBVIOUS
        <4>2. n + 1..b = {}
          BY <3>2
        <4>3. g \in [n + 1..b -> S]
          BY <4>1, <4>2
        <4> QED
          BY <4>2, <4>3 DEF ClimbsWith
      <3> QED
        BY <3>1, <3>2
    <2>2. PICK v : v = IF n \in stops THEN base[n] ELSE step[n][g[next[n]]]
      OBVIOUS
    <2>3. v \in S
      <3>1. n \notin stops => next[n] \in n + 1..b
        OBVIOUS
      <3>2. n \notin stops => g[next[n]] \in S
        BY <2>1, <3>1
      <3> QED
        BY <2>2, <3>2
    <2>4. PICK f : f = [p \in n..b |-> IF p = n THEN v ELSE g[p]]
      OBVIOUS
    <2>5. f \in [n..b -> S]
      <3>1. \A p \in n..b : p = n \/ p \in n + 1..b
        OBVIOUS
      <3>2. \A p \in n..b : f[p] \in S
        BY <2>1, <2>3, <2>4, <3>1
      <3> QED
        BY <2>4, <3>2
    <2>6. ASSUME NEW p \in n..b PROVE f[p] = IF p \in stops THEN base[p] ELSE step[p][f[next[p]]]
      <3>1. p \notin stops => next[p] \in p + 1..b /\ f[next[p]] = g[next[p]]
        <4>1. p \notin stops => next[p] \in p + 1..b
          OBVIOUS
        <4>2. p \notin stops => next[p] \in n..b /\ next[p] # n
          BY <4>1
        <4> QED
          BY <4>1, <4>2, <2>4
      <3>2. CASE p = n
        BY <2>2, <2>4, <3>1, <3>2
      <3>3. CASE p # n
        <4>1. p \in n + 1..b /\ f[p] = g[p]
          BY <3>3, <2>4
        <4>2. g[p] = IF p \in stops THEN base[p] ELSE step[p][g[next[p]]]
          BY <2>1, <4>1 DEF ClimbsWith
        <4> QED
          BY <4>1, <4>2, <3>1
      <3> QED
        BY <3>2, <3>3
    <2>7. ClimbsWith(f, n, b, stops, base, next, step)
      BY <2>6 DEF ClimbsWith
    <2> QED
      BY <1>1, <2>5, <2>7
  <1>3. \A n \in a..b : n \in T
    BY <1>2, GoingDown
  <1>4. CASE a <= b
    BY <1>1, <1>3, <1>4
  <1>5. CASE b < a
    <2>1. PICK g : g = [p \in {} |-> 0]
      OBVIOUS
    <2>2. a..b = {}
      BY <1>5
    <2>3. g \in [a..b -> S]
      BY <2>1, <2>2
    <2> QED
      BY <2>2, <2>3 DEF ClimbsWith
  <1> QED
    BY <1>4, <1>5
=============================================================================
