---------------------------- MODULE Names_proofs ----------------------------
(***************************************************************************)
(* Proofs about Names: the storage the generator finds for a use is that   *)
(* of the declaration the checker bound it to, which is the nearest that   *)
(* reaches it, if one in the body does.                                    *)
(*                                                                         *)
(* The two are compared by way of the text.  A history gives, before each  *)
(* item of the body, the blocks that are open there and the scopes as the  *)
(* checker has them.  The generator comes to the items in another order,   *)
(* and what it keeps in its maps is described by the histories of the      *)
(* places its blocks have come to.                                         *)
(***************************************************************************)
EXTENDS Names, LeastNumber, FiniteSetTheorems, SequenceTheorems, TLAPS

-----------------------------------------------------------------------------
(* Histories of a body.                                                    *)

AnyItem ==
  [k : {"decl", "for", "use", "block", "defer", "return", "end"},
   x : Names \cup {NONE}, use : Names \cup {NONE}]

Bodies == {b \in Seq(AnyItem) : \A p \in 1..Len(b) :
             /\ b[p].k \in {"decl", "for"} => b[p].x \in Names
             /\ b[p].k \in {"use", "for"} => b[p].use \in Names}

Level == [Names -> {<<c>> : c \in Nat} \cup {NONE}]

\* t is s with x added
Adds(t, s, x) ==
  /\ Len(t) = Len(s) + 1 /\ t[Len(t)] = x
  /\ \A j \in 1..Len(s) : t[j] = s[j]

FirstPart(x, p) == [NoNames EXCEPT ![x] = <<p>>]

DeclaredIn(t, c, x, p) ==
  /\ Len(t) = Len(c) /\ c[Len(c)][x] = NONE
  /\ t[Len(c)] = [c[Len(c)] EXCEPT ![x] = <<p>>]
  /\ \A l \in 1..Len(c) - 1 : t[l] = c[l]

Looped(t, c, x, p) ==
  /\ Len(t) = Len(c) + 2 /\ t[Len(c) + 1] = FirstPart(x, p) /\ t[Len(c) + 2] = NoNames
  /\ \A l \in 1..Len(c) : t[l] = c[l]

\* the scopes t after an item at p that does not end a block, from c before it
Widened(t, c, it, p) ==
  IF it.k = "decl" THEN DeclaredIn(t, c, it.x, p)
  ELSE IF it.k = "for" THEN Looped(t, c, it.x, p)
  ELSE IF Opens(it) THEN Adds(t, c, NoNames)
  ELSE t = c

\* the innermost block at q
Inner(h, q) == IF h[q] = <<>> THEN 0 ELSE h[q][Len(h[q])]

\* from the position p to the next
Turned(it, p, h, s) ==
  IF it.k = "end" THEN h[p] # <<>> /\ h[p + 1] = h[Inner(h, p)] /\ s[p + 1] = s[Inner(h, p)]
  ELSE /\ Widened(s[p + 1], s[p], it, p)
       /\ IF Opens(it) THEN Adds(h[p + 1], h[p], p) ELSE h[p + 1] = h[p]

\* h and s are the open blocks and the scopes before each of the first m items of
\* b, and after them; ps is the scope that the parameters make
History(b, m, ps, h, s) ==
  /\ m \in 0..Len(b) /\ ps \in Level
  /\ h \in Seq(Seq(Nat)) /\ s \in Seq(Seq(Level))
  /\ Len(h) = m + 1 /\ Len(s) = m + 1
  /\ h[1] = <<>> /\ s[1] = <<ps>>
  /\ \A p \in 1..m : Turned(b[p], p, h, s)

\* hq and sq are what they are inside the block that d opens
Within(it, d, hq, hd, sq, sd) ==
  /\ Adds(hq, hd, d)
  /\ Len(sq) = Len(sd) + (IF it.k = "for" THEN 2 ELSE 1)
  /\ \A l \in 1..Len(sd) : sq[l] = sd[l]
  /\ it.k = "for" => sq[Len(sd) + 1] = FirstPart(it.x, d)

Nested(b, h, s, q) ==
  IF h[q] = <<>> THEN Len(s[q]) = 1
  ELSE /\ Inner(h, q) \in 1..q - 1 /\ Opens(b[Inner(h, q)])
       /\ Within(b[Inner(h, q)], Inner(h, q), h[q], h[Inner(h, q)], s[q], s[Inner(h, q)])

\* The types of a history.
LEMMA HistoryTypes ==
  ASSUME NEW b \in Bodies, NEW m, NEW ps, NEW h, NEW s, History(b, m, ps, h, s), NEW q \in 1..m + 1
  PROVE  /\ Len(b) \in Nat /\ m \in Nat /\ m <= Len(b) /\ DOMAIN h = 1..m + 1 /\ DOMAIN s = 1..m + 1
         /\ h[q] \in Seq(Nat) /\ s[q] \in Seq(Level) /\ Len(h[q]) \in Nat /\ Len(s[q]) \in Nat
         /\ h[q] # <<>> => Len(h[q]) >= 1 /\ Inner(h, q) \in Nat
         /\ h[q] = <<>> <=> Len(h[q]) = 0
  <1>1. /\ h \in Seq(Seq(Nat)) /\ s \in Seq(Seq(Level)) /\ m \in 0..Len(b)
        /\ Len(h) = m + 1 /\ Len(s) = m + 1 /\ Len(b) \in Nat
    BY DEF History, Bodies
  <1>2. DOMAIN h = 1..m + 1 /\ DOMAIN s = 1..m + 1
    BY <1>1
  <1>3. h[q] \in Seq(Nat) /\ s[q] \in Seq(Level)
    BY <1>1, <1>2
  <1>4. Len(h[q]) \in Nat /\ Len(s[q]) \in Nat
    BY <1>3
  <1>5. /\ h[q] # <<>> => Len(h[q]) >= 1 /\ Inner(h, q) \in Nat
        /\ h[q] = <<>> <=> Len(h[q]) = 0
    BY <1>3 DEF Inner
  <1> QED
    BY <1>1, <1>2, <1>3, <1>4, <1>5

\* The items of a body.
LEMMA ItemTypes ==
  ASSUME NEW b \in Bodies, NEW p \in 1..Len(b)
  PROVE  /\ b[p] \in AnyItem /\ b[p].k \in {"decl", "for", "use", "block", "defer", "return", "end"}
         /\ b[p].use \in Names \cup {NONE}
         /\ b[p].k \in {"decl", "for"} => b[p].x \in Names
         /\ b[p].k \in {"use", "for"} => b[p].use \in Names
  <1>1. b \in Seq(AnyItem) /\ (b[p].k \in {"decl", "for"} => b[p].x \in Names)
        /\ (b[p].k \in {"use", "for"} => b[p].use \in Names)
    BY DEF Bodies
  <1>2. b[p] \in AnyItem
    BY <1>1
  <1>3. b[p].k \in {"decl", "for", "use", "block", "defer", "return", "end"} /\ b[p].use \in Names \cup {NONE}
    BY <1>2 DEF AnyItem
  <1> QED
    BY <1>1, <1>2, <1>3

\* One turn of a history.
LEMMA HistoryTurn ==
  ASSUME NEW b \in Bodies, NEW m, NEW ps, NEW h, NEW s, History(b, m, ps, h, s), NEW p \in 1..m
  PROVE  Turned(b[p], p, h, s)
  BY DEF History

LEMMA HistoryNested ==
  ASSUME NEW b \in Bodies, NEW m, NEW ps, NEW h, NEW s, History(b, m, ps, h, s)
  PROVE  \A q \in 1..m + 1 : Nested(b, h, s, q)
  <1>1. PICK T : T = {q \in 1..m + 1 : \A r \in 1..q : Nested(b, h, s, r)}
    OBVIOUS
  <1>2. m \in Nat /\ m + 1 \in Int /\ (m + 1) - 1 = m
    BY DEF History, Bodies
  <1>3. 1 \in T
    <2>1. h[1] = <<>> /\ s[1] = <<ps>> /\ Len(<<ps>>) = 1
      BY DEF History
    <2>2. Nested(b, h, s, 1)
      BY <2>1 DEF Nested
    <2> QED
      BY <1>1, <1>2, <2>2
  <1>4. ASSUME NEW p \in 1..m, p \in T
        PROVE  p + 1 \in T
    <2>1. p \in 1..m + 1 /\ p + 1 \in 1..m + 1 /\ \A r \in 1..p : Nested(b, h, s, r)
      BY <1>1, <1>2, <1>4
    <2>2. Turned(b[p], p, h, s)
      BY HistoryTurn
    <2>3. h[p] \in Seq(Nat) /\ h[p + 1] \in Seq(Nat) /\ Len(s[p]) \in Nat /\ Len(s[p + 1]) \in Nat
      BY <2>1, HistoryTypes
    <2>4. CASE Opens(b[p])
      <3>1. Adds(h[p + 1], h[p], p) /\ Widened(s[p + 1], s[p], b[p], p)
        BY <2>2, <2>4 DEF Turned, Opens
      <3>2. Len(h[p + 1]) = Len(h[p]) + 1 /\ h[p + 1][Len(h[p + 1])] = p
        BY <3>1 DEF Adds
      <3>3. h[p + 1] # <<>> /\ Inner(h, p + 1) = p
        BY <2>3, <3>2 DEF Inner
      <3>4. p \in 1..(p + 1) - 1
        BY <2>1
      <3>5. Within(b[p], p, h[p + 1], h[p], s[p + 1], s[p])
        BY <3>1, <2>4 DEF Widened, Within, Looped, Adds, Opens
      <3>6. Nested(b, h, s, p + 1)
        BY <2>4, <3>3, <3>4, <3>5 DEF Nested
      <3> QED
        BY <1>1, <1>2, <2>1, <3>6
    <2>5. CASE ~Opens(b[p]) /\ b[p].k = "end"
      <3>1. PICK o : o = Inner(h, p)
        OBVIOUS
      <3>2. h[p] # <<>> /\ h[p + 1] = h[o] /\ s[p + 1] = s[o]
        BY <2>2, <2>5, <3>1 DEF Turned
      <3>3. o \in 1..p - 1
        BY <2>1, <3>1, <3>2 DEF Nested
      <3>4. Nested(b, h, s, o)
        BY <2>1, <3>3
      <3>5. Inner(h, p + 1) = Inner(h, o)
        BY <3>2 DEF Inner
      <3>6. Inner(h, o) \in 1..o - 1 => Inner(h, o) \in 1..(p + 1) - 1
        BY <3>3
      <3>7. Nested(b, h, s, p + 1)
        BY <3>2, <3>4, <3>5, <3>6 DEF Nested
      <3> QED
        BY <1>1, <1>2, <2>1, <3>7
    <2>6. CASE ~Opens(b[p]) /\ b[p].k # "end"
      <3>1. h[p + 1] = h[p] /\ Widened(s[p + 1], s[p], b[p], p)
        BY <2>2, <2>6 DEF Turned
      <3>2. Nested(b, h, s, p)
        BY <2>1
      <3>3. Inner(h, p + 1) = Inner(h, p)
        BY <3>1 DEF Inner
      <3>4. Inner(h, p) \in 1..p - 1 => Inner(h, p) \in 1..(p + 1) - 1
        BY <2>1
      <3>5. s[p + 1] = s[p] \/ DeclaredIn(s[p + 1], s[p], b[p].x, p)
        BY <3>1, <2>6 DEF Widened, Opens
      <3>6. Len(s[p + 1]) = Len(s[p]) /\ \A l \in 1..Len(s[p]) - 1 : s[p + 1][l] = s[p][l]
        BY <3>5, <2>3 DEF DeclaredIn
      <3>7. CASE h[p] = <<>>
        BY <3>1, <3>2, <3>6, <3>7, <1>1, <1>2, <2>1 DEF Nested
      <3>8. CASE h[p] # <<>>
        <4>1. PICK o : o = Inner(h, p)
          OBVIOUS
        <4>2. o \in 1..p - 1 /\ Opens(b[o]) /\ Within(b[o], o, h[p], h[o], s[p], s[o])
          BY <4>1, <3>2, <3>8 DEF Nested
        <4>3. Len(s[o]) \in Nat
          BY <4>2, <2>1, HistoryTypes
        <4>0. Len(s[p]) = Len(s[o]) + (IF b[o].k = "for" THEN 2 ELSE 1)
          BY <4>2 DEF Within
        <4>e. Len(s[p]) >= Len(s[o]) + 1
          BY <4>0, <4>3
        <4>a. /\ Len(s[p + 1]) = Len(s[o]) + (IF b[o].k = "for" THEN 2 ELSE 1)
              /\ \A l \in 1..Len(s[o]) : l \in 1..Len(s[p]) - 1
          <5>1. Len(s[p + 1]) = Len(s[o]) + (IF b[o].k = "for" THEN 2 ELSE 1)
            BY <4>0, <3>6
          <5>2. \A l \in 1..Len(s[o]) : l \in 1..Len(s[p]) - 1
            BY ONLY <4>e, <4>3, <2>3
          <5> QED
            BY <5>1, <5>2
        <4>b. \A l \in 1..Len(s[o]) : s[p + 1][l] = s[o][l]
          BY <4>2, <4>a, <3>6 DEF Within
        <4>c. ASSUME b[o].k = "for" PROVE s[p + 1][Len(s[o]) + 1] = FirstPart(b[o].x, o)
          <5>1. Len(s[o]) + 1 \in 1..Len(s[p]) - 1
            BY <4>2, <4>3, <4>c, <2>3 DEF Within
          <5> QED
            BY <4>2, <4>c, <5>1, <3>6 DEF Within
        <4>4. Within(b[o], o, h[p + 1], h[o], s[p + 1], s[o])
          BY <4>2, <4>a, <4>b, <4>c, <3>1 DEF Within
        <4>5. Nested(b, h, s, p + 1)
          BY <4>1, <4>2, <4>4, <3>1, <3>3, <3>4, <3>8 DEF Nested
        <4> QED
          BY <1>1, <1>2, <2>1, <4>5
      <3> QED
        BY <3>7, <3>8
    <2> QED
      BY <2>4, <2>5, <2>6
  <1>5. \A q \in 1..m + 1 : q \in T
    <2>1. \A p \in 1..(m + 1) - 1 : p \in T => p + 1 \in T
      BY <1>2, <1>4
    <2> QED
      BY ONLY <1>2, <1>3, <2>1, GoingUp, 1 \in Int
  <1> QED
    BY <1>1, <1>5

\* There is always a scope.
LEMMA ScopesDeep ==
  ASSUME NEW b \in Bodies, NEW m, NEW ps, NEW h, NEW s, History(b, m, ps, h, s), NEW q \in 1..m + 1
  PROVE  Len(s[q]) >= 1
  <1>1. Nested(b, h, s, q) /\ Len(s[q]) \in Nat /\ q \in Nat /\ m \in Nat
    BY HistoryNested, HistoryTypes
  <1>2. CASE h[q] = <<>>
    <2>1. Len(s[q]) = 1
      BY <1>1, <1>2, Zenon DEF Nested
    <2> QED
      BY <2>1
  <1>3. CASE h[q] # <<>>
    <2>1. PICK o : o = Inner(h, q)
      OBVIOUS
    <2>2. o \in 1..q - 1 /\ Within(b[o], o, h[q], h[o], s[q], s[o])
      BY <1>1, <1>3, <2>1 DEF Nested
    <2>3. Len(s[o]) \in Nat
      BY <2>2, <1>1, HistoryTypes
    <2>4. Len(s[q]) = Len(s[o]) + 2 \/ Len(s[q]) = Len(s[o]) + 1
      BY <2>2 DEF Within
    <2> QED
      BY <2>3, <2>4
  <1> QED
    BY <1>2, <1>3

\* d opens the j-th of the blocks around q
Encloses(b, h, s, q, j, d) ==
  /\ d \in 1..q - 1 /\ Opens(b[d])
  /\ Len(h[d]) = j - 1 /\ \A i \in 1..j - 1 : h[d][i] = h[q][i]
  /\ Len(s[d]) < Len(s[q]) /\ \A l \in 1..Len(s[d]) : s[q][l] = s[d][l]
  /\ \A e \in d + 1..q : Len(h[e]) >= j /\ h[e][j] = d

\* The blocks around a position are open from their openers on.
LEMMA HistoryEncloses ==
  ASSUME NEW b \in Bodies, NEW m, NEW ps, NEW h, NEW s, History(b, m, ps, h, s)
  PROVE  \A q \in 1..m + 1 : \A j \in 1..Len(h[q]) : Encloses(b, h, s, q, j, h[q][j])
  <1>1. PICK T : T = {q \in 1..m + 1 : \A r \in 1..q : \A j \in 1..Len(h[r]) : Encloses(b, h, s, r, j, h[r][j])}
    OBVIOUS
  <1>2. m \in Nat /\ m + 1 \in Int /\ (m + 1) - 1 = m
    BY DEF History, Bodies
  <1>3. 1 \in T
    <2>1. h[1] = <<>> /\ Len(<<>>) = 0
      BY DEF History
    <2> QED
      BY <1>1, <1>2, <2>1
  <1>4. ASSUME NEW p \in 1..m, p \in T
        PROVE  p + 1 \in T
    <2>1. /\ p \in 1..m + 1 /\ p + 1 \in 1..m + 1
          /\ \A r \in 1..p : \A j \in 1..Len(h[r]) : Encloses(b, h, s, r, j, h[r][j])
      BY <1>1, <1>2, <1>4
    <2>2. Turned(b[p], p, h, s) /\ Nested(b, h, s, p)
      BY <2>1, HistoryTurn, HistoryNested
    <2>3. /\ h[p] \in Seq(Nat) /\ h[p + 1] \in Seq(Nat) /\ Len(s[p]) \in Nat /\ Len(s[p + 1]) \in Nat
          /\ Len(h[p]) \in Nat /\ Len(h[p + 1]) \in Nat
      BY <2>1, HistoryTypes
    <2> SUFFICES ASSUME NEW j \in 1..Len(h[p + 1])
                 PROVE  Encloses(b, h, s, p + 1, j, h[p + 1][j])
      BY <1>1, <1>2, <2>1
    <2>a. j \in Nat /\ j >= 1
      BY <2>3
    <2>b. PICK d : d = h[p + 1][j]
      OBVIOUS
    \* what is open before p and after it
    <2>4. ASSUME j \in 1..Len(h[p]), h[p][j] = d, Len(h[p + 1]) >= j,
                 Len(s[d]) < Len(s[p + 1]), \A l \in 1..Len(s[d]) : s[p + 1][l] = s[d][l],
                 \A i \in 1..j - 1 : h[p + 1][i] = h[p][i]
          PROVE  Encloses(b, h, s, p + 1, j, d)
      <3>1. Encloses(b, h, s, p, j, d)
        BY <2>1, <2>4
      <3>2. d \in 1..(p + 1) - 1 /\ Opens(b[d]) /\ Len(h[d]) = j - 1
        BY <3>1, <2>1 DEF Encloses
      <3>3. \A i \in 1..j - 1 : h[d][i] = h[p + 1][i]
        BY <3>1, <2>4 DEF Encloses
      <3>4. ASSUME NEW e \in d + 1..p + 1 PROVE Len(h[e]) >= j /\ h[e][j] = d
        <4>1. e \in d + 1..p \/ e = p + 1
          BY <3>2
        <4> QED
          BY <4>1, <3>1, <2>4, <2>b DEF Encloses
      <3> QED
        BY <3>2, <3>3, <3>4, <2>4 DEF Encloses
    <2>5. CASE b[p].k = "end"
      <3>1. PICK o : o = Inner(h, p)
        OBVIOUS
      <3>2. h[p] # <<>> /\ h[p + 1] = h[o] /\ s[p + 1] = s[o]
        BY <2>2, <2>5, <3>1 DEF Turned
      <3>3. o \in 1..p - 1 /\ Adds(h[p], h[o], o)
        BY <2>2, <3>1, <3>2 DEF Nested, Within
      <3>4. j \in 1..Len(h[o]) /\ h[o][j] = d /\ Encloses(b, h, s, o, j, d)
        BY <2>1, <2>b, <3>2, <3>3
      <3>a. Len(h[o]) \in Nat /\ Len(h[p]) = Len(h[o]) + 1 /\ \A i \in 1..Len(h[o]) : h[p][i] = h[o][i]
        BY <3>2, <3>3, <2>3 DEF Adds
      <3>5. j \in 1..Len(h[p]) /\ h[p][j] = d /\ \A i \in 1..j - 1 : h[p + 1][i] = h[p][i]
        <4>1. j \in 1..Len(h[p]) /\ \A i \in 1..j - 1 : i \in 1..Len(h[o])
          BY ONLY <3>4, <3>a, <2>a
        <4> QED
          BY <4>1, <3>2, <3>4, <3>a
      <3>6. Len(s[d]) < Len(s[p + 1]) /\ \A l \in 1..Len(s[d]) : s[p + 1][l] = s[d][l]
        BY <3>2, <3>4 DEF Encloses
      <3> QED
        BY <2>4, <2>a, <2>3, <2>b, <3>5, <3>6
    <2>6. CASE b[p].k # "end"
      <3>1. Widened(s[p + 1], s[p], b[p], p)
        BY <2>2, <2>6 DEF Turned
      <3>2. Len(s[p + 1]) >= Len(s[p]) /\ \A l \in 1..Len(s[p]) - 1 : s[p + 1][l] = s[p][l]
        BY <3>1, <2>3 DEF Widened, Looped, DeclaredIn, Adds
      <3>3. CASE Opens(b[p])
        <4>1. Adds(h[p + 1], h[p], p)
          BY <2>2, <2>6, <3>3 DEF Turned
        <4>2. CASE j <= Len(h[p])
          <5>1. j \in 1..Len(h[p]) /\ h[p][j] = d /\ \A i \in 1..j - 1 : h[p + 1][i] = h[p][i]
            BY <4>1, <4>2, <2>a, <2>b, <2>3 DEF Adds
          <5>2. Encloses(b, h, s, p, j, d)
            BY <2>1, <5>1
          <5>3. Len(s[d]) < Len(s[p + 1]) /\ Len(s[d]) \in Nat /\ Len(s[d]) <= Len(s[p]) - 1
            <6>1. d \in 1..m + 1 /\ Len(s[d]) < Len(s[p])
              BY <5>2, <2>1, <1>2 DEF Encloses
            <6>2. Len(s[d]) \in Nat
              BY <6>1, HistoryTypes
            <6> QED
              BY <6>1, <6>2, <3>2, <2>3
          <5>4. \A l \in 1..Len(s[d]) : s[p + 1][l] = s[d][l]
            <6>1. \A l \in 1..Len(s[d]) : l \in 1..Len(s[p]) - 1
              BY ONLY <5>3, <2>3
            <6> QED
              BY <6>1, <3>2, <5>2 DEF Encloses
          <5> QED
            BY <2>4, <2>3, <2>b, <5>1, <5>3, <5>4
        <4>3. CASE j > Len(h[p])
          <5>1. j = Len(h[p]) + 1 /\ d = p
            BY <4>1, <4>3, <2>b, <2>3 DEF Adds
          <5>2. Len(s[p]) < Len(s[p + 1]) /\ \A l \in 1..Len(s[p]) : s[p + 1][l] = s[p][l]
            BY <3>1, <3>3, <2>3 DEF Widened, Looped, Adds, Opens
          <5>3. Len(h[p + 1]) >= j /\ \A i \in 1..j - 1 : h[p][i] = h[p + 1][i]
            BY <4>1, <5>1, <2>3 DEF Adds
          <5>4. p \in 1..(p + 1) - 1 /\ Len(h[p]) = j - 1 /\ \A e \in p + 1..p + 1 : e = p + 1
            BY <5>1, <2>3, <2>1
          <5> QED
            BY <5>1, <5>2, <5>3, <5>4, <3>3, <2>b DEF Encloses
        <4> QED
          BY <4>2, <4>3, <2>a, <2>3
      <3>4. CASE ~Opens(b[p])
        <4>1. h[p + 1] = h[p]
          BY <2>2, <2>6, <3>4 DEF Turned
        <4>2. Encloses(b, h, s, p, j, d)
          BY <4>1, <2>1, <2>b
        <4>3. Len(s[d]) < Len(s[p + 1]) /\ Len(s[d]) \in Nat /\ Len(s[d]) <= Len(s[p]) - 1
          <5>1. d \in 1..m + 1 /\ Len(s[d]) < Len(s[p])
            BY <4>2, <2>1, <1>2 DEF Encloses
          <5>2. Len(s[d]) \in Nat
            BY <5>1, HistoryTypes
          <5> QED
            BY <5>1, <5>2, <3>2, <2>3
        <4>4. \A l \in 1..Len(s[d]) : s[p + 1][l] = s[d][l]
          <5>1. \A l \in 1..Len(s[d]) : l \in 1..Len(s[p]) - 1
            BY ONLY <4>3, <2>3
          <5> QED
            BY <5>1, <3>2, <4>2 DEF Encloses
        <4> QED
          BY <2>4, <2>3, <2>a, <2>b, <4>1, <4>3, <4>4
      <3> QED
        BY <3>3, <3>4
    <2> QED
      BY <2>5, <2>6, <2>b
  <1>5. \A q \in 1..m + 1 : q \in T
    <2>1. \A p \in 1..(m + 1) - 1 : p \in T => p + 1 \in T
      BY <1>2, <1>4
    <2> QED
      BY ONLY <1>2, <1>3, <2>1, GoingUp, 1 \in Int
  <1>6. \A q \in 1..m + 1 : q \in 1..q
    BY <1>2
  <1> QED
    BY <1>1, <1>5, <1>6

\* Positions of one block have the same scopes but for what the block declares.
LEMMA SameBlockLevels ==
  ASSUME NEW b \in Bodies, NEW m, NEW ps, NEW h, NEW s, History(b, m, ps, h, s),
         NEW p \in 1..m + 1, NEW q \in 1..m + 1, h[p] = h[q]
  PROVE  Len(s[p]) = Len(s[q]) /\ \A l \in 1..Len(s[q]) - 1 : s[p][l] = s[q][l]
  <1>1. Nested(b, h, s, p) /\ Nested(b, h, s, q) /\ Inner(h, p) = Inner(h, q)
    BY HistoryNested DEF Inner
  <1>2. Len(s[p]) \in Nat /\ Len(s[q]) \in Nat /\ p \in Nat /\ q \in Nat
    BY HistoryTypes
  <1>3. CASE h[q] = <<>>
    <2>1. Len(s[p]) = 1 /\ Len(s[q]) = 1
      BY <1>1, <1>3, Zenon DEF Nested
    <2> QED
      BY <2>1
  <1>4. CASE h[q] # <<>>
    <2>1. PICK o : o = Inner(h, q)
      OBVIOUS
    <2>2. /\ o \in 1..q - 1 /\ Within(b[o], o, h[q], h[o], s[q], s[o])
          /\ Within(b[o], o, h[p], h[o], s[p], s[o])
      BY <1>1, <1>4, <2>1 DEF Nested
    <2>3. Len(s[o]) \in Nat
      BY <2>2, <1>2, HistoryTypes
    <2>4. /\ Len(s[p]) = Len(s[q])
          /\ \A l \in 1..Len(s[o]) : s[p][l] = s[q][l]
      BY <2>2 DEF Within
    <2>5. CASE b[o].k = "for"
      <3>1. Len(s[q]) - 1 = Len(s[o]) + 1 /\ s[p][Len(s[o]) + 1] = s[q][Len(s[o]) + 1]
        BY <2>2, <2>3, <2>5 DEF Within
      <3>2. \A l \in 1..Len(s[q]) - 1 : l \in 1..Len(s[o]) \/ l = Len(s[o]) + 1
        BY ONLY <3>1, <2>3
      <3> QED
        BY <3>1, <3>2, <2>4
    <2>6. CASE b[o].k # "for"
      <3>1. Len(s[q]) = Len(s[o]) + 1
        BY <2>2, <2>6 DEF Within
      <3>2. Len(s[q]) - 1 = Len(s[o])
        BY <3>1, <2>3
      <3> QED
        BY <3>2, <2>4
    <2> QED
      BY <2>5, <2>6
  <1> QED
    BY <1>3, <1>4

\* the scope of the innermost block
Top(s, q) == s[q][Len(s[q])]

\* What a block declares stays declared in it.
Kept(b, h, s, p, q, n) ==
  \/ Top(s, q)[n] = Top(s, p)[n]
  \/ /\ Top(s, p)[n] = NONE
     /\ \E c \in p..q - 1 : Top(s, q)[n] = <<c>> /\ b[c].k = "decl" /\ b[c].x = n /\ h[c] = h[q]

LEMMA TopTypes ==
  ASSUME NEW b \in Bodies, NEW m, NEW ps, NEW h, NEW s, History(b, m, ps, h, s), NEW q \in 1..m + 1
  PROVE  Top(s, q) \in Level /\ Len(s[q]) \in 1..Len(s[q])
  <1>1. s[q] \in Seq(Level) /\ Len(s[q]) \in Nat /\ Len(s[q]) >= 1
    BY HistoryTypes, ScopesDeep
  <1> QED
    BY <1>1 DEF Top

LEMMA SameBlockTop ==
  ASSUME NEW b \in Bodies, NEW m, NEW ps, NEW h, NEW s, History(b, m, ps, h, s)
  PROVE  \A q \in 1..m + 1 : \A p \in 1..q : h[p] = h[q] => \A n \in Names : Kept(b, h, s, p, q, n)
  <1>1. PICK T : T = {q \in 1..m + 1 : \A r \in 1..q : \A p \in 1..r :
                        h[p] = h[r] => \A n \in Names : Kept(b, h, s, p, r, n)}
    OBVIOUS
  <1>2. m \in Nat /\ m + 1 \in Int /\ (m + 1) - 1 = m
    BY DEF History, Bodies
  <1>a. \A q, n : Kept(b, h, s, q, q, n)
    BY DEF Kept
  <1>3. 1 \in T
    <2>1. \A r \in 1..1 : \A p \in 1..r : p = r
      OBVIOUS
    <2> QED
      BY <1>1, <1>2, <1>a, <2>1
  <1>4. ASSUME NEW q \in 1..m, q \in T
        PROVE  q + 1 \in T
    <2>1. /\ q \in 1..m + 1 /\ q + 1 \in 1..m + 1
          /\ \A r \in 1..q : \A p \in 1..r : h[p] = h[r] => \A n \in Names : Kept(b, h, s, p, r, n)
      BY <1>1, <1>2, <1>4
    <2>2. Turned(b[q], q, h, s) /\ Nested(b, h, s, q)
      BY <2>1, HistoryTurn, HistoryNested
    <2>3. /\ h[q] \in Seq(Nat) /\ h[q + 1] \in Seq(Nat) /\ Len(s[q]) \in Nat /\ Len(s[q + 1]) \in Nat
          /\ Len(h[q]) \in Nat /\ Len(h[q + 1]) \in Nat
      BY <2>1, HistoryTypes
    <2> SUFFICES ASSUME NEW p \in 1..q, h[p] = h[q + 1], NEW n \in Names
                 PROVE  Kept(b, h, s, p, q + 1, n)
      BY <1>1, <1>2, <1>a, <2>1
    <2>a. p \in 1..m + 1
      BY <1>2
    <2>4. CASE b[q].k = "end"
      <3>1. PICK o : o = Inner(h, q)
        OBVIOUS
      <3>2. h[q] # <<>> /\ h[q + 1] = h[o] /\ s[q + 1] = s[o]
        BY <2>2, <2>4, <3>1 DEF Turned
      <3>3. o \in 1..q - 1 /\ Adds(h[q], h[o], o)
        BY <2>2, <3>1, <3>2 DEF Nested, Within
      <3>4. CASE p <= o
        <4>1. p \in 1..o /\ o \in 1..q /\ h[p] = h[o]
          BY <3>2, <3>3, <3>4
        <4>2. Kept(b, h, s, p, o, n)
          BY <4>1, <2>1
        <4>3. \A c \in p..o - 1 : c \in p..(q + 1) - 1
          BY <3>3
        <4> QED
          BY <4>2, <4>3, <3>2 DEF Kept, Top
      <3>5. CASE p > o
        <4>1. Len(h[q]) \in 1..Len(h[q]) /\ h[q][Len(h[q])] = o
          BY <3>1, <3>2, <2>3 DEF Inner
        <4>2. Encloses(b, h, s, q, Len(h[q]), o)
          BY <4>1, <2>1, HistoryEncloses
        <4>3. p \in o + 1..q
          BY <3>3, <3>5
        <4>4. Len(h[p]) >= Len(h[q]) /\ Len(h[o]) = Len(h[q]) - 1
          BY <4>2, <4>3 DEF Encloses
        <4> QED
          BY <4>4, <3>2, <2>3
      <3> QED
        BY <3>4, <3>5, <3>3
    <2>5. CASE Opens(b[q])
      <3>1. Adds(h[q + 1], h[q], q)
        BY <2>2, <2>5 DEF Turned, Opens
      <3>2. h[p] # <<>> /\ Inner(h, p) = q
        BY <3>1, <2>3 DEF Inner, Adds
      <3>3. Nested(b, h, s, p)
        BY <2>a, HistoryNested
      <3> QED
        BY <3>2, <3>3 DEF Nested
    <2>6. CASE b[q].k # "end" /\ ~Opens(b[q])
      <3>1. h[q + 1] = h[q] /\ Widened(s[q + 1], s[q], b[q], q)
        BY <2>2, <2>6 DEF Turned
      <3>2. Kept(b, h, s, p, q, n)
        BY <3>1, <2>1
      <3>3. \A c \in p..q - 1 : c \in p..(q + 1) - 1
        BY <2>1
      <3>4. CASE b[q].k # "decl"
        <4>1. s[q + 1] = s[q]
          BY <3>1, <3>4, <2>6 DEF Widened, Opens
        <4> QED
          BY <4>1, <3>1, <3>2, <3>3 DEF Kept, Top
      <3>5. CASE b[q].k = "decl"
        <4>1. /\ DeclaredIn(s[q + 1], s[q], b[q].x, q)
              /\ b[q].x \in Names /\ Top(s, q) \in Level
          <5>1. q \in 1..Len(b)
            BY <2>1, HistoryTypes
          <5> QED
            BY <5>1, <3>1, <3>5, <2>1, ItemTypes, TopTypes DEF Widened
        <4>2. Top(s, q)[b[q].x] = NONE /\ Top(s, q + 1) = [Top(s, q) EXCEPT ![b[q].x] = <<q>>]
          BY <4>1 DEF DeclaredIn, Top
        <4>3. CASE n = b[q].x
          <5>1. Top(s, q + 1)[n] = <<q>> /\ Top(s, q)[n] = NONE
            BY <4>1, <4>2, <4>3 DEF Level
          <5>2. Top(s, p)[n] = NONE
            BY <5>1, <3>2 DEF Kept
          <5>3. q \in p..(q + 1) - 1
            BY <2>1
          <5> QED
            BY <5>1, <5>2, <5>3, <3>1, <3>5, <4>3 DEF Kept
        <4>4. CASE n # b[q].x
          <5>1. Top(s, q + 1)[n] = Top(s, q)[n]
            BY <4>1, <4>2, <4>4 DEF Level
          <5> QED
            BY <5>1, <3>1, <3>2, <3>3 DEF Kept
        <4> QED
          BY <4>3, <4>4
      <3> QED
        BY <3>4, <3>5
    <2> QED
      BY <2>4, <2>5, <2>6
  <1>5. \A q \in 1..m + 1 : q \in T
    <2>1. \A p \in 1..(m + 1) - 1 : p \in T => p + 1 \in T
      BY <1>2, <1>4
    <2> QED
      BY ONLY <1>2, <1>3, <2>1, GoingUp, 1 \in Int
  <1>6. \A q \in 1..m + 1 : q \in 1..q
    BY <1>2
  <1> QED
    BY <1>1, <1>5, <1>6

\* The end of a block is its last position.
LEMMA EndIsLast ==
  ASSUME NEW b \in Bodies, NEW m, NEW ps, NEW h, NEW s, History(b, m, ps, h, s),
         NEW e \in 1..m, b[e].k = "end", NEW q \in 1..m + 1, h[q] = h[e]
  PROVE  q <= e
  <1> SUFFICES ASSUME q > e PROVE FALSE
    BY HistoryTypes
  <1>1. PICK o : o = Inner(h, e)
    OBVIOUS
  <1>2. m \in Nat /\ e \in 1..m + 1 /\ e + 1 \in 1..m + 1
    BY HistoryTypes
  <1>3. Turned(b[e], e, h, s) /\ Nested(b, h, s, e)
    BY <1>2, HistoryTurn, HistoryNested
  <1>4. h[e] # <<>> /\ h[e + 1] = h[o] /\ Len(h[e]) \in Nat /\ Len(h[e]) >= 1 /\ Len(h[o]) = Len(h[e]) - 1
    <2>1. h[e] # <<>> /\ h[e + 1] = h[o]
      BY <1>1, <1>3 DEF Turned
    <2>2. o \in 1..e - 1 /\ Adds(h[e], h[o], o)
      BY <2>1, <1>1, <1>3 DEF Nested, Within
    <2>3. Len(h[e]) \in Nat /\ Len(h[e]) >= 1
      BY <2>1, <1>2, HistoryTypes
    <2>4. Len(h[o]) \in Nat
      BY <1>2, <2>2, HistoryTypes
    <2> QED
      BY <2>1, <2>2, <2>3, <2>4 DEF Adds
  <1>5. h[q][Len(h[q])] = o /\ Len(h[q]) \in 1..Len(h[q])
    BY <1>1, <1>4 DEF Inner
  <1>6. Encloses(b, h, s, q, Len(h[q]), o)
    BY <1>5, HistoryEncloses
  <1>7. o \in 1..e - 1
    BY <1>1, <1>3, <1>4 DEF Nested
  <1>8. e + 1 \in o + 1..q
    BY <1>2, <1>7
  <1>9. Len(h[e + 1]) >= Len(h[q])
    BY <1>6, <1>8 DEF Encloses
  <1> QED
    BY <1>4, <1>9

-----------------------------------------------------------------------------
(* Depth, Opener, EndOf and Around read from a history.                    *)

\* How many members of P there are up to a number and up to the next.
LEMMA CountNext ==
  ASSUME NEW P, NEW p \in Nat, NEW A, NEW B, A = {i \in 1..p : i \in P}, B = {i \in 1..p + 1 : i \in P}
  PROVE  Cardinality(A) \in Nat /\ Cardinality(B) = Cardinality(A) + (IF p + 1 \in P THEN 1 ELSE 0)
  <1>2. IsFiniteSet(A)
    <2>1. IsFiniteSet(1..p) /\ A \subseteq 1..p
      BY FS_Interval
    <2> QED
      BY <2>1, FS_Subset
  <1>3. Cardinality(A) \in Nat /\ p + 1 \notin A
    BY <1>2, FS_CardinalityType
  <1>4. CASE p + 1 \in P
    <2>1. B = A \cup {p + 1}
      BY <1>4
    <2>2. Cardinality(A \cup {p + 1}) = Cardinality(A) + 1
      BY <1>2, <1>3, FS_AddElement
    <2> QED
      BY <1>3, <1>4, <2>1, <2>2
  <1>5. CASE p + 1 \notin P
    <2>1. B = A
      BY <1>5
    <2> QED
      BY <1>3, <1>5, <2>1
  <1> QED
    BY <1>4, <1>5

\* The depth after an item is the number of blocks open there.
LEMMA DepthIs ==
  ASSUME body \in Bodies, NEW m, NEW ps, NEW h, NEW s, History(body, m, ps, h, s)
  PROVE  \A p \in 0..m : Depth(p) = Len(h[p + 1])
  <1>1. PICK T : T = {p \in 0..m : Depth(p) = Len(h[p + 1])}
    OBVIOUS
  <1>2. PICK O, E : O = {i \in 1..m : Opens(body[i])} /\ E = {i \in 1..m : body[i].k = "end"}
    OBVIOUS
  <1>3. m \in Nat
    BY DEF History, Bodies
  <1>4. ASSUME NEW p \in 0..m
        PROVE  Depth(p) = Cardinality({i \in 1..p : i \in O}) - Cardinality({i \in 1..p : i \in E})
    <2>1. \A i \in 1..p : i \in 1..m
      BY <1>3
    <2>2. /\ {i \in 1..p : Opens(body[i])} = {i \in 1..p : i \in O}
          /\ {i \in 1..p : body[i].k = "end"} = {i \in 1..p : i \in E}
      BY <1>2, <2>1
    <2> QED
      BY <2>2 DEF Depth
  <1>5. 0 \in T
    <2>1. {i \in 1..0 : i \in O} = {} /\ {i \in 1..0 : i \in E} = {}
      OBVIOUS
    <2>2. Depth(0) = 0
      BY <1>3, <1>4, <2>1, FS_EmptySet
    <2>3. h[0 + 1] = <<>>
      BY DEF History
    <2> QED
      BY <1>1, <1>3, <2>2, <2>3
  <1>6. ASSUME NEW p \in 0..m - 1, p \in T
        PROVE  p + 1 \in T
    <2>1. p \in 0..m /\ p + 1 \in 0..m /\ p + 1 \in 1..m /\ p \in Nat /\ Depth(p) = Len(h[p + 1])
      BY <1>1, <1>3, <1>6
    <2>2. PICK q : q = p + 1
      OBVIOUS
    <2>3. /\ Turned(body[q], q, h, s) /\ Nested(body, h, s, q) /\ q \in 1..m + 1 /\ q + 1 \in 1..m + 1
          /\ q \in 1..m
      BY <1>3, <2>1, <2>2, HistoryTurn, HistoryNested
    <2>4. Len(h[q]) \in Nat /\ Len(h[q + 1]) \in Nat
      BY <2>3, HistoryTypes
    <2>5. PICK O0, O1, E0, E1 : /\ O0 = {i \in 1..p : i \in O} /\ O1 = {i \in 1..p + 1 : i \in O}
                                /\ E0 = {i \in 1..p : i \in E} /\ E1 = {i \in 1..p + 1 : i \in E}
      OBVIOUS
    <2>6. /\ Cardinality(O0) \in Nat /\ Cardinality(E0) \in Nat
          /\ Cardinality(O1) = Cardinality(O0) + (IF q \in O THEN 1 ELSE 0)
          /\ Cardinality(E1) = Cardinality(E0) + (IF q \in E THEN 1 ELSE 0)
      BY <2>1, <2>2, <2>5, CountNext
    <2>7. Depth(p) = Cardinality(O0) - Cardinality(E0) /\ Depth(q) = Cardinality(O1) - Cardinality(E1)
      BY <1>4, <2>1, <2>2, <2>5
    <2>8. CASE Opens(body[q])
      <3>1. q \in O /\ q \notin E
        BY <1>2, <2>3, <2>8 DEF Opens
      <3>2. Len(h[q + 1]) = Len(h[q]) + 1
        BY <2>3, <2>8 DEF Turned, Opens, Adds
      <3>3. Depth(q) = Depth(p) + 1
        BY <2>6, <2>7, <3>1
      <3> QED
        BY <1>1, <2>1, <2>2, <3>2, <3>3
    <2>9. CASE body[q].k = "end"
      <3>1. q \notin O /\ q \in E
        BY <1>2, <2>3, <2>9 DEF Opens
      <3>2. PICK o : o = Inner(h, q)
        OBVIOUS
      <3>3. h[q] # <<>> /\ h[q + 1] = h[o]
        BY <2>3, <2>9, <3>2 DEF Turned
      <3>4. o \in 1..q - 1 /\ Adds(h[q], h[o], o)
        BY <2>3, <3>2, <3>3 DEF Nested, Within
      <3>5. Len(h[q]) = Len(h[q + 1]) + 1
        BY <3>3, <3>4 DEF Adds
      <3>6. Depth(q) = Depth(p) - 1
        BY <2>6, <2>7, <3>1
      <3> QED
        BY <1>1, <2>1, <2>2, <2>4, <3>5, <3>6
    <2>10. CASE ~Opens(body[q]) /\ body[q].k # "end"
      <3>1. q \notin O /\ q \notin E
        BY <1>2, <2>10
      <3>2. h[q + 1] = h[q]
        BY <2>3, <2>10 DEF Turned
      <3>3. Depth(q) = Depth(p)
        BY <2>6, <2>7, <3>1
      <3> QED
        BY <1>1, <2>1, <2>2, <3>2, <3>3
    <2> QED
      BY <2>8, <2>9, <2>10
  <1>7. \A p \in 0..m : p \in T
    BY ONLY <1>3, <1>5, <1>6, GoingUp, 0 \in Int, m \in Int
  <1> QED
    BY <1>1, <1>7

\* The opener of a position is its innermost block.
LEMMA OpenerIs ==
  ASSUME body \in Bodies, NEW m, NEW ps, NEW h, NEW s, History(body, m, ps, h, s),
         NEW q \in 1..m + 1, h[q] # <<>>
  PROVE  Opener(q) = Inner(h, q)
  <1>1. PICK o, D : o = Inner(h, q) /\ D = {d \in 1..q - 1 : Opens(body[d]) /\ Depth(d) = Depth(q - 1)}
    OBVIOUS
  <1>2. m \in Nat /\ Len(h[q]) \in Nat /\ Len(h[q]) >= 1 /\ q \in Nat
    BY HistoryTypes
  <1>3. \A p \in 0..m : Depth(p) = Len(h[p + 1])
    BY DepthIs
  <1>4. o \in 1..q - 1 /\ Opens(body[o]) /\ Adds(h[q], h[o], o)
    BY <1>1, HistoryNested DEF Nested, Within
  <1>5. o = h[q][Len(h[q])] /\ Len(h[q]) \in 1..Len(h[q])
    BY <1>1, <1>2 DEF Inner
  <1>6. \A e \in o + 1..q : Len(h[e]) >= Len(h[q])
    <2>1. Encloses(body, h, s, q, Len(h[q]), o)
      BY <1>5, HistoryEncloses
    <2> QED
      BY <2>1 DEF Encloses
  <1>7. Depth(q - 1) = Len(h[q])
    <2>1. q - 1 \in 0..m /\ (q - 1) + 1 = q
      BY <1>2
    <2> QED
      BY <1>3, <2>1
  <1>8. ASSUME NEW d \in 1..q - 1, Opens(body[d])
        PROVE  d \in 1..m /\ Depth(d) = Len(h[d]) + 1
    <2>1. d \in 1..m /\ d \in 0..m
      BY <1>2
    <2>2. Adds(h[d + 1], h[d], d)
      BY <2>1, <1>8, HistoryTurn DEF Turned, Opens
    <2> QED
      BY <1>3, <2>1, <2>2 DEF Adds
  <1>9. o \in D
    <2>1. Depth(o) = Len(h[o]) + 1 /\ Len(h[q]) = Len(h[o]) + 1
      BY <1>4, <1>8 DEF Adds
    <2> QED
      BY <1>1, <1>4, <1>7, <2>1
  <1>10. ASSUME NEW d \in D PROVE o >= d
    <2>1. d \in 1..q - 1 /\ Opens(body[d]) /\ Depth(d) = Len(h[q])
      BY <1>1, <1>7
    <2>2. Len(h[d]) \in Nat /\ Depth(d) = Len(h[d]) + 1
      <3>1. d \in 1..m + 1
        BY <2>1, <1>2
      <3> QED
        BY <2>1, <1>8, <3>1, HistoryTypes
    <2>3. SUFFICES ASSUME d > o PROVE FALSE
      BY <2>1, <1>4, <1>2
    <2>4. d \in o + 1..q
      BY <2>1, <2>3, <1>4, <1>2
    <2> QED
      BY <1>6, <2>1, <2>2, <2>4
  <1>11. \A x \in D : (\A y \in D : x >= y) => x = o
    <2>1. \A x \in D : x \in Nat
      BY <1>1, <1>2
    <2> QED
      BY <1>9, <1>10, <2>1
  <1>12. (CHOOSE x \in D : \A y \in D : x >= y) = o
    BY <1>9, <1>10, <1>11
  <1> QED
    BY <1>1, <1>12 DEF Opener, Max

\* Where a block stays open, it is the block it was.
LEMMA BlockStays ==
  ASSUME NEW b \in Bodies, NEW m, NEW ps, NEW h, NEW s, History(b, m, ps, h, s),
         NEW d \in 1..m, Opens(b[d]), NEW e \in d + 1..m + 1,
         \A i \in d + 1..e : Len(h[i]) >= Len(h[d]) + 1
  PROVE  \A i \in d + 1..e : /\ Len(h[i]) >= Len(h[d]) + 1 /\ h[i][Len(h[d]) + 1] = d
                             /\ \A j \in 1..Len(h[d]) : h[i][j] = h[d][j]
  <1>1. PICK k : k = Len(h[d]) + 1
    OBVIOUS
  <1>2. /\ m \in Nat /\ d \in Nat /\ e \in Nat /\ d + 1 <= e /\ d + 1 \in Int /\ e \in Int
        /\ d \in 1..m + 1 /\ Len(h[d]) \in Nat /\ k \in Nat
    <2>1. m \in Nat /\ d \in 1..m + 1
      BY HistoryTypes
    <2>2. Len(h[d]) \in Nat
      BY <2>1, HistoryTypes
    <2> QED
      BY <1>1, <2>1, <2>2
  <1>3. PICK T : T = {i \in d + 1..e : h[i][k] = d /\ \A j \in 1..k - 1 : h[i][j] = h[d][j]}
    OBVIOUS
  <1>4. d + 1 \in T
    <2>1. Adds(h[d + 1], h[d], d)
      BY HistoryTurn DEF Turned, Opens
    <2> QED
      BY <1>1, <1>2, <1>3, <2>1 DEF Adds
  <1>5. ASSUME NEW i \in d + 1..e - 1, i \in T
        PROVE  i + 1 \in T
    <2>1. /\ i \in 1..m /\ i \in 1..m + 1 /\ i + 1 \in 1..m + 1 /\ i + 1 \in d + 1..e
          /\ h[i][k] = d /\ \A j \in 1..k - 1 : h[i][j] = h[d][j]
      BY <1>2, <1>3, <1>5
    <2>2. Len(h[i]) >= k /\ Len(h[i + 1]) >= k
      BY <1>1, <2>1
    <2>3. Turned(b[i], i, h, s) /\ Nested(b, h, s, i) /\ Len(h[i]) \in Nat /\ Len(h[i + 1]) \in Nat
      BY <2>1, HistoryTurn, HistoryNested, HistoryTypes
    <2>4. \A j \in 1..k : h[i + 1][j] = h[i][j]
      <3>1. CASE b[i].k = "end"
        <4>1. PICK o : o = Inner(h, i)
          OBVIOUS
        <4>2. h[i] # <<>> /\ h[i + 1] = h[o]
          BY <2>3, <3>1, <4>1 DEF Turned
        <4>3. Adds(h[i], h[o], o)
          BY <2>3, <4>1, <4>2 DEF Nested, Within
        <4>4. \A j \in 1..k : j \in 1..Len(h[o])
          BY <1>2, <2>2, <2>3, <4>2
        <4> QED
          BY <4>2, <4>3, <4>4 DEF Adds
      <3>2. CASE Opens(b[i])
        <4>1. Adds(h[i + 1], h[i], i)
          BY <2>3, <3>2 DEF Turned, Opens
        <4>2. \A j \in 1..k : j \in 1..Len(h[i])
          BY <1>2, <2>2, <2>3
        <4> QED
          BY <4>1, <4>2 DEF Adds
      <3>3. CASE b[i].k # "end" /\ ~Opens(b[i])
        BY <2>3, <3>3 DEF Turned
      <3> QED
        BY <3>1, <3>2, <3>3
    <2>5. k \in 1..k /\ \A j \in 1..k - 1 : j \in 1..k
      BY <1>1, <1>2
    <2>6. h[i + 1][k] = d /\ \A j \in 1..k - 1 : h[i + 1][j] = h[d][j]
      BY <2>1, <2>4, <2>5
    <2> QED
      BY <1>3, <2>1, <2>6
  <1>6. \A i \in d + 1..e : i \in T
    BY ONLY <1>2, <1>4, <1>5, GoingUp
  <1> QED
    BY <1>1, <1>2, <1>3, <1>6

\* e is the end of the block that d opens
Ends(b, h, s, d, e) ==
  /\ e \in d + 1..Len(b) /\ b[e].k = "end" /\ Inner(h, e) = d
  /\ h[e + 1] = h[d] /\ s[e + 1] = s[d]
  /\ \A i \in d + 1..e : Len(h[i]) >= Len(h[d]) + 1 /\ h[i][Len(h[d]) + 1] = d

\* In a finished body every block has its end.
LEMMA EndOfIs ==
  ASSUME body \in Bodies, NEW ps, NEW h, NEW s, History(body, Len(body), ps, h, s),
         h[Len(body) + 1] = <<>>, NEW d \in 1..Len(body), Opens(body[d])
  PROVE  Ends(body, h, s, d, EndOf(d))
  <1>1. PICK m : m = Len(body)
    OBVIOUS
  <1>2. History(body, m, ps, h, s) /\ m \in Nat /\ d \in 1..m /\ h[m + 1] = <<>>
    BY <1>1 DEF History
  <1>3. PICK k : k = Len(h[d]) + 1
    OBVIOUS
  <1>4. \A p \in 0..m : Depth(p) = Len(h[p + 1])
    BY <1>2, DepthIs
  <1>5. d \in 1..m + 1 /\ d + 1 \in 1..m + 1 /\ Adds(h[d + 1], h[d], d)
    BY <1>2, HistoryTurn DEF Turned, Opens
  <1>6. k \in Nat /\ k >= 1 /\ Len(h[d + 1]) = k /\ Len(h[d]) = k - 1 /\ h[d] \in Seq(Nat)
    <2>1. Len(h[d]) \in Nat /\ h[d] \in Seq(Nat)
      BY <1>2, <1>5, HistoryTypes
    <2> QED
      BY <1>3, <1>5, <2>1 DEF Adds
  <1>7. PICK D : D = {e \in d + 1..m : Depth(e) < Depth(d)}
    OBVIOUS
  <1>8. \A e \in d + 1..m : Depth(e) = Len(h[e + 1]) /\ Len(h[e + 1]) \in Nat
    <2>1. \A e \in d + 1..m : e \in 0..m /\ e + 1 \in 1..m + 1
      BY <1>2
    <2> QED
      BY <1>2, <1>4, <2>1, HistoryTypes
  <1>9. Depth(d) = k
    BY <1>2, <1>4, <1>6
  <1>10. m \in D
    <2>1. Len(h[m + 1]) = 0
      BY <1>2
    <2>2. m # d
      BY <1>2, <1>6, <2>1
    <2>3. m \in d + 1..m
      BY <1>2, <2>2
    <2> QED
      BY <1>6, <1>7, <1>8, <1>9, <2>1, <2>3
  <1>11. D \in SUBSET Nat /\ D # {}
    BY <1>2, <1>7, <1>10
  <1>12. PICK e \in D : \A f \in D : e <= f
    BY <1>11, LeastNat
  <1>13. EndOf(d) = e
    <2>1. \A x \in D : (\A y \in D : x <= y) => x = e
      BY <1>11, <1>12
    <2>2. (CHOOSE x \in D : \A y \in D : x =< y) = e
      BY <1>12, <2>1
    <2> QED
      BY <1>1, <1>7, <2>2 DEF EndOf, Min
  <1>14. e \in d + 1..m /\ Len(h[e + 1]) < k
    BY <1>7, <1>8, <1>9
  <1>15. \A i \in d + 1..e : Len(h[i]) >= k
    <2> SUFFICES ASSUME NEW i \in d + 1..e, ~(Len(h[i]) >= k) PROVE FALSE
      OBVIOUS
    <2>1. i # d + 1
      BY <1>6
    <2>2. i - 1 \in d + 1..m /\ (i - 1) + 1 = i
      BY <1>14, <2>1, <1>2
    <2>3. Depth(i - 1) < Depth(d)
      BY <1>8, <1>9, <1>6, <2>2
    <2>4. i - 1 \in D
      BY <1>7, <2>2, <2>3
    <2> QED
      BY <1>2, <1>12, <1>14, <2>4
  <1>16. \A i \in d + 1..e : Len(h[i]) >= k /\ h[i][k] = d /\ \A j \in 1..k - 1 : h[i][j] = h[d][j]
    <2>1. e \in d + 1..m + 1
      BY <1>2, <1>14
    <2>2. \A i \in d + 1..e : Len(h[i]) >= Len(h[d]) + 1
      BY <1>3, <1>15
    <2>3. \A i \in d + 1..e : /\ Len(h[i]) >= Len(h[d]) + 1 /\ h[i][Len(h[d]) + 1] = d
                             /\ \A j \in 1..Len(h[d]) : h[i][j] = h[d][j]
      <3>1. /\ body \in Bodies /\ History(body, m, ps, h, s) /\ d \in 1..m /\ Opens(body[d])
        BY <1>2
      <3> QED
        BY ONLY <2>1, <2>2, <3>1, BlockStays
    <2> QED
      BY <1>3, <1>6, <2>3
  <1>17. /\ e \in 1..m /\ e \in 1..m + 1 /\ e + 1 \in 1..m + 1 /\ e \in d + 1..e
         /\ Turned(body[e], e, h, s) /\ Nested(body, h, s, e)
    <2>1. e \in 1..m /\ e \in 1..m + 1 /\ e + 1 \in 1..m + 1 /\ e \in d + 1..e
      BY <1>2, <1>14
    <2> QED
      BY <1>2, <2>1, HistoryTurn, HistoryNested
  <1>18. Len(h[e]) \in Nat /\ Len(h[e + 1]) \in Nat /\ Len(h[e]) >= k
    BY <1>2, <1>16, <1>17, HistoryTypes
  <1>19. body[e].k = "end"
    <2>1. Opens(body[e]) => Len(h[e + 1]) = Len(h[e]) + 1
      BY <1>17 DEF Turned, Opens, Adds
    <2>2. body[e].k # "end" /\ ~Opens(body[e]) => h[e + 1] = h[e]
      BY <1>17 DEF Turned
    <2> QED
      BY <1>6, <1>14, <1>18, <2>1, <2>2
  <1>20. PICK o : o = Inner(h, e)
    OBVIOUS
  <1>21. /\ h[e] # <<>> /\ h[e + 1] = h[o] /\ s[e + 1] = s[o] /\ Adds(h[e], h[o], o)
    BY <1>17, <1>19, <1>20 DEF Turned, Nested, Within
  <1>22. Len(h[e]) = k
    BY <1>6, <1>14, <1>18, <1>21 DEF Adds
  <1>23. o = d
    BY <1>16, <1>17, <1>20, <1>21, <1>22 DEF Inner
  <1> QED
    BY <1>1, <1>3, <1>13, <1>14, <1>16, <1>19, <1>20, <1>21, <1>23 DEF Ends

\* The blocks around a position are those open there.
LEMMA AroundIs ==
  ASSUME body \in Bodies, NEW ps, NEW h, NEW s, History(body, Len(body), ps, h, s),
         h[Len(body) + 1] = <<>>, NEW p \in 1..Len(body)
  PROVE  Around(p) = {h[p][j] : j \in 1..Len(h[p])}
  <1>1. p \in 1..Len(body) + 1 /\ p \in Nat /\ Len(h[p]) \in Nat /\ Len(body) \in Nat
    <2>1. p \in 1..Len(body) + 1
      BY DEF Bodies
    <2> QED
      BY <2>1, HistoryTypes
  <1>2. ASSUME NEW d \in Around(p) PROVE d \in {h[p][j] : j \in 1..Len(h[p])}
    <2>1. d \in 1..p - 1 /\ Opens(body[d]) /\ EndOf(d) >= p /\ d \in 1..Len(body) /\ d \in 1..Len(body) + 1
      BY <1>1 DEF Around
    <2>2. Ends(body, h, s, d, EndOf(d)) /\ Len(h[d]) \in Nat
      BY <2>1, EndOfIs, HistoryTypes
    <2>3. p \in d + 1..EndOf(d)
      BY <1>1, <2>1, <2>2 DEF Ends
    <2>4. Len(h[p]) >= Len(h[d]) + 1 /\ h[p][Len(h[d]) + 1] = d
      BY <2>2, <2>3 DEF Ends
    <2>5. Len(h[d]) + 1 \in 1..Len(h[p])
      BY <1>1, <2>2, <2>4
    <2> QED
      BY <2>4, <2>5
  <1>3. ASSUME NEW j \in 1..Len(h[p]) PROVE h[p][j] \in Around(p)
    <2>1. PICK d : d = h[p][j]
      OBVIOUS
    <2>2. Encloses(body, h, s, p, j, d)
      BY <1>1, <2>1, HistoryEncloses
    <2>3. d \in 1..p - 1 /\ Opens(body[d]) /\ d \in 1..Len(body)
      BY <1>1, <2>2 DEF Encloses
    <2>4. Ends(body, h, s, d, EndOf(d))
      BY <2>3, EndOfIs
    <2>5. SUFFICES ASSUME ~(EndOf(d) >= p) PROVE FALSE
      BY <2>1, <2>3 DEF Around
    <2>6. EndOf(d) + 1 \in d + 1..p
      BY <1>1, <2>3, <2>4, <2>5 DEF Ends
    <2>7. Len(h[EndOf(d) + 1]) >= j /\ Len(h[d]) = j - 1
      BY <2>2, <2>6 DEF Encloses
    <2> QED
      BY <2>4, <2>7 DEF Ends
  <1> QED
    BY <1>2, <1>3

\* After an item, and what it opens, comes a position of the same block.
LEMMA NextItemIs ==
  ASSUME body \in Bodies, NEW ps, NEW h, NEW s, History(body, Len(body), ps, h, s),
         h[Len(body) + 1] = <<>>, NEW p \in 1..Len(body), body[p].k # "end"
  PROVE  /\ NextItem(p) \in p + 1..Len(body) + 1 /\ h[NextItem(p)] = h[p]
         /\ body[p].k # "decl" => s[NextItem(p)] = s[p]
         /\ body[p].k = "decl" => NextItem(p) = p + 1
  <1>1. Len(body) \in Nat
    BY DEF Bodies
  <1>2. CASE Opens(body[p])
    <2>1. Ends(body, h, s, p, EndOf(p)) /\ NextItem(p) = EndOf(p) + 1
      BY <1>2, EndOfIs DEF NextItem
    <2>2. EndOf(p) + 1 \in p + 1..Len(body) + 1
      BY <1>1, <2>1 DEF Ends
    <2> QED
      BY <1>2, <2>1, <2>2 DEF Ends, Opens
  <1>3. CASE ~Opens(body[p])
    <2>1. NextItem(p) = p + 1 /\ h[p + 1] = h[p] /\ Widened(s[p + 1], s[p], body[p], p)
      BY <1>3, HistoryTurn DEF NextItem, Turned
    <2>2. p + 1 \in p + 1..Len(body) + 1
      BY <1>1
    <2> QED
      BY <1>3, <2>1, <2>2 DEF Widened, Opens
  <1> QED
    BY <1>2, <1>3

-----------------------------------------------------------------------------
(* The checker's scopes.                                                   *)

LEMMA NoneApart ==
  \A c \in Nat : <<c>> # NONE
  <1>1. NONE \notin Seq(Nat)
    BY NamesAssumption
  <1>2. \A c \in Nat : <<c>> \in Seq(Nat)
    OBVIOUS
  <1> QED
    BY <1>1, <1>2

LEMMA ScopesTypes ==
  /\ NoNames \in Level /\ \A n \in Names : NoNames[n] = NONE
  /\ \A x \in Names, p \in Nat : FirstPart(x, p) \in Level
  /\ \A x \in Names, p \in Nat, n \in Names : FirstPart(x, p)[n] = IF n = x THEN <<p>> ELSE NONE
  <1>1. NoNames \in Level /\ \A n \in Names : NoNames[n] = NONE
    BY DEF NoNames, Level
  <1>2. \A x \in Names, p \in Nat : FirstPart(x, p) \in Level
    BY <1>1 DEF FirstPart, Level
  <1>3. \A x \in Names, p \in Nat, n \in Names : FirstPart(x, p)[n] = IF n = x THEN <<p>> ELSE NONE
    BY <1>1 DEF FirstPart, Level
  <1> QED
    BY <1>1, <1>2, <1>3

\* What Put returns.
LEMMA PutIs ==
  ASSUME NEW c \in Seq(Level), Len(c) >= 1, NEW x \in Names, NEW p \in Nat
  PROVE  /\ Put(c, x, <<p>>) \in Seq(Level) /\ Len(Put(c, x, <<p>>)) = Len(c)
         /\ Put(c, x, <<p>>)[Len(c)] = [c[Len(c)] EXCEPT ![x] = <<p>>]
         /\ \A l \in 1..Len(c) - 1 : Put(c, x, <<p>>)[l] = c[l]
  <1>1. Len(c) \in Nat /\ Len(c) \in 1..Len(c) /\ c[Len(c)] \in Level
    OBVIOUS
  <1>2. PICK t : t = [c[Len(c)] EXCEPT ![x] = <<p>>]
    OBVIOUS
  <1>3. t \in Level
    BY <1>1, <1>2 DEF Level
  <1>4. Put(c, x, <<p>>) = [c EXCEPT ![Len(c)] = t]
    BY <1>2 DEF Put
  <1>5. /\ [c EXCEPT ![Len(c)] = t] \in Seq(Level) /\ Len([c EXCEPT ![Len(c)] = t]) = Len(c)
        /\ [c EXCEPT ![Len(c)] = t][Len(c)] = t
        /\ \A l \in 1..Len(c) - 1 : [c EXCEPT ![Len(c)] = t][l] = c[l]
    BY <1>1, <1>3
  <1> QED
    BY <1>2, <1>4, <1>5

\* the scopes after an item at p, from c; an "end" is of the block of `opener'
ScopesAfter(c, it, p, opener) ==
  IF it.k = "decl" THEN Put(c, it.x, <<p>>)
  ELSE IF it.k = "for" THEN Append(Append(c, FirstPart(it.x, p)), NoNames)
  ELSE IF Opens(it) THEN Append(c, NoNames)
  ELSE IF it.k = "end" THEN SubSeq(c, 1, Len(c) - (IF opener.k = "for" THEN 2 ELSE 1))
  ELSE c

BlocksAfter(h, it, p) ==
  IF Opens(it) THEN Append(h[p], p) ELSE IF it.k = "end" THEN h[Inner(h, p)] ELSE h[p]

LEMMA HistoryStart ==
  ASSUME NEW b \in Bodies, NEW ps \in Level
  PROVE  \E h, s : History(b, 0, ps, h, s) /\ s[1] = <<ps>>
  <1>1. PICK h, s : h = << <<>> >> /\ s = << <<ps>> >>
    OBVIOUS
  <1>2. h \in Seq(Seq(Nat)) /\ s \in Seq(Seq(Level)) /\ Len(h) = 1 /\ Len(s) = 1 /\ h[1] = <<>> /\ s[1] = <<ps>>
    BY <1>1
  <1>3. 0 \in 0..Len(b) /\ Len(b) \in Nat /\ 0 + 1 = 1
    BY DEF Bodies
  <1>4. History(b, 0, ps, h, s)
    BY <1>2, <1>3 DEF History
  <1> QED
    BY <1>2, <1>4

\* A history goes on with the next item, as the checker's scopes do.
LEMMA HistoryGoesOn ==
  ASSUME NEW b \in Bodies, NEW m, NEW ps, NEW h, NEW s, History(b, m, ps, h, s),
         NEW p \in 1..Len(b), p = m + 1,
         b[p].k = "decl" => Top(s, p)[b[p].x] = NONE,
         b[p].k = "end" => h[p] # <<>>
  PROVE  \E h1, s1 : /\ History(b, p, ps, h1, s1)
                     /\ s1[p + 1] = ScopesAfter(s[p], b[p], p, b[Inner(h, p)])
                     /\ \A q \in 1..p : h1[q] = h[q] /\ s1[q] = s[q]
  <1>1. PICK hn, sn : hn = BlocksAfter(h, b[p], p) /\ sn = ScopesAfter(s[p], b[p], p, b[Inner(h, p)])
    OBVIOUS
  <1>2. /\ m \in Nat /\ p \in Nat /\ p \in 1..m + 1 /\ p >= 1 /\ Len(b) \in Nat
        /\ h[p] \in Seq(Nat) /\ s[p] \in Seq(Level) /\ Len(h[p]) \in Nat /\ Len(s[p]) \in Nat
        /\ h \in Seq(Seq(Nat)) /\ s \in Seq(Seq(Level)) /\ Len(h) = p /\ Len(s) = p
        /\ ps \in Level /\ h[1] = <<>> /\ s[1] = <<ps>> /\ \A q \in 1..m : Turned(b[q], q, h, s)
    <2>1. m \in Nat /\ p \in Nat /\ p \in 1..m + 1 /\ p >= 1 /\ Len(b) \in Nat
      BY DEF History, Bodies
    <2>2. h[p] \in Seq(Nat) /\ s[p] \in Seq(Level) /\ Len(h[p]) \in Nat /\ Len(s[p]) \in Nat
      BY <2>1, HistoryTypes
    <2>3. /\ h \in Seq(Seq(Nat)) /\ s \in Seq(Seq(Level)) /\ Len(h) = p /\ Len(s) = p
          /\ ps \in Level /\ h[1] = <<>> /\ s[1] = <<ps>> /\ \A q \in 1..m : Turned(b[q], q, h, s)
      BY DEF History
    <2> QED
      BY <2>1, <2>2, <2>3
  <1>3. Nested(b, h, s, p) /\ Len(s[p]) >= 1 /\ Top(s, p) \in Level
    BY <1>2, HistoryNested, ScopesDeep, TopTypes
  <1>4. /\ b[p].k \in {"decl", "for", "use", "block", "defer", "return", "end"}
        /\ b[p].k \in {"decl", "for"} => b[p].x \in Names
    BY ItemTypes
  <1>o. ASSUME b[p].k = "end"
        PROVE  /\ Inner(h, p) \in 1..p - 1 /\ Inner(h, p) \in 1..m + 1
               /\ Within(b[Inner(h, p)], Inner(h, p), h[p], h[Inner(h, p)], s[p], s[Inner(h, p)])
               /\ s[Inner(h, p)] \in Seq(Level) /\ h[Inner(h, p)] \in Seq(Nat)
    <2>1. /\ Inner(h, p) \in 1..p - 1
          /\ Within(b[Inner(h, p)], Inner(h, p), h[p], h[Inner(h, p)], s[p], s[Inner(h, p)])
      BY <1>3, <1>o DEF Nested
    <2>2. Inner(h, p) \in 1..m + 1
      BY <1>2, <2>1
    <2> QED
      BY <2>1, <2>2, HistoryTypes
  <1>5. hn \in Seq(Nat)
    <2>1. Append(h[p], p) \in Seq(Nat)
      BY <1>2
    <2> QED
      BY <1>1, <1>2, <1>o, <2>1 DEF BlocksAfter
  <1>6. b[p].k = "decl" => sn \in Seq(Level) /\ DeclaredIn(sn, s[p], b[p].x, p)
    <2> SUFFICES ASSUME b[p].k = "decl" PROVE sn \in Seq(Level) /\ DeclaredIn(sn, s[p], b[p].x, p)
      OBVIOUS
    <2>1. sn = Put(s[p], b[p].x, <<p>>) /\ b[p].x \in Names /\ s[p][Len(s[p])][b[p].x] = NONE
      BY <1>1, <1>4 DEF ScopesAfter, Top
    <2>2. PICK c, x : c = s[p] /\ x = b[p].x
      OBVIOUS
    <2>3. c \in Seq(Level) /\ Len(c) >= 1 /\ x \in Names
      BY <1>2, <1>3, <2>1, <2>2
    <2>4. /\ Put(c, x, <<p>>) \in Seq(Level) /\ Len(Put(c, x, <<p>>)) = Len(c)
          /\ Put(c, x, <<p>>)[Len(c)] = [c[Len(c)] EXCEPT ![x] = <<p>>]
          /\ \A l \in 1..Len(c) - 1 : Put(c, x, <<p>>)[l] = c[l]
      BY <2>3, <1>2, PutIs
    <2> QED
      BY <2>1, <2>2, <2>4 DEF DeclaredIn
  <1>7. b[p].k = "for" => sn \in Seq(Level) /\ Looped(sn, s[p], b[p].x, p)
    <2> SUFFICES ASSUME b[p].k = "for" PROVE sn \in Seq(Level) /\ Looped(sn, s[p], b[p].x, p)
      OBVIOUS
    <2>1. PICK f : f = FirstPart(b[p].x, p)
      OBVIOUS
    <2>2. sn = Append(Append(s[p], f), NoNames) /\ f \in Level /\ NoNames \in Level
      BY <1>1, <1>2, <1>4, <2>1, ScopesTypes DEF ScopesAfter
    <2>3. PICK t : t = Append(s[p], f)
      OBVIOUS
    <2>4. t \in Seq(Level) /\ Len(t) = Len(s[p]) + 1 /\ t[Len(s[p]) + 1] = f /\ \A l \in 1..Len(s[p]) : t[l] = s[p][l]
      BY <1>2, <2>2, <2>3
    <2>5. /\ sn \in Seq(Level) /\ Len(sn) = Len(s[p]) + 2 /\ sn[Len(s[p]) + 2] = NoNames
          /\ \A l \in 1..Len(s[p]) + 1 : sn[l] = t[l]
      BY <1>2, <2>2, <2>3, <2>4
    <2>6. Len(s[p]) + 1 \in 1..Len(s[p]) + 1 /\ \A l \in 1..Len(s[p]) : l \in 1..Len(s[p]) + 1
      BY <1>2
    <2> QED
      BY <2>1, <2>4, <2>5, <2>6 DEF Looped
  <1>8. Opens(b[p]) /\ b[p].k # "for" => sn \in Seq(Level) /\ Adds(sn, s[p], NoNames)
    <2> SUFFICES ASSUME Opens(b[p]), b[p].k # "for" PROVE sn \in Seq(Level) /\ Adds(sn, s[p], NoNames)
      OBVIOUS
    <2>1. sn = Append(s[p], NoNames) /\ NoNames \in Level
      BY <1>1, ScopesTypes DEF ScopesAfter, Opens
    <2> QED
      BY <1>2, <2>1 DEF Adds
  <1>9. b[p].k = "end" => sn = s[Inner(h, p)]
    <2> SUFFICES ASSUME b[p].k = "end" PROVE sn = s[Inner(h, p)]
      OBVIOUS
    <2>1. PICK o : o = Inner(h, p)
      OBVIOUS
    <2>2. PICK k : k = IF b[o].k = "for" THEN 2 ELSE 1
      OBVIOUS
    <2>3. Within(b[o], o, h[p], h[o], s[p], s[o]) /\ s[o] \in Seq(Level) /\ Len(s[o]) \in Nat
      BY <1>o, <2>1
    <2>4. Len(s[p]) = Len(s[o]) + k /\ \A l \in 1..Len(s[o]) : s[p][l] = s[o][l]
      BY <2>2, <2>3 DEF Within
    <2>5. k \in Nat
      BY <2>2
    <2>6. sn = SubSeq(s[p], 1, Len(s[p]) - k)
      BY <1>1, <2>1, <2>2 DEF ScopesAfter, Opens
    <2>7. Len(s[p]) - k = Len(s[o]) /\ Len(s[o]) <= Len(s[p])
      <3>1. Len(s[p]) \in Nat /\ Len(s[o]) \in Nat /\ k \in Nat /\ Len(s[p]) = Len(s[o]) + k
        BY <1>2, <2>3, <2>4, <2>5
      <3> QED
        BY ONLY <3>1
    <2>8. PICK u, v : u = s[p] /\ v = s[o]
      OBVIOUS
    <2>9. sn = SubSeq(u, 1, Len(v)) /\ u \in Seq(Level) /\ v \in Seq(Level) /\ Len(v) <= Len(u)
      BY <1>2, <2>3, <2>6, <2>7, <2>8
    <2>10. \A l \in 1..Len(v) : u[l] = v[l]
      BY <2>4, <2>8
    <2>11. sn = v
      BY ONLY <2>9, <2>10
    <2> QED
      BY <2>1, <2>8, <2>11
  <1>10. b[p].k \notin {"decl", "end"} /\ ~Opens(b[p]) => sn = s[p]
    BY <1>1 DEF ScopesAfter, Opens
  <1>11. sn \in Seq(Level)
    BY <1>2, <1>6, <1>7, <1>8, <1>9, <1>10, <1>o
  <1>12. PICK h1, s1 : h1 = Append(h, hn) /\ s1 = Append(s, sn)
    OBVIOUS
  <1>13. /\ h1 \in Seq(Seq(Nat)) /\ Len(h1) = p + 1 /\ h1[p + 1] = hn /\ \A q \in 1..p : h1[q] = h[q]
         /\ s1 \in Seq(Seq(Level)) /\ Len(s1) = p + 1 /\ s1[p + 1] = sn /\ \A q \in 1..p : s1[q] = s[q]
    <2>1. /\ h1 \in Seq(Seq(Nat)) /\ Len(h1) = p + 1 /\ h1[p + 1] = hn /\ \A q \in 1..p : h1[q] = h[q]
      <3>1. PICK S : S = Seq(Nat)
        OBVIOUS
      <3>2. h \in Seq(S) /\ Len(h) = p /\ p \in Nat /\ hn \in S /\ h1 = Append(h, hn)
        BY <1>2, <1>5, <1>12, <3>1
      <3>3. h1 \in Seq(S) /\ Len(h1) = p + 1 /\ h1[p + 1] = hn /\ \A q \in 1..p : h1[q] = h[q]
        BY ONLY <3>2
      <3> QED
        BY <3>1, <3>3
    <2>2. /\ s1 \in Seq(Seq(Level)) /\ Len(s1) = p + 1 /\ s1[p + 1] = sn /\ \A q \in 1..p : s1[q] = s[q]
      BY ONLY <1>2, <1>11, <1>12
    <2> QED
      BY <2>1, <2>2
  <1>14. \A q \in 1..p : Inner(h1, q) = Inner(h, q)
    BY <1>13 DEF Inner
  <1>15. ASSUME NEW q \in 1..m PROVE Turned(b[q], q, h1, s1)
    <2>1. q \in 1..p /\ q + 1 \in 1..p /\ q \in 1..m + 1 /\ Turned(b[q], q, h, s) /\ Nested(b, h, s, q)
      <3>1. q \in 1..p /\ q + 1 \in 1..p /\ q \in 1..m + 1
        <4>1. m \in Nat /\ p = m + 1 /\ q \in 1..m
          BY <1>2
        <4> QED
          BY ONLY <4>1
      <3>2. Nested(b, h, s, q)
        BY <3>1, HistoryNested
      <3> QED
        BY <3>1, <3>2, <1>2
    <2>2. h1[q] = h[q] /\ h1[q + 1] = h[q + 1] /\ s1[q] = s[q] /\ s1[q + 1] = s[q + 1] /\ Inner(h1, q) = Inner(h, q)
      BY <1>13, <1>14, <2>1
    <2>3. h[q] # <<>> => Inner(h, q) \in 1..p
      BY <2>1, <1>2 DEF Nested
    <2>4. h[q] # <<>> => h1[Inner(h, q)] = h[Inner(h, q)] /\ s1[Inner(h, q)] = s[Inner(h, q)]
      BY <2>3, <1>13
    <2> QED
      BY <2>1, <2>2, <2>4 DEF Turned
  <1>16. Turned(b[p], p, h1, s1)
    <2>1. p \in 1..p /\ h1[p] = h[p] /\ s1[p] = s[p] /\ Inner(h1, p) = Inner(h, p)
      BY <1>2, <1>13, <1>14
    <2>2. CASE b[p].k = "end"
      <3>1. Inner(h, p) \in 1..p
        BY <1>o, <2>2, <1>2
      <3>2. h1[Inner(h, p)] = h[Inner(h, p)] /\ s1[Inner(h, p)] = s[Inner(h, p)]
        BY <3>1, <1>13
      <3>3. hn = h[Inner(h, p)]
        BY <1>1, <2>2 DEF BlocksAfter, Opens
      <3> QED
        BY <1>9, <1>13, <2>1, <2>2, <3>2, <3>3 DEF Turned
    <2>3. CASE b[p].k # "end"
      <3>1. Widened(sn, s[p], b[p], p)
        BY <1>6, <1>7, <1>8, <1>10, <2>3 DEF Widened, Opens
      <3>2. IF Opens(b[p]) THEN Adds(hn, h[p], p) ELSE hn = h[p]
        BY <1>1, <1>2, <2>3 DEF BlocksAfter, Adds
      <3> QED
        BY <1>13, <2>1, <2>3, <3>1, <3>2 DEF Turned
    <2> QED
      BY <2>2, <2>3
  <1>17. \A q \in 1..p : Turned(b[q], q, h1, s1)
    <2>1. \A q \in 1..p : q \in 1..m \/ q = p
      BY <1>2
    <2> QED
      BY <1>15, <1>16, <2>1
  <1>18. History(b, p, ps, h1, s1)
    <2>1. p \in 0..Len(b) /\ 1 \in 1..p
      BY <1>2
    <2> QED
      BY <1>2, <1>13, <1>17, <2>1 DEF History
  <1>19. s1[p + 1] = ScopesAfter(s[p], b[p], p, b[Inner(h, p)])
    BY <1>1, <1>13
  <1>20. \A q \in 1..p : h1[q] = h[q] /\ s1[q] = s[q]
    BY <1>13
  <1> WITNESS h1, s1
  <1> QED
    BY <1>18, <1>19, <1>20

\* A history is of the items it covers.
LEMMA HistoryKept ==
  ASSUME NEW b \in Bodies, NEW b1 \in Bodies, NEW m, NEW ps, NEW h, NEW s, History(b, m, ps, h, s),
         m <= Len(b1), \A q \in 1..m : b1[q] = b[q]
  PROVE  History(b1, m, ps, h, s)
  <1>1. m \in Nat /\ Len(b1) \in Nat /\ m \in 0..Len(b1)
    BY DEF History, Bodies
  <1> QED
    BY <1>1 DEF History

-----------------------------------------------------------------------------
(* Looking a name up.                                                      *)

LEMMA InnermostIs ==
  ASSUME NEW c \in Seq(Level), NEW n \in Names
  PROVE  /\ (\A l \in 1..Len(c) : c[l][n] = NONE) => Innermost(c, n) = NONE
         /\ \A l \in 1..Len(c) : c[l][n] # NONE /\ (\A k \in l + 1..Len(c) : c[k][n] = NONE)
                                   => Innermost(c, n) = c[l][n]
         /\ \/ \A l \in 1..Len(c) : c[l][n] = NONE
            \/ \E l \in 1..Len(c) : c[l][n] # NONE /\ \A k \in l + 1..Len(c) : c[k][n] = NONE
  <1>1. PICK L : L = {l \in DOMAIN c : c[l][n] # NONE}
    OBVIOUS
  <1>2. DOMAIN c = 1..Len(c) /\ Len(c) \in Nat
    OBVIOUS
  <1>3. Innermost(c, n) = IF L = {} THEN NONE ELSE c[Max(L)][n]
    BY <1>1 DEF Innermost
  <1>4. (\A l \in 1..Len(c) : c[l][n] = NONE) => Innermost(c, n) = NONE
    BY <1>1, <1>2, <1>3
  <1>5. ASSUME NEW l \in 1..Len(c), c[l][n] # NONE, \A k \in l + 1..Len(c) : c[k][n] = NONE
        PROVE  Innermost(c, n) = c[l][n]
    <2>1. l \in L /\ l \in Nat
      BY <1>1, <1>2, <1>5
    <2>2. \A k \in L : k \in Nat /\ l >= k
      <3>1. ASSUME NEW k \in L, ~(l >= k) PROVE FALSE
        <4>1. k \in 1..Len(c) /\ c[k][n] # NONE
          BY <1>1, <1>2
        <4>2. k \in l + 1..Len(c)
          BY <1>2, <3>1, <4>1
        <4> QED
          BY <1>5, <4>1, <4>2
      <3>2. \A k \in L : k \in Nat
        BY <1>1, <1>2
      <3> QED
        BY <3>1, <3>2
    <2>3. \A x \in L : (\A y \in L : x >= y) => x = l
      BY <2>1, <2>2
    <2>4. (CHOOSE x \in L : \A y \in L : x >= y) = l
      BY <2>1, <2>2, <2>3
    <2> QED
      BY <1>3, <2>1, <2>4 DEF Max
  <1>6. \/ \A l \in 1..Len(c) : c[l][n] = NONE
        \/ \E l \in 1..Len(c) : c[l][n] # NONE /\ \A k \in l + 1..Len(c) : c[k][n] = NONE
    <2> SUFFICES ASSUME ~\E l \in 1..Len(c) : c[l][n] # NONE /\ \A k \in l + 1..Len(c) : c[k][n] = NONE
                 PROVE  \A l \in 1..Len(c) : c[l][n] = NONE
      OBVIOUS
    <2>1. PICK T : T = {l \in 1..Len(c) : c[l][n] = NONE}
      OBVIOUS
    <2>2. ASSUME NEW l \in 1..Len(c), \A k \in l + 1..Len(c) : k \in T
          PROVE  l \in T
      BY <2>1, <2>2
    <2>3. \A l \in 1..Len(c) : l \in T
      BY ONLY <1>2, <2>2, GoingDown, 1 \in Int, Len(c) \in Int
    <2> QED
      BY <2>1, <2>3
  <1> QED
    BY <1>4, <1>5, <1>6

\* what a map holds for n at a level of the checker's scopes: the parameters and
\* the body's own names are two levels of the maps
Held(maps, l, n, v) == maps[l + 1][n] = v \/ (l = 1 /\ maps[1][n] = v)

\* Maps that hold what the scopes do for a name, and nothing else, find the same.
LEMMA FoundAlike ==
  ASSUME NEW c \in Seq(Level), NEW maps \in Seq(Level), Len(maps) = Len(c) + 1, NEW n \in Names,
         \A l \in 1..Len(c) : maps[l + 1][n] = NONE \/ maps[l + 1][n] = c[l][n],
         \A l \in 1..Len(c) : c[l][n] # NONE => Held(maps, l, n, c[l][n]),
         maps[1][n] # NONE => Len(c) >= 1 /\ c[1][n] = maps[1][n]
  PROVE  Innermost(maps, n) = Innermost(c, n)
  <1>1. Len(c) \in Nat /\ Len(maps) \in Nat
    OBVIOUS
  <1>2. \A k \in 2..Len(maps) : k - 1 \in 1..Len(c) /\ (k - 1) + 1 = k
    BY <1>1
  <1>3. CASE \A l \in 1..Len(c) : c[l][n] = NONE
    <2>1. Innermost(c, n) = NONE
      BY <1>3, InnermostIs
    <2>2. ASSUME NEW k \in 1..Len(maps) PROVE maps[k][n] = NONE
      <3>1. CASE k = 1
        <4>1. maps[1][n] # NONE => 1 \in 1..Len(c)
          BY <1>1
        <4> QED
          BY <1>3, <3>1, <4>1
      <3>2. CASE k # 1
        <4>1. k \in 2..Len(maps)
          BY <3>2, <1>1
        <4> QED
          BY <1>2, <1>3, <4>1
      <3> QED
        BY <3>1, <3>2
    <2>3. Innermost(maps, n) = NONE
      BY <2>2, InnermostIs
    <2> QED
      BY <2>1, <2>3
  <1>4. CASE \E l \in 1..Len(c) : c[l][n] # NONE /\ \A k \in l + 1..Len(c) : c[k][n] = NONE
    <2>1. PICK l \in 1..Len(c) : c[l][n] # NONE /\ \A k \in l + 1..Len(c) : c[k][n] = NONE
      BY <1>4
    <2>2. Innermost(c, n) = c[l][n]
      BY <2>1, InnermostIs
    <2>3. ASSUME NEW k \in l + 2..Len(maps) PROVE maps[k][n] = NONE
      <3>1. k \in 2..Len(maps) /\ k - 1 \in l + 1..Len(c)
        BY <1>1, <2>1
      <3> QED
        BY <1>2, <2>1, <3>1
    <2>4. CASE maps[l + 1][n] = c[l][n]
      <3>1. l + 1 \in 1..Len(maps) /\ \A k \in (l + 1) + 1..Len(maps) : k \in l + 2..Len(maps)
        BY <1>1, <2>1
      <3>2. Innermost(maps, n) = maps[l + 1][n]
        BY <2>1, <2>3, <2>4, <3>1, InnermostIs
      <3> QED
        BY <2>2, <2>4, <3>2
    <2>5. CASE maps[l + 1][n] # c[l][n]
      <3>1. l = 1 /\ maps[1][n] = c[1][n] /\ maps[2][n] = NONE /\ c[1][n] # NONE
        BY <2>1, <2>5 DEF Held
      <3>2. 1 \in 1..Len(maps) /\ \A k \in 1 + 1..Len(maps) : k = 2 \/ k \in l + 2..Len(maps)
        BY <1>1, <3>1
      <3>3. \A k \in 1 + 1..Len(maps) : maps[k][n] = NONE
        BY <2>3, <3>1, <3>2
      <3>4. Innermost(maps, n) = maps[1][n]
        BY <3>1, <3>2, <3>3, InnermostIs
      <3> QED
        BY <2>2, <3>1, <3>4
    <2> QED
      BY <2>4, <2>5
  <1> QED
    BY <1>3, <1>4, InnermostIs

\* The parameters are never hidden from their scope.
LEMMA ParametersStay ==
  ASSUME NEW b \in Bodies, NEW m, NEW ps, NEW h, NEW s, History(b, m, ps, h, s),
         NEW n \in Names, ps[n] # NONE
  PROVE  \A q \in 1..m + 1 : s[q][1][n] = ps[n]
  <1>1. PICK T : T = {q \in 1..m + 1 : \A r \in 1..q : s[r][1][n] = ps[n]}
    OBVIOUS
  <1>2. m \in Nat /\ m + 1 \in Int /\ (m + 1) - 1 = m
    BY DEF History, Bodies
  <1>3. 1 \in T
    <2>1. s[1] = <<ps>> /\ <<ps>>[1] = ps /\ \A r \in 1..1 : r = 1
      BY DEF History
    <2> QED
      BY <1>1, <1>2, <2>1
  <1>4. ASSUME NEW p \in 1..m, p \in T
        PROVE  p + 1 \in T
    <2>1. p \in 1..m + 1 /\ p + 1 \in 1..m + 1 /\ \A r \in 1..p : s[r][1][n] = ps[n]
      BY <1>1, <1>2, <1>4
    <2>2. Turned(b[p], p, h, s) /\ Nested(b, h, s, p) /\ Len(s[p]) \in Nat /\ Len(s[p]) >= 1
      BY <2>1, HistoryTurn, HistoryNested, HistoryTypes, ScopesDeep
    <2>3. s[p + 1][1][n] = ps[n]
      <3>1. CASE b[p].k = "end"
        <4>1. s[p + 1] = s[Inner(h, p)] /\ Inner(h, p) \in 1..p - 1
          BY <2>2, <3>1 DEF Turned, Nested
        <4>2. Inner(h, p) \in 1..p
          BY <4>1, <2>1
        <4> QED
          BY <2>1, <4>1, <4>2
      <3>2. CASE b[p].k = "decl"
        <4>1. DeclaredIn(s[p + 1], s[p], b[p].x, p) /\ p \in 1..p
          BY <2>1, <2>2, <3>2 DEF Turned, Widened
        <4>2. CASE Len(s[p]) = 1
          <5>1. s[p + 1][1] = [s[p][1] EXCEPT ![b[p].x] = <<p>>] /\ s[p][1][b[p].x] = NONE
            BY <4>1, <4>2 DEF DeclaredIn
          <5>2. s[p][1][n] = ps[n] /\ n # b[p].x
            BY <2>1, <4>1, <5>1
          <5> QED
            BY <5>1, <5>2
        <4>3. CASE Len(s[p]) > 1
          <5>0. Len(s[p]) \in Nat /\ Len(s[p]) > 1
            BY <2>2, <4>3
          <5>1. 1 \in 1..Len(s[p]) - 1
            BY ONLY <5>0
          <5> QED
            BY <2>1, <4>1, <5>1 DEF DeclaredIn
        <4>4. Len(s[p]) = 1 \/ Len(s[p]) > 1
          <5>1. PICK k : k = Len(s[p])
            OBVIOUS
          <5>2. k \in Nat /\ k >= 1
            BY <2>2, <5>1
          <5>3. k = 1 \/ k > 1
            BY ONLY <5>2
          <5> QED
            BY <5>1, <5>3
        <4> QED
          BY <4>2, <4>3, <4>4
      <3>3. CASE b[p].k # "end" /\ b[p].k # "decl"
        <4>1. 1 \in 1..Len(s[p]) /\ p \in 1..p
          BY <2>1, <2>2
        <4>2. s[p + 1][1] = s[p][1]
          BY <2>2, <3>3, <4>1 DEF Turned, Widened, Looped, Adds
        <4> QED
          BY <2>1, <4>1, <4>2
      <3> QED
        BY <3>1, <3>2, <3>3
    <2>4. \A r \in 1..p + 1 : r \in 1..p \/ r = p + 1
      BY <2>1
    <2> QED
      BY <1>1, <2>1, <2>3, <2>4
  <1>5. \A q \in 1..m + 1 : q \in T
    <2>1. \A p \in 1..(m + 1) - 1 : p \in T => p + 1 \in T
      BY <1>2, <1>4
    <2> QED
      BY ONLY <1>2, <1>3, <2>1, GoingUp, 1 \in Int
  <1>6. \A q \in 1..m + 1 : q \in 1..q
    BY <1>2
  <1> QED
    BY <1>1, <1>5, <1>6

-----------------------------------------------------------------------------
(* The generator's maps and frames, where its place is a, by the history.  *)

Frame == [waiting : Seq(Nat), back : Nat, cleaned : BOOLEAN]

\* the body that d defers is generated from e, the end of its block
Resumes(b, h, d, e) ==
  /\ e \in 1..Len(b) + 1 /\ b[d].k = "defer" /\ h[e] = h[d]
  /\ e <= Len(b) => b[e].k = "end"

GoodFrames(b, h, a, fs) ==
  /\ a \in 1..Len(b) + 1 /\ fs \in Seq(Frame)
  /\ Len(fs) = Len(h[a]) + 1 /\ fs[1].back = 0
  /\ \A j \in 1..Len(h[a]) : fs[j + 1].back # 0 => Resumes(b, h, h[a][j], fs[j + 1].back)

\* v is of a declaration of n that comes after a deferred body in its block
Later(h, s, a, fs, l, n, v) ==
  \E j \in 1..Len(h[a]) : fs[j + 1].back # 0 /\ l = Len(s[h[a][j]]) /\ v = s[fs[j + 1].back][l][n]

\* what the maps hold is what the scopes do, or is declared later
GoodMaps(ps, h, s, a, fs, ls) ==
  /\ ls \in Seq(Level) /\ Len(ls) = Len(s[a]) + 1 /\ ls[1] = ps
  /\ \A l \in 1..Len(s[a]) : \A n \in Names :
       \/ ls[l + 1][n] = NONE
       \/ ls[l + 1][n] = s[a][l][n]
       \/ Later(h, s, a, fs, l, n, ls[l + 1][n])

\* what the scopes hold is in the maps; not for a block whose rest is dead
Covered(s, a, ls, live) ==
  \A l \in 1..Len(s[a]) : \A n \in Names :
    (l < Len(s[a]) \/ live) /\ s[a][l][n] # NONE => Held(ls, l, n, s[a][l][n])

\* d waits in the i-th of the frames
Awaits(b, h, s, a, ls, i, d) ==
  /\ d \in 1..Len(b) /\ b[d].k = "defer"
  /\ Len(h[d]) = i - 1 /\ \A j \in 1..i - 1 : h[d][j] = h[a][j]
  /\ \A n \in Names : Top(s, d)[n] # NONE => Held(ls, Len(s[d]), n, Top(s, d)[n])

GoodWaits(b, h, s, a, fs, ls) ==
  \A i \in 1..Len(fs) : \A k \in 1..Len(fs[i].waiting) : Awaits(b, h, s, a, ls, i, fs[i].waiting[k])

Placed(b, ps, h, s, a, fs, ls, live) ==
  /\ GoodFrames(b, h, a, fs) /\ GoodMaps(ps, h, s, a, fs, ls)
  /\ Covered(s, a, ls, live) /\ GoodWaits(b, h, s, a, fs, ls)

Finished(b, ps, h, s) == History(b, Len(b), ps, h, s) /\ h[Len(b) + 1] = <<>>

\* To a position of the same block with the same scopes.
LEMMA MoveAlong ==
  ASSUME NEW b, NEW ps, NEW h, NEW s, NEW a, NEW fs, NEW ls, NEW live, Placed(b, ps, h, s, a, fs, ls, live),
         NEW a1 \in 1..Len(b) + 1, h[a1] = h[a], s[a1] = s[a], NEW live1, live1 => live
  PROVE  Placed(b, ps, h, s, a1, fs, ls, live1)
  <1>1. GoodFrames(b, h, a1, fs)
    BY DEF Placed, GoodFrames
  <1>2. GoodMaps(ps, h, s, a1, fs, ls)
    BY DEF Placed, GoodMaps, Later
  <1>3. Covered(s, a1, ls, live1)
    BY DEF Placed, Covered
  <1>4. GoodWaits(b, h, s, a1, fs, ls)
    BY DEF Placed, GoodWaits, Awaits
  <1> QED
    BY <1>1, <1>2, <1>3, <1>4 DEF Placed

\* What Declared says of each name.
LEMMA DeclaredLevels ==
  ASSUME NEW c \in Seq(Level), Len(c) >= 1, NEW t, NEW x \in Names, NEW p \in Nat, DeclaredIn(t, c, x, p)
  PROVE  \A l \in 1..Len(c) : \A n \in Names :
           IF l = Len(c) /\ n = x THEN c[l][n] = NONE /\ t[l][n] = <<p>> ELSE t[l][n] = c[l][n]
  <1> SUFFICES ASSUME NEW l \in 1..Len(c), NEW n \in Names
               PROVE  IF l = Len(c) /\ n = x THEN c[l][n] = NONE /\ t[l][n] = <<p>> ELSE t[l][n] = c[l][n]
    OBVIOUS
  <1>1. c[l] \in Level /\ Len(c) \in Nat
    OBVIOUS
  <1>2. CASE l = Len(c)
    <2>1. t[l] = [c[l] EXCEPT ![x] = <<p>>] /\ c[l][x] = NONE
      BY <1>2 DEF DeclaredIn
    <2> QED
      BY <1>1, <1>2, <2>1 DEF Level
  <1>3. CASE l # Len(c)
    <2>1. l \in 1..Len(c) - 1
      BY <1>1, <1>3
    <2> QED
      BY <1>3, <2>1 DEF DeclaredIn
  <1> QED
    BY <1>2, <1>3

\* Over a declaration that is not generated.
LEMMA MovePastDead ==
  ASSUME NEW b \in Bodies, NEW ps, NEW h, NEW s, Finished(b, ps, h, s),
         NEW a, NEW fs, NEW ls, Placed(b, ps, h, s, a, fs, ls, FALSE),
         a <= Len(b), b[a].k = "decl"
  PROVE  Placed(b, ps, h, s, a + 1, fs, ls, FALSE)
  <1>1. a \in 1..Len(b) + 1 /\ Len(b) \in Nat
    BY DEF Placed, GoodFrames, Bodies
  <1>2. a \in 1..Len(b) /\ a \in Nat /\ a + 1 \in 1..Len(b) + 1
    BY <1>1
  <1>3. h[a + 1] = h[a] /\ DeclaredIn(s[a + 1], s[a], b[a].x, a)
    BY <1>2, HistoryTurn DEF Finished, Turned, Widened, Opens
  <1>4. s[a] \in Seq(Level) /\ Len(s[a]) >= 1 /\ b[a].x \in Names /\ Len(s[a + 1]) = Len(s[a])
    BY <1>1, <1>2, <1>3, HistoryTypes, ScopesDeep, ItemTypes DEF Finished, DeclaredIn
  <1>5. \A l \in 1..Len(s[a]) : \A n \in Names :
          IF l = Len(s[a]) /\ n = b[a].x THEN s[a][l][n] = NONE /\ s[a + 1][l][n] = <<a>> ELSE s[a + 1][l][n] = s[a][l][n]
    BY <1>2, <1>3, <1>4, DeclaredLevels
  <1>6. GoodFrames(b, h, a + 1, fs)
    BY <1>2, <1>3 DEF Placed, GoodFrames
  <1>7. GoodMaps(ps, h, s, a + 1, fs, ls)
    <2>1. GoodMaps(ps, h, s, a, fs, ls)
      BY DEF Placed
    <2>2. ASSUME NEW l \in 1..Len(s[a]), NEW n \in Names
          PROVE  \/ ls[l + 1][n] = NONE \/ ls[l + 1][n] = s[a + 1][l][n]
                 \/ Later(h, s, a + 1, fs, l, n, ls[l + 1][n])
      <3>1. s[a + 1][l][n] = s[a][l][n] \/ s[a][l][n] = NONE
        BY <1>5
      <3>2. Later(h, s, a, fs, l, n, ls[l + 1][n]) => Later(h, s, a + 1, fs, l, n, ls[l + 1][n])
        BY <1>3 DEF Later
      <3> QED
        BY <2>1, <3>1, <3>2 DEF GoodMaps
    <2> QED
      BY <2>1, <2>2, <1>4 DEF GoodMaps
  <1>8. Covered(s, a + 1, ls, FALSE)
    <2>1. ASSUME NEW l \in 1..Len(s[a]), NEW n \in Names, l < Len(s[a]), s[a + 1][l][n] # NONE
          PROVE  Held(ls, l, n, s[a + 1][l][n])
      <3>1. s[a + 1][l][n] = s[a][l][n]
        BY <1>5, <1>4, <2>1
      <3> QED
        BY <2>1, <3>1 DEF Placed, Covered
    <2> QED
      BY <2>1, <1>4 DEF Covered
  <1>9. GoodWaits(b, h, s, a + 1, fs, ls)
    <2>1. GoodWaits(b, h, s, a, fs, ls)
      BY DEF Placed
    <2>2. \A i, d : Awaits(b, h, s, a, ls, i, d) => Awaits(b, h, s, a + 1, ls, i, d)
      BY <1>3 DEF Awaits
    <2> QED
      BY <2>1, <2>2 DEF GoodWaits
  <1> QED
    BY <1>6, <1>7, <1>8, <1>9 DEF Placed

\* A waiting body is of the block it waits in, and its scopes are those of its block.
LEMMA WaitingScopes ==
  ASSUME NEW b \in Bodies, NEW ps, NEW h, NEW s, Finished(b, ps, h, s), NEW a \in 1..Len(b) + 1,
         NEW i \in 1..Len(h[a]) + 1, NEW d \in 1..Len(b),
         Len(h[d]) = i - 1, \A j \in 1..i - 1 : h[d][j] = h[a][j]
  PROVE  /\ i = Len(h[a]) + 1 => h[d] = h[a] /\ Len(s[d]) = Len(s[a])
         /\ i <= Len(h[a]) => h[d] = h[h[a][i]] /\ Len(s[d]) = Len(s[h[a][i]]) /\ Len(s[d]) < Len(s[a])
  <1>1. d \in 1..Len(b) + 1 /\ Len(b) \in Nat
    BY DEF Bodies
  <1>2. h[d] \in Seq(Nat) /\ h[a] \in Seq(Nat) /\ Len(h[a]) \in Nat /\ Len(h[d]) \in Nat
    BY <1>1, HistoryTypes DEF Finished
  <1>3. ASSUME i = Len(h[a]) + 1 PROVE h[d] = h[a] /\ Len(s[d]) = Len(s[a])
    <2>1. PICK u, v : u = h[d] /\ v = h[a]
      OBVIOUS
    <2>2. u \in Seq(Nat) /\ v \in Seq(Nat) /\ Len(u) = Len(v) /\ \A j \in 1..Len(v) : u[j] = v[j]
      BY <1>2, <1>3, <2>1
    <2>3. u = v
      BY ONLY <2>2, SeqEqual
    <2>4. h[d] = h[a]
      BY <2>1, <2>3
    <2> QED
      BY <1>1, <2>4, SameBlockLevels DEF Finished
  <1>4. ASSUME i <= Len(h[a])
        PROVE  h[d] = h[h[a][i]] /\ Len(s[d]) = Len(s[h[a][i]]) /\ Len(s[d]) < Len(s[a])
    <2>1. PICK o : o = h[a][i]
      OBVIOUS
    <2>2. i \in 1..Len(h[a])
      BY <1>2, <1>4
    <2>3. Encloses(b, h, s, a, i, o)
      BY <2>1, <2>2, HistoryEncloses DEF Finished
    <2>4. o \in 1..Len(b) + 1 /\ Len(h[o]) = i - 1 /\ Len(s[o]) < Len(s[a]) /\ \A j \in 1..i - 1 : h[o][j] = h[a][j]
      BY <1>1, <2>3 DEF Encloses
    <2>5. h[o] \in Seq(Nat)
      BY <2>4, HistoryTypes DEF Finished
    <2>6. PICK u, v : u = h[d] /\ v = h[o]
      OBVIOUS
    <2>7. u \in Seq(Nat) /\ v \in Seq(Nat) /\ Len(u) = Len(v) /\ \A j \in 1..Len(v) : u[j] = v[j]
      BY <1>2, <2>4, <2>5, <2>6
    <2>8. u = v
      BY ONLY <2>7, SeqEqual
    <2>10. h[d] = h[o]
      BY <2>6, <2>8
    <2>9. Len(s[d]) = Len(s[o])
      BY <1>1, <2>4, <2>10, SameBlockLevels DEF Finished
    <2> QED
      BY <2>1, <2>4, <2>9, <2>10
  <1> QED
    BY <1>3, <1>4

\* What Put leaves in each map.
LEMMA PutLevels ==
  ASSUME NEW c \in Seq(Level), Len(c) >= 1, NEW x \in Names, NEW p \in Nat
  PROVE  \A l \in 1..Len(c) : \A n \in Names :
           Put(c, x, <<p>>)[l][n] = IF l = Len(c) /\ n = x THEN <<p>> ELSE c[l][n]
  <1>1. PICK t : t = Put(c, x, <<p>>)
    OBVIOUS
  <1>2. t[Len(c)] = [c[Len(c)] EXCEPT ![x] = <<p>>] /\ \A l \in 1..Len(c) - 1 : t[l] = c[l]
    <2>1. /\ Put(c, x, <<p>>)[Len(c)] = [c[Len(c)] EXCEPT ![x] = <<p>>]
          /\ \A l \in 1..Len(c) - 1 : Put(c, x, <<p>>)[l] = c[l]
      <3>1. c \in Seq(Level) /\ Len(c) >= 1 /\ x \in Names /\ p \in Nat
        OBVIOUS
      <3> QED
        BY ONLY <3>1, PutIs, Zenon
    <2> QED
      BY <1>1, <2>1
  <1> SUFFICES ASSUME NEW l \in 1..Len(c), NEW n \in Names
               PROVE  t[l][n] = IF l = Len(c) /\ n = x THEN <<p>> ELSE c[l][n]
    BY <1>1
  <1>3. c[l] \in Level /\ Len(c) \in Nat
    OBVIOUS
  <1>4. CASE l = Len(c)
    <2>1. t[l] = [c[l] EXCEPT ![x] = <<p>>]
      BY <1>2, <1>4
    <2> QED
      BY <1>3, <1>4, <2>1 DEF Level
  <1>5. CASE l # Len(c)
    <2>1. l \in 1..Len(c) - 1
      BY <1>3, <1>5
    <2> QED
      BY <1>2, <1>5, <2>1
  <1> QED
    BY <1>4, <1>5

\* Over a declaration.
LEMMA MoveDeclare ==
  ASSUME NEW b \in Bodies, NEW ps, NEW h, NEW s, Finished(b, ps, h, s),
         NEW a, NEW fs, NEW ls, Placed(b, ps, h, s, a, fs, ls, TRUE),
         a <= Len(b), b[a].k = "decl", NEW ls1, ls1 = Put(ls, b[a].x, <<a>>)
  PROVE  Placed(b, ps, h, s, a + 1, fs, ls1, TRUE)
  <1>1. a \in 1..Len(b) + 1 /\ Len(b) \in Nat
    BY DEF Placed, GoodFrames, Bodies
  <1>2. a \in 1..Len(b) /\ a \in Nat /\ a + 1 \in 1..Len(b) + 1
    BY <1>1
  <1>3. h[a + 1] = h[a] /\ DeclaredIn(s[a + 1], s[a], b[a].x, a)
    BY <1>2, HistoryTurn DEF Finished, Turned, Widened, Opens
  <1>4. s[a] \in Seq(Level) /\ Len(s[a]) >= 1 /\ b[a].x \in Names /\ Len(s[a + 1]) = Len(s[a])
    BY <1>1, <1>2, <1>3, HistoryTypes, ScopesDeep, ItemTypes DEF Finished, DeclaredIn
  <1>5. \A l \in 1..Len(s[a]) : \A n \in Names :
          IF l = Len(s[a]) /\ n = b[a].x THEN s[a][l][n] = NONE /\ s[a + 1][l][n] = <<a>> ELSE s[a + 1][l][n] = s[a][l][n]
    BY ONLY <1>2, <1>3, <1>4, DeclaredLevels
  <1>6. PICK L, x : L = Len(s[a]) /\ x = b[a].x
    OBVIOUS
  <1>7. L \in Nat /\ L >= 1 /\ x \in Names
    BY <1>1, <1>4, <1>6, HistoryTypes DEF Finished
  <1>8. ls \in Seq(Level) /\ Len(ls) = L + 1 /\ ls[1] = ps
    BY <1>6 DEF Placed, GoodMaps
  <1>9. /\ ls1 \in Seq(Level) /\ Len(ls1) = L + 1
        /\ \A l \in 1..L + 1 : \A n \in Names : ls1[l][n] = IF l = L + 1 /\ n = x THEN <<a>> ELSE ls[l][n]
    <2>1. ls1 = Put(ls, x, <<a>>) /\ Len(ls) >= 1
      BY <1>6, <1>7, <1>8
    <2>2. Put(ls, x, <<a>>) \in Seq(Level) /\ Len(Put(ls, x, <<a>>)) = Len(ls)
      BY <2>1, <1>2, <1>7, <1>8, PutIs
    <2>3. \A l \in 1..Len(ls) : \A n \in Names :
            Put(ls, x, <<a>>)[l][n] = IF l = Len(ls) /\ n = x THEN <<a>> ELSE ls[l][n]
      BY <2>1, <1>2, <1>7, <1>8, PutLevels
    <2> QED
      BY <2>1, <2>2, <2>3, <1>8
  <1>10. ls1[1] = ps /\ \A n \in Names : ls1[1][n] = ls[1][n]
    <2>1. 1 \in 1..Len(ls) - 1 /\ Len(ls) >= 1
      BY <1>7, <1>8
    <2>2. ls1[1] = ls[1]
      <3>1. \A l \in 1..Len(ls) - 1 : Put(ls, x, <<a>>)[l] = ls[l]
        BY <2>1, <1>2, <1>7, <1>8, PutIs
      <3> QED
        BY <2>1, <3>1, <1>6
    <2> QED
      BY <2>2, <1>8
  <1>11. \A l \in 1..L : l + 1 \in 1..L + 1 /\ (l + 1 = L + 1 <=> l = L)
    BY <1>7
  <1>12. \A l \in 1..L : \A n \in Names : ls1[l + 1][n] = IF l = L /\ n = x THEN <<a>> ELSE ls[l + 1][n]
    BY <1>9, <1>11
  <1>13. GoodFrames(b, h, a + 1, fs)
    BY <1>2, <1>3 DEF Placed, GoodFrames
  <1>14. GoodMaps(ps, h, s, a + 1, fs, ls1)
    <2>1. ASSUME NEW l \in 1..L, NEW n \in Names
          PROVE  \/ ls1[l + 1][n] = NONE \/ ls1[l + 1][n] = s[a + 1][l][n]
                 \/ Later(h, s, a + 1, fs, l, n, ls1[l + 1][n])
      <3>1. CASE l = L /\ n = x
        BY <1>5, <1>6, <1>12, <3>1
      <3>2. CASE ~(l = L /\ n = x)
        <4>1. ls1[l + 1][n] = ls[l + 1][n] /\ s[a + 1][l][n] = s[a][l][n]
          BY <1>5, <1>6, <1>12, <3>2
        <4>2. \/ ls[l + 1][n] = NONE \/ ls[l + 1][n] = s[a][l][n]
              \/ Later(h, s, a, fs, l, n, ls[l + 1][n])
          BY <1>6 DEF Placed, GoodMaps
        <4>3. Later(h, s, a, fs, l, n, ls[l + 1][n]) => Later(h, s, a + 1, fs, l, n, ls[l + 1][n])
          BY <1>3 DEF Later
        <4> QED
          BY <4>1, <4>2, <4>3
      <3> QED
        BY <3>1, <3>2
    <2> QED
      BY <2>1, <1>4, <1>6, <1>9, <1>10 DEF GoodMaps
  <1>15. Covered(s, a + 1, ls1, TRUE)
    <2>1. ASSUME NEW l \in 1..L, NEW n \in Names, s[a + 1][l][n] # NONE
          PROVE  Held(ls1, l, n, s[a + 1][l][n])
      <3>1. CASE l = L /\ n = x
        BY <1>5, <1>6, <1>12, <3>1 DEF Held
      <3>2. CASE ~(l = L /\ n = x)
        <4>1. ls1[l + 1][n] = ls[l + 1][n] /\ s[a + 1][l][n] = s[a][l][n]
          BY <1>5, <1>6, <1>12, <3>2
        <4>2. Held(ls, l, n, s[a][l][n])
          BY <2>1, <4>1, <1>6 DEF Placed, Covered
        <4> QED
          BY <4>1, <4>2, <1>10 DEF Held
      <3> QED
        BY <3>1, <3>2
    <2> QED
      BY <2>1, <1>4, <1>6 DEF Covered
  <1>16. ASSUME NEW i \in 1..Len(fs), NEW d, Awaits(b, h, s, a, ls, i, d)
         PROVE  Awaits(b, h, s, a + 1, ls1, i, d)
    <2>1. d \in 1..Len(b) /\ b[d].k = "defer" /\ Len(h[d]) = i - 1 /\ \A j \in 1..i - 1 : h[d][j] = h[a][j]
      BY <1>16 DEF Awaits
    <2>2. ASSUME NEW n \in Names, Top(s, d)[n] # NONE
          PROVE  Held(ls1, Len(s[d]), n, Top(s, d)[n])
      <3>1. Held(ls, Len(s[d]), n, Top(s, d)[n])
        BY <1>16, <2>2 DEF Awaits
      <3>2. i \in 1..Len(h[a]) + 1 /\ Len(h[a]) \in Nat /\ d \in 1..Len(b) + 1 /\ i \in Nat
        BY <1>1, <2>1, HistoryTypes DEF Placed, GoodFrames, Finished
      <3>a. Len(s[d]) \in Nat /\ Len(s[d]) >= 1
        BY <3>2, HistoryTypes, ScopesDeep DEF Finished
      <3>6. i <= Len(h[a]) \/ i = Len(h[a]) + 1
        BY <3>2
      <3>b. \/ i = Len(h[a]) + 1 /\ h[d] = h[a] /\ Len(s[d]) = Len(s[a])
            \/ i <= Len(h[a]) /\ Len(s[d]) < Len(s[a])
        <4>1. /\ i = Len(h[a]) + 1 => h[d] = h[a] /\ Len(s[d]) = Len(s[a])
              /\ i <= Len(h[a]) => h[d] = h[h[a][i]] /\ Len(s[d]) = Len(s[h[a][i]]) /\ Len(s[d]) < Len(s[a])
          BY <1>1, <2>1, <3>2, WaitingScopes
        <4> QED
          BY <4>1, <3>6
      <3>3. CASE n # x
        <4>1. Len(s[d]) \in 1..L
          <5>1. Len(s[d]) = L \/ Len(s[d]) < L
            BY <1>6, <3>b
          <5> QED
            BY <5>1, <3>a, <1>7
        <4>2. ls1[Len(s[d]) + 1][n] = ls[Len(s[d]) + 1][n]
          BY <4>1, <1>12, <3>3
        <4> QED
          BY <3>1, <4>2, <1>10 DEF Held
      <3>4. CASE n = x /\ i <= Len(h[a])
        <4>1. Len(s[d]) \in 1..L /\ Len(s[d]) # L
          <5>1. Len(s[d]) < L
            BY <1>6, <3>2, <3>4, <3>b
          <5> QED
            BY <5>1, <3>a, <1>7
        <4>2. ls1[Len(s[d]) + 1][n] = ls[Len(s[d]) + 1][n]
          BY <4>1, <1>12
        <4> QED
          BY <3>1, <4>2, <1>10 DEF Held
      <3>5. CASE n = x /\ i = Len(h[a]) + 1
        <4>1. h[d] = h[a] /\ Len(s[d]) = L
          BY <1>6, <3>5, <3>b
        <4>2. CASE d < a
          <5>1. Kept(b, h, s, d, a, x)
            <6>1. d \in 1..a
              BY <1>2, <2>1, <4>2
            <6> QED
              BY <1>1, <1>7, <4>1, <6>1, SameBlockTop DEF Finished
          <5>2. Top(s, a)[x] = NONE
            BY <1>3, <1>6 DEF DeclaredIn, Top
          <5> QED
            BY <2>2, <3>5, <5>1, <5>2 DEF Kept
        <4>3. CASE d > a
          <5>1. Kept(b, h, s, a + 1, d, x)
            <6>1. a + 1 \in 1..d
              BY <1>2, <2>1, <4>3
            <6> QED
              BY <1>3, <1>7, <3>2, <4>1, <6>1, SameBlockTop DEF Finished
          <5>2. Top(s, a + 1)[x] = <<a>> /\ <<a>> # NONE
            <6>1. L \in 1..L
              BY <1>7
            <6>2. s[a + 1][L][x] = <<a>>
              BY <6>1, <1>5, <1>6, <1>7
            <6>3. <<a>> # NONE
              BY <1>2, NoneApart
            <6> QED
              BY <6>2, <6>3, <1>4, <1>6 DEF Top
          <5>3. Top(s, d)[n] = <<a>>
            BY <3>5, <5>1, <5>2 DEF Kept
          <5>4. ls1[Len(s[d]) + 1][n] = <<a>>
            <6>1. L \in 1..L
              BY <1>7
            <6> QED
              BY <6>1, <3>5, <4>1, <1>12, <1>7
          <5> QED
            BY <5>3, <5>4 DEF Held
        <4>4. d # a
          BY <2>1
        <4> QED
          BY <4>2, <4>3, <4>4, <1>2, <2>1
      <3> QED
        BY <3>3, <3>4, <3>5, <3>6
    <2> QED
      BY <2>1, <2>2, <1>3 DEF Awaits
  <1>17. GoodWaits(b, h, s, a + 1, fs, ls1)
    BY <1>16 DEF Placed, GoodWaits
  <1> QED
    BY <1>13, <1>14, <1>15, <1>17 DEF Placed

LEMMA FrontIs ==
  ASSUME NEW S, NEW q \in Seq(S), Len(q) >= 1
  PROVE  /\ Front(q) \in Seq(S) /\ Len(Front(q)) = Len(q) - 1
         /\ \A k \in 1..Len(q) - 1 : Front(q)[k] = q[k]
  <1>1. PICK k : k = Len(q) - 1
    OBVIOUS
  <1>2. k \in Nat /\ k <= Len(q) /\ Front(q) = SubSeq(q, 1, k)
    BY <1>1 DEF Front
  <1>3. /\ SubSeq(q, 1, k) \in Seq(S) /\ Len(SubSeq(q, 1, k)) = k
        /\ \A i \in 1..k : SubSeq(q, 1, k)[i] = q[i]
    BY ONLY <1>2, q \in Seq(S)
  <1> QED
    BY <1>1, <1>2, <1>3

\* Into a block.
LEMMA MoveIn ==
  ASSUME NEW b \in Bodies, NEW ps, NEW h, NEW s, Finished(b, ps, h, s),
         NEW a, NEW fs, NEW ls, Placed(b, ps, h, s, a, fs, ls, TRUE),
         a <= Len(b), b[a].k \in {"block", "for"},
         NEW fs1, fs1 = Append(fs, [waiting |-> <<>>, back |-> 0, cleaned |-> FALSE]),
         NEW ls1, ls1 = Append(IF b[a].k = "for" THEN Append(ls, FirstPart(b[a].x, a)) ELSE ls, NoNames),
         NEW live1
  PROVE  Placed(b, ps, h, s, a + 1, fs1, ls1, live1)
  <1>1. a \in 1..Len(b) + 1 /\ Len(b) \in Nat
    BY DEF Placed, GoodFrames, Bodies
  <1>2. a \in 1..Len(b) /\ a \in Nat /\ a + 1 \in 1..Len(b) + 1
    BY <1>1
  <1>3. Adds(h[a + 1], h[a], a) /\ Widened(s[a + 1], s[a], b[a], a) /\ Opens(b[a])
    BY <1>2, HistoryTurn DEF Finished, Turned, Opens
  <1>4. PICK L, K, t, w : L = Len(s[a]) /\ K = Len(h[a]) /\ t = s[a + 1] /\ w = (IF b[a].k = "for" THEN 2 ELSE 1)
    OBVIOUS
  <1>5. /\ L \in Nat /\ L >= 1 /\ K \in Nat /\ w \in {1, 2} /\ s[a] \in Seq(Level) /\ h[a] \in Seq(Nat)
        /\ h[a + 1] \in Seq(Nat) /\ t \in Seq(Level)
    BY <1>1, <1>2, <1>4, HistoryTypes, ScopesDeep DEF Finished
  <1>6. /\ Len(h[a + 1]) = K + 1 /\ h[a + 1][K + 1] = a /\ \A j \in 1..K : h[a + 1][j] = h[a][j]
    BY <1>3, <1>4 DEF Adds
  <1>7. /\ Len(t) = L + w /\ t[L + w] = NoNames /\ \A l \in 1..L : t[l] = s[a][l]
        /\ w = 2 => t[L + 1] = FirstPart(b[a].x, a)
    <2>1. CASE b[a].k = "for"
      <3>1. w = 2 /\ Looped(t, s[a], b[a].x, a)
        BY <1>3, <1>4, <2>1 DEF Widened
      <3> QED
        BY <3>1, <1>4 DEF Looped
    <2>2. CASE b[a].k # "for"
      <3>1. w = 1 /\ Adds(t, s[a], NoNames)
        BY <1>3, <1>4, <2>2 DEF Widened, Opens
      <3> QED
        BY <3>1, <1>4 DEF Adds
    <2> QED
      BY <2>1, <2>2
  <1>8. /\ ls \in Seq(Level) /\ Len(ls) = L + 1 /\ ls[1] = ps
        /\ fs \in Seq(Frame) /\ Len(fs) = K + 1 /\ fs[1].back = 0
    BY <1>4 DEF Placed, GoodMaps, GoodFrames
  <1>9. /\ ls1 \in Seq(Level) /\ Len(ls1) = L + w + 1 /\ \A k \in 1..L + 1 : ls1[k] = ls[k]
        /\ \A l \in L + 1..L + w : ls1[l + 1] = t[l]
    <2>1. NoNames \in Level
      BY ScopesTypes
    <2>2. CASE b[a].k = "for"
      <3>1. PICK f, u : f = FirstPart(b[a].x, a) /\ u = Append(ls, f)
        OBVIOUS
      <3>2. f \in Level /\ w = 2 /\ ls1 = Append(u, NoNames)
        BY <1>2, <1>4, <2>2, <3>1, ItemTypes, ScopesTypes
      <3>3. u \in Seq(Level) /\ Len(u) = L + 2 /\ u[L + 2] = f /\ \A k \in 1..L + 1 : u[k] = ls[k]
        BY <1>5, <1>8, <3>1, <3>2
      <3>4. /\ ls1 \in Seq(Level) /\ Len(ls1) = L + 3 /\ ls1[L + 3] = NoNames
            /\ \A k \in 1..L + 2 : ls1[k] = u[k]
        <4>1. PICK e : e = NoNames
          OBVIOUS
        <4>2. L \in Nat /\ u \in Seq(Level) /\ Len(u) = L + 2 /\ e \in Level /\ ls1 = Append(u, e)
          BY <1>5, <2>1, <3>2, <3>3, <4>1
        <4>3. ls1 \in Seq(Level) /\ Len(ls1) = L + 3 /\ ls1[L + 3] = e /\ \A k \in 1..L + 2 : ls1[k] = u[k]
          BY ONLY <4>2
        <4> QED
          BY <4>1, <4>3
      <3>5. ls1[(L + 1) + 1] = t[L + 1] /\ ls1[(L + 2) + 1] = t[L + 2]
        BY <1>5, <1>7, <3>1, <3>2, <3>3, <3>4
      <3>6. /\ \A k \in 1..L + 1 : k \in 1..L + 2
            /\ \A l \in L + 1..L + 2 : l = L + 1 \/ l = L + 2
            /\ L + w = L + 2 /\ L + w + 1 = L + 3
        <4>1. L \in Nat /\ w = 2
          BY <1>5, <3>2
        <4> QED
          BY ONLY <4>1
      <3>7. \A k \in 1..L + 1 : ls1[k] = ls[k]
        BY <3>3, <3>4, <3>6
      <3>8. \A l \in L + 1..L + w : ls1[l + 1] = t[l]
        BY <3>5, <3>6
      <3> QED
        BY <3>4, <3>6, <3>7, <3>8
    <2>3. CASE b[a].k # "for"
      <3>1. ls1 = Append(ls, NoNames) /\ w = 1
        BY <1>4, <2>3
      <3>2. ls1 \in Seq(Level) /\ Len(ls1) = L + 2 /\ ls1[L + 2] = NoNames /\ \A k \in 1..L + 1 : ls1[k] = ls[k]
        BY <1>5, <1>8, <2>1, <3>1
      <3>3. \A l \in L + 1..L + 1 : l = L + 1
        BY <1>5
      <3> QED
        BY <3>1, <3>2, <3>3, <1>5, <1>7
    <2> QED
      BY <2>2, <2>3
  <1>10. /\ fs1 \in Seq(Frame) /\ Len(fs1) = K + 2 /\ \A k \in 1..K + 1 : fs1[k] = fs[k]
         /\ fs1[K + 2].back = 0 /\ fs1[K + 2].waiting = <<>>
    <2>1. PICK f : f = [waiting |-> <<>>, back |-> 0, cleaned |-> FALSE]
      OBVIOUS
    <2>2. f \in Frame /\ f.back = 0 /\ f.waiting = <<>>
      BY <2>1 DEF Frame
    <2>3. fs1 = Append(fs, f)
      BY <2>1
    <2> QED
      BY <1>5, <1>8, <2>2, <2>3
  <1>11. /\ \A l \in 1..L : l + 1 \in 1..L + 1 /\ l \in 1..L + w
         /\ \A l \in 1..L + w : l \in 1..L \/ l \in L + 1..L + w
         /\ \A j \in 1..K : j + 1 \in 1..K + 1 /\ j \in 1..K + 1
         /\ \A j \in 1..K + 1 : j \in 1..K \/ j = K + 1
         /\ 1 \in 1..K + 1 /\ 1 \in 1..L + 1
    BY <1>5
  <1>12. GoodFrames(b, h, a + 1, fs1)
    <2>1. ASSUME NEW j \in 1..K + 1, fs1[j + 1].back # 0
          PROVE  Resumes(b, h, h[a + 1][j], fs1[j + 1].back)
      <3>1. j \in 1..K
        <4>1. (K + 1) + 1 = K + 2
          BY <1>5
        <4> QED
          BY <1>10, <1>11, <2>1, <4>1
      <3>2. fs1[j + 1] = fs[j + 1] /\ h[a + 1][j] = h[a][j]
        BY <1>6, <1>10, <1>11, <3>1
      <3> QED
        BY <2>1, <3>1, <3>2, <1>4 DEF Placed, GoodFrames
    <2>2. Len(fs1) = Len(h[a + 1]) + 1 /\ fs1[1].back = 0
      BY <1>5, <1>6, <1>8, <1>10, <1>11
    <2> QED
      BY <2>1, <2>2, <1>2, <1>6, <1>10 DEF GoodFrames
  <1>13. GoodMaps(ps, h, s, a + 1, fs1, ls1)
    <2>1. ASSUME NEW l \in 1..L + w, NEW n \in Names
          PROVE  \/ ls1[l + 1][n] = NONE \/ ls1[l + 1][n] = t[l][n]
                 \/ Later(h, s, a + 1, fs1, l, n, ls1[l + 1][n])
      <3>1. CASE l \in 1..L
        <4>1. ls1[l + 1] = ls[l + 1] /\ t[l] = s[a][l]
          BY <1>7, <1>9, <1>11, <3>1
        <4>2. \/ ls[l + 1][n] = NONE \/ ls[l + 1][n] = s[a][l][n]
              \/ Later(h, s, a, fs, l, n, ls[l + 1][n])
          BY <1>4, <3>1 DEF Placed, GoodMaps
        <4>3. ASSUME Later(h, s, a, fs, l, n, ls[l + 1][n])
              PROVE  Later(h, s, a + 1, fs1, l, n, ls[l + 1][n])
          <5>1. PICK j \in 1..K : fs[j + 1].back # 0 /\ l = Len(s[h[a][j]]) /\ ls[l + 1][n] = s[fs[j + 1].back][l][n]
            BY <4>3, <1>4 DEF Later
          <5>2. fs1[j + 1] = fs[j + 1] /\ h[a + 1][j] = h[a][j] /\ j \in 1..K + 1
            BY <1>6, <1>10, <1>11
          <5> QED
            BY <5>1, <5>2, <1>6 DEF Later
        <4> QED
          BY <4>1, <4>2, <4>3
      <3>2. CASE l \in L + 1..L + w
        BY <1>9, <3>2
      <3> QED
        BY <3>1, <3>2, <1>11
    <2>2. Len(ls1) = Len(t) + 1 /\ ls1[1] = ps
      BY <1>5, <1>7, <1>8, <1>9, <1>11
    <2> QED
      BY <2>1, <2>2, <1>4, <1>7, <1>9 DEF GoodMaps
  <1>14. \A l \in 1..L : \A n, v : Held(ls, l, n, v) => Held(ls1, l, n, v)
    <2>1. \A l \in 1..L : ls1[l + 1] = ls[l + 1] /\ ls1[1] = ls[1]
      BY <1>9, <1>11
    <2> QED
      BY <2>1 DEF Held
  <1>15. Covered(s, a + 1, ls1, live1)
    <2>1. ASSUME NEW l \in 1..L + w, NEW n \in Names, t[l][n] # NONE
          PROVE  Held(ls1, l, n, t[l][n])
      <3>1. CASE l \in 1..L
        <4>1. t[l] = s[a][l]
          BY <1>7, <3>1
        <4>2. Held(ls, l, n, s[a][l][n])
          BY <2>1, <3>1, <4>1, <1>4 DEF Placed, Covered
        <4> QED
          BY <1>14, <3>1, <4>1, <4>2
      <3>2. CASE l \in L + 1..L + w
        BY <1>9, <3>2 DEF Held
      <3> QED
        BY <3>1, <3>2, <1>11
    <2> QED
      BY <2>1, <1>4, <1>7 DEF Covered
  <1>16. GoodWaits(b, h, s, a + 1, fs1, ls1)
    <2>1. ASSUME NEW i \in 1..K + 1, NEW d, Awaits(b, h, s, a, ls, i, d)
          PROVE  Awaits(b, h, s, a + 1, ls1, i, d)
      <3>1. d \in 1..Len(b) /\ b[d].k = "defer" /\ Len(h[d]) = i - 1 /\ \A j \in 1..i - 1 : h[d][j] = h[a][j]
        BY <2>1 DEF Awaits
      <3>2. \A j \in 1..i - 1 : h[d][j] = h[a + 1][j]
        <4>1. \A j \in 1..i - 1 : j \in 1..K
          BY <1>5
        <4> QED
          BY <3>1, <4>1, <1>6
      <3>3. Len(s[d]) \in 1..L
        <4>1. d \in 1..Len(b) + 1 /\ i \in 1..Len(h[a]) + 1
          BY <1>1, <1>4, <3>1
        <4>2. Len(s[d]) \in Nat /\ Len(s[d]) >= 1
          BY <4>1, HistoryTypes, ScopesDeep DEF Finished
        <4>3. /\ i = Len(h[a]) + 1 => h[d] = h[a] /\ Len(s[d]) = Len(s[a])
              /\ i <= Len(h[a]) => h[d] = h[h[a][i]] /\ Len(s[d]) = Len(s[h[a][i]]) /\ Len(s[d]) < Len(s[a])
          BY <1>1, <3>1, <4>1, WaitingScopes
        <4>4. i = K + 1 \/ i <= K
          BY <1>5
        <4> QED
          BY <4>2, <4>3, <4>4, <1>4, <1>5
      <3> QED
        BY <2>1, <3>1, <3>2, <3>3, <1>14 DEF Awaits
    <2>2. ASSUME NEW i \in 1..K + 2, NEW k \in 1..Len(fs1[i].waiting)
          PROVE  Awaits(b, h, s, a + 1, ls1, i, fs1[i].waiting[k])
      <3>1. i # K + 2
        BY <1>10
      <3>2. i \in 1..K + 1 /\ fs1[i] = fs[i]
        BY <1>5, <1>10, <3>1
      <3>3. Awaits(b, h, s, a, ls, i, fs[i].waiting[k])
        BY <1>8, <3>2 DEF Placed, GoodWaits
      <3> QED
        BY <2>1, <3>2, <3>3
    <2> QED
      BY <2>2, <1>10 DEF GoodWaits
  <1> QED
    BY <1>12, <1>13, <1>15, <1>16 DEF Placed

\* the frames with other bodies waiting in the k-th
Reframed(fs1, fs, k, wt) ==
  /\ fs1 \in Seq(Frame) /\ Len(fs1) = Len(fs)
  /\ fs1[k].waiting = wt /\ fs1[k].back = fs[k].back
  /\ \A i \in 1..Len(fs) : i # k => fs1[i] = fs[i]

\* With a body that waits.
LEMMA MoveDefer ==
  ASSUME NEW b \in Bodies, NEW ps, NEW h, NEW s, Finished(b, ps, h, s),
         NEW a, NEW fs, NEW ls, Placed(b, ps, h, s, a, fs, ls, TRUE),
         a <= Len(b), b[a].k = "defer",
         NEW fs1, Reframed(fs1, fs, Len(fs), Append(fs[Len(fs)].waiting, a))
  PROVE  Placed(b, ps, h, s, a, fs1, ls, TRUE)
  <1>1. a \in 1..Len(b) + 1 /\ Len(b) \in Nat
    BY DEF Placed, GoodFrames, Bodies
  <1>2. a \in 1..Len(b) /\ a \in Nat
    BY <1>1
  <1>3. PICK L, K : L = Len(s[a]) /\ K = Len(h[a])
    OBVIOUS
  <1>4. L \in Nat /\ L >= 1 /\ K \in Nat
    BY <1>1, <1>3, HistoryTypes, ScopesDeep DEF Finished
  <1>5. /\ fs \in Seq(Frame) /\ Len(fs) = K + 1 /\ fs[1].back = 0 /\ K + 1 \in 1..K + 1 /\ 1 \in 1..K + 1
        /\ fs1 \in Seq(Frame) /\ Len(fs1) = K + 1
    BY <1>3, <1>4 DEF Placed, GoodFrames, Reframed
  <1>6. /\ fs1[K + 1].waiting = Append(fs[K + 1].waiting, a)
        /\ \A i \in 1..K + 1 : fs1[i].back = fs[i].back
        /\ \A i \in 1..K + 1 : i # K + 1 => fs1[i] = fs[i]
    BY <1>5 DEF Reframed
  <1>7. GoodFrames(b, h, a, fs1)
    <2>1. ASSUME NEW j \in 1..K, fs1[j + 1].back # 0 PROVE Resumes(b, h, h[a][j], fs1[j + 1].back)
      <3>1. fs1[j + 1].back = fs[j + 1].back
        <4>1. j + 1 \in 1..K + 1
          BY <1>4
        <4> QED
          BY <4>1, <1>6
      <3> QED
        BY <2>1, <3>1, <1>3 DEF Placed, GoodFrames
    <2> QED
      BY <2>1, <1>1, <1>3, <1>5, <1>6 DEF GoodFrames
  <1>8. GoodMaps(ps, h, s, a, fs1, ls)
    <2>1. ASSUME NEW l, NEW n, NEW v, Later(h, s, a, fs, l, n, v) PROVE Later(h, s, a, fs1, l, n, v)
      <3>1. PICK j \in 1..K : fs[j + 1].back # 0 /\ l = Len(s[h[a][j]]) /\ v = s[fs[j + 1].back][l][n]
        BY <2>1, <1>3 DEF Later
      <3>2. j + 1 \in 1..K + 1
        BY <1>4
      <3>3. fs1[j + 1].back = fs[j + 1].back
        BY <3>2, <1>6
      <3> QED
        BY <3>1, <3>3, <1>3 DEF Later
    <2> QED
      BY <2>1 DEF Placed, GoodMaps
  <1>9. Awaits(b, h, s, a, ls, K + 1, a)
    <2>1. ASSUME NEW n \in Names, Top(s, a)[n] # NONE PROVE Held(ls, Len(s[a]), n, Top(s, a)[n])
      <3>1. L \in 1..L
        BY <1>4
      <3> QED
        BY <2>1, <3>1, <1>3 DEF Placed, Covered, Top
    <2>2. Len(h[a]) = (K + 1) - 1
      BY <1>3, <1>4
    <2> QED
      BY <1>2, <2>1, <2>2 DEF Awaits
  <1>10. GoodWaits(b, h, s, a, fs1, ls)
    <2>1. ASSUME NEW i \in 1..K + 1, NEW k \in 1..Len(fs1[i].waiting)
          PROVE  Awaits(b, h, s, a, ls, i, fs1[i].waiting[k])
      <3>1. CASE i # K + 1
        <4>1. fs1[i] = fs[i]
          BY <1>6, <3>1
        <4> QED
          BY <4>1, <1>5 DEF Placed, GoodWaits
      <3>2. CASE i = K + 1
        <4>1. PICK wt : wt = fs[K + 1].waiting
          OBVIOUS
        <4>0. fs[K + 1] \in Frame
          BY <1>5
        <4>2. wt \in Seq(Nat) /\ fs1[i].waiting = Append(wt, a)
          BY <1>6, <3>2, <4>0, <4>1 DEF Frame
        <4>3. (k \in 1..Len(wt) /\ Append(wt, a)[k] = wt[k]) \/ Append(wt, a)[k] = a
          <5>1. k \in 1..Len(Append(wt, a))
            BY <4>2
          <5> QED
            BY ONLY <4>2, <5>1, <1>2
        <4>4. \A j \in 1..Len(wt) : Awaits(b, h, s, a, ls, K + 1, wt[j])
          BY <4>1, <1>5 DEF Placed, GoodWaits
        <4> QED
          BY <3>2, <4>2, <4>3, <4>4, <1>9
      <3> QED
        BY <3>1, <3>2
    <2> QED
      BY <2>1, <1>5 DEF GoodWaits
  <1> QED
    BY <1>7, <1>8, <1>10 DEF Placed

\* At the end of a block, into the last of the bodies that wait there.
LEMMA MoveRun ==
  ASSUME NEW b \in Bodies, NEW ps, NEW h, NEW s, Finished(b, ps, h, s),
         NEW a, NEW fs, NEW ls, NEW live, Placed(b, ps, h, s, a, fs, ls, live),
         a <= Len(b) => b[a].k = "end",
         NEW d, NEW wt, fs[Len(fs)].waiting # <<>>,
         d = Last(fs[Len(fs)].waiting), wt = Front(fs[Len(fs)].waiting),
         NEW fs0, Reframed(fs0, fs, Len(fs), wt),
         NEW fs1, fs1 = Append(fs0, [waiting |-> <<>>, back |-> a, cleaned |-> FALSE]),
         NEW ls1, ls1 = Append(ls, NoNames), NEW live1
  PROVE  Placed(b, ps, h, s, d + 1, fs1, ls1, live1)
  <1>1. a \in 1..Len(b) + 1 /\ Len(b) \in Nat /\ a \in Nat
    BY DEF Placed, GoodFrames, Bodies
  <1>2. PICK L, K : L = Len(s[a]) /\ K = Len(h[a])
    OBVIOUS
  <1>3. L \in Nat /\ L >= 1 /\ K \in Nat
    BY <1>1, <1>2, HistoryTypes, ScopesDeep DEF Finished
  <1>4. /\ fs \in Seq(Frame) /\ Len(fs) = K + 1 /\ fs[1].back = 0 /\ K + 1 \in 1..K + 1 /\ 1 \in 1..K + 1
        /\ fs0 \in Seq(Frame) /\ Len(fs0) = K + 1
        /\ ls \in Seq(Level) /\ Len(ls) = L + 1 /\ ls[1] = ps
    BY <1>2, <1>3 DEF Placed, GoodFrames, GoodMaps, Reframed
  <1>5. PICK w : w = fs[K + 1].waiting
    OBVIOUS
  <1>6. /\ w \in Seq(Nat) /\ w # <<>> /\ d = Last(w) /\ wt = Front(w) /\ Len(w) \in Nat /\ Len(w) >= 1
    <2>1. fs[K + 1] \in Frame
      BY <1>4
    <2>2. w \in Seq(Nat) /\ w # <<>>
      BY <2>1, <1>4, <1>5 DEF Frame
    <2>3. Len(w) \in Nat /\ Len(w) >= 1
      BY <2>2
    <2>4. d = Last(w) /\ wt = Front(w)
      BY <1>4, <1>5
    <2> QED
      BY <2>2, <2>3, <2>4
  <1>7. /\ d = w[Len(w)] /\ Len(w) \in 1..Len(w)
        /\ Len(wt) = Len(w) - 1 /\ \A k \in 1..Len(w) - 1 : wt[k] = w[k]
    BY <1>6, FrontIs DEF Last
  <1>8. Awaits(b, h, s, a, ls, K + 1, d)
    BY <1>4, <1>5, <1>7 DEF Placed, GoodWaits
  <1>9. d \in 1..Len(b) /\ b[d].k = "defer" /\ d + 1 \in 1..Len(b) + 1 /\ d \in 1..Len(b) + 1
    BY <1>1, <1>8 DEF Awaits
  <1>10. h[d] = h[a] /\ Len(s[d]) = L
    <2>1. K + 1 \in 1..Len(h[a]) + 1 /\ K + 1 = Len(h[a]) + 1
      BY <1>2, <1>3
    <2>2. Len(h[d]) = (K + 1) - 1 /\ \A j \in 1..(K + 1) - 1 : h[d][j] = h[a][j]
      BY <1>8 DEF Awaits
    <2>3. ASSUME NEW i \in 1..Len(h[a]) + 1, Len(h[d]) = i - 1, \A j \in 1..i - 1 : h[d][j] = h[a][j]
          PROVE  /\ i = Len(h[a]) + 1 => h[d] = h[a] /\ Len(s[d]) = Len(s[a])
                 /\ i <= Len(h[a]) => h[d] = h[h[a][i]] /\ Len(s[d]) = Len(s[h[a][i]]) /\ Len(s[d]) < Len(s[a])
      <3>1. b \in Bodies /\ Finished(b, ps, h, s) /\ a \in 1..Len(b) + 1 /\ d \in 1..Len(b)
        BY <1>1, <1>9
      <3> QED
        BY ONLY <3>1, <2>3, i \in 1..Len(h[a]) + 1, WaitingScopes
    <2> QED
      BY <1>2, <2>1, <2>2, <2>3
  <1>11. \A l \in 1..L - 1 : s[d][l] = s[a][l]
    <2>1. History(b, Len(b), ps, h, s)
      BY DEF Finished
    <2>2. \A l \in 1..Len(s[a]) - 1 : s[d][l] = s[a][l]
      <3>1. b \in Bodies /\ h[d] = h[a] /\ d \in 1..Len(b) + 1 /\ a \in 1..Len(b) + 1
        BY <1>1, <1>9, <1>10
      <3> QED
        BY ONLY <2>1, <3>1, SameBlockLevels
    <2> QED
      BY <1>2, <2>2
  <1>12. Adds(h[d + 1], h[d], d) /\ Adds(s[d + 1], s[d], NoNames)
    BY <1>9, HistoryTurn DEF Finished, Turned, Widened, Opens
  <1>13. PICK t : t = s[d + 1]
    OBVIOUS
  <1>14. /\ Len(h[d + 1]) = K + 1 /\ h[d + 1][K + 1] = d /\ \A j \in 1..K : h[d + 1][j] = h[a][j]
         /\ Len(t) = L + 1 /\ t[L + 1] = NoNames /\ t[L] = s[d][L] /\ \A l \in 1..L - 1 : t[l] = s[a][l]
    <2>1. /\ Len(h[d + 1]) = K + 1 /\ h[d + 1][K + 1] = d /\ \A j \in 1..K : h[d + 1][j] = h[a][j]
      BY <1>2, <1>10, <1>12 DEF Adds
    <2>2. Len(t) = L + 1 /\ t[L + 1] = NoNames /\ \A l \in 1..L : t[l] = s[d][l]
      BY <1>10, <1>12, <1>13 DEF Adds
    <2>3. L \in 1..L /\ \A l \in 1..L - 1 : l \in 1..L
      BY <1>3
    <2> QED
      BY <2>1, <2>2, <2>3, <1>11
  <1>15. /\ fs1 \in Seq(Frame) /\ Len(fs1) = K + 2
         /\ \A i \in 1..K + 1 : fs1[i].back = fs[i].back
         /\ \A i \in 1..K : fs1[i].waiting = fs[i].waiting
         /\ fs1[K + 1].waiting = wt
         /\ fs1[K + 2].back = a /\ fs1[K + 2].waiting = <<>>
    <2>1. PICK f : f = [waiting |-> <<>>, back |-> a, cleaned |-> FALSE]
      OBVIOUS
    <2>2. f \in Frame /\ f.back = a /\ f.waiting = <<>> /\ fs1 = Append(fs0, f)
      BY <1>1, <2>1 DEF Frame
    <2>3. fs1 \in Seq(Frame) /\ Len(fs1) = K + 2 /\ fs1[K + 2] = f /\ \A i \in 1..K + 1 : fs1[i] = fs0[i]
      BY <1>3, <1>4, <2>2
    <2>4. /\ \A i \in 1..K + 1 : fs0[i].back = fs[i].back
          /\ fs0[K + 1].waiting = wt
          /\ \A i \in 1..K + 1 : i # K + 1 => fs0[i] = fs[i]
      BY <1>4 DEF Reframed
    <2>5. \A i \in 1..K : i \in 1..K + 1 /\ i # K + 1
      BY <1>3
    <2> QED
      BY <2>2, <2>3, <2>4, <2>5, <1>4
  <1>16. ls1 \in Seq(Level) /\ Len(ls1) = L + 2 /\ ls1[L + 2] = NoNames /\ \A k \in 1..L + 1 : ls1[k] = ls[k]
    <2>1. PICK e : e = NoNames
      OBVIOUS
    <2>2. e \in Level
      BY <2>1, ScopesTypes
    <2>3. L \in Nat /\ ls \in Seq(Level) /\ Len(ls) = L + 1 /\ e \in Level /\ ls1 = Append(ls, e)
      BY <1>3, <1>4, <2>1, <2>2
    <2>4. ls1 \in Seq(Level) /\ Len(ls1) = L + 2 /\ ls1[L + 2] = e /\ \A k \in 1..L + 1 : ls1[k] = ls[k]
      BY ONLY <2>3
    <2> QED
      BY <2>1, <2>4
  <1>17. /\ \A l \in 1..L + 1 : l \in 1..L - 1 \/ l = L \/ l = L + 1
         /\ \A l \in 1..L : l + 1 \in 1..L + 1 /\ l # L + 1
         /\ \A l \in 1..L - 1 : l \in 1..L /\ l < L
         /\ \A j \in 1..K : j \in 1..K + 1 /\ j + 1 \in 1..K + 1
         /\ \A j \in 1..K + 1 : j \in 1..K \/ j = K + 1
         /\ \A j \in 1..K + 2 : j \in 1..K \/ j = K + 1 \/ j = K + 2
         /\ L \in 1..L /\ (L + 1) + 1 = L + 2 /\ (K + 1) + 1 = K + 2 /\ (K + 1) - 1 = K /\ 1 \in 1..L + 1
    BY <1>3
  <1>18. GoodFrames(b, h, d + 1, fs1)
    <2>1. ASSUME NEW j \in 1..K + 1, fs1[j + 1].back # 0
          PROVE  Resumes(b, h, h[d + 1][j], fs1[j + 1].back)
      <3>1. CASE j \in 1..K
        <4>1. fs1[j + 1].back = fs[j + 1].back /\ h[d + 1][j] = h[a][j]
          BY <1>14, <1>15, <1>17, <3>1
        <4> QED
          BY <2>1, <3>1, <4>1, <1>2 DEF Placed, GoodFrames
      <3>2. CASE j = K + 1
        <4>1. fs1[j + 1].back = a /\ h[d + 1][j] = d
          BY <1>14, <1>15, <1>17, <3>2
        <4> QED
          BY <4>1, <1>1, <1>9, <1>10 DEF Resumes
      <3> QED
        BY <3>1, <3>2, <1>17
    <2> QED
      BY <2>1, <1>4, <1>9, <1>14, <1>15, <1>17 DEF GoodFrames
  <1>19. GoodMaps(ps, h, s, d + 1, fs1, ls1)
    <2>1. ASSUME NEW l \in 1..L + 1, NEW n \in Names
          PROVE  \/ ls1[l + 1][n] = NONE \/ ls1[l + 1][n] = t[l][n]
                 \/ Later(h, s, d + 1, fs1, l, n, ls1[l + 1][n])
      <3>1. CASE l = L + 1
        BY <1>14, <1>16, <1>17, <3>1
      <3>2. CASE l # L + 1
        <4>1. l \in 1..L
          BY <1>17, <3>2
        <4>2. ls1[l + 1] = ls[l + 1]
          BY <1>16, <1>17, <4>1
        <4>3. \/ ls[l + 1][n] = NONE \/ ls[l + 1][n] = s[a][l][n]
              \/ Later(h, s, a, fs, l, n, ls[l + 1][n])
          BY <1>2, <4>1 DEF Placed, GoodMaps
        <4>4. ASSUME Later(h, s, a, fs, l, n, ls[l + 1][n])
              PROVE  Later(h, s, d + 1, fs1, l, n, ls[l + 1][n])
          <5>1. PICK j \in 1..K : fs[j + 1].back # 0 /\ l = Len(s[h[a][j]]) /\ ls[l + 1][n] = s[fs[j + 1].back][l][n]
            BY <4>4, <1>2 DEF Later
          <5>2. fs1[j + 1].back = fs[j + 1].back /\ h[d + 1][j] = h[a][j] /\ j \in 1..K + 1
            BY <1>14, <1>15, <1>17
          <5> QED
            BY <5>1, <5>2, <1>14 DEF Later
        <4>5. ASSUME ls[l + 1][n] = s[a][l][n]
              PROVE  ls[l + 1][n] = t[l][n] \/ Later(h, s, d + 1, fs1, l, n, ls[l + 1][n])
          <5>1. CASE l = L
            <6>1. K + 1 \in 1..Len(h[d + 1]) /\ fs1[(K + 1) + 1].back = a /\ h[d + 1][K + 1] = d
              BY <1>4, <1>14, <1>15, <1>17
            <6>2. a # 0 /\ l = Len(s[d])
              BY <5>1, <1>1, <1>10
            <6> QED
              BY <6>1, <6>2, <4>5 DEF Later
          <5>2. CASE l # L
            <6>1. l \in 1..L - 1
              BY <1>17, <4>1, <5>2
            <6> QED
              BY <6>1, <4>5, <1>14
          <5> QED
            BY <5>1, <5>2
        <4> QED
          BY <4>2, <4>3, <4>4, <4>5
      <3> QED
        BY <3>1, <3>2
    <2>2. Len(ls1) = Len(t) + 1 /\ ls1[1] = ps
      BY <1>3, <1>4, <1>14, <1>16, <1>17
    <2> QED
      BY <2>1, <2>2, <1>13, <1>14, <1>16 DEF GoodMaps
  <1>20. \A l \in 1..L : \A n, v : Held(ls, l, n, v) => Held(ls1, l, n, v)
    <2>1. \A l \in 1..L : ls1[l + 1] = ls[l + 1] /\ ls1[1] = ls[1]
      BY <1>16, <1>17
    <2> QED
      BY <2>1 DEF Held
  <1>21. Covered(s, d + 1, ls1, live1)
    <2>1. ASSUME NEW l \in 1..L + 1, NEW n \in Names, t[l][n] # NONE
          PROVE  Held(ls1, l, n, t[l][n])
      <3>1. CASE l = L + 1
        BY <1>14, <2>1, <3>1, ScopesTypes
      <3>2. CASE l = L
        <4>1. t[l][n] = Top(s, d)[n]
          BY <1>10, <1>14, <3>2 DEF Top
        <4>2. Held(ls, Len(s[d]), n, Top(s, d)[n])
          BY <1>8, <2>1, <4>1 DEF Awaits
        <4> QED
          BY <1>10, <1>17, <1>20, <3>2, <4>1, <4>2
      <3>3. CASE l \in 1..L - 1
        <4>1. t[l] = s[a][l] /\ l \in 1..L /\ l < L
          BY <1>14, <1>17, <3>3
        <4>2. Held(ls, l, n, s[a][l][n])
          BY <2>1, <4>1, <1>2 DEF Placed, Covered
        <4> QED
          BY <1>20, <4>1, <4>2
      <3> QED
        BY <3>1, <3>2, <3>3, <1>17
    <2> QED
      BY <2>1, <1>13, <1>14 DEF Covered
  <1>22. ASSUME NEW i \in 1..K + 1, NEW c, Awaits(b, h, s, a, ls, i, c)
         PROVE  Awaits(b, h, s, d + 1, ls1, i, c)
    <2>1. c \in 1..Len(b) /\ b[c].k = "defer" /\ Len(h[c]) = i - 1 /\ \A j \in 1..i - 1 : h[c][j] = h[a][j]
      BY <1>22 DEF Awaits
    <2>2. \A j \in 1..i - 1 : h[c][j] = h[d + 1][j]
      <3>1. \A j \in 1..i - 1 : j \in 1..K
        BY <1>3
      <3> QED
        BY <2>1, <3>1, <1>14
    <2>3. Len(s[c]) \in 1..L
      <3>1. c \in 1..Len(b) + 1 /\ i \in 1..Len(h[a]) + 1
        BY <1>1, <1>2, <2>1
      <3>2. Len(s[c]) \in Nat /\ Len(s[c]) >= 1
        BY <3>1, HistoryTypes, ScopesDeep DEF Finished
      <3>3. /\ i = Len(h[a]) + 1 => h[c] = h[a] /\ Len(s[c]) = Len(s[a])
            /\ i <= Len(h[a]) => h[c] = h[h[a][i]] /\ Len(s[c]) = Len(s[h[a][i]]) /\ Len(s[c]) < Len(s[a])
        BY <1>1, <2>1, <3>1, WaitingScopes
      <3>4. i = K + 1 \/ i <= K
        BY <1>3
      <3> QED
        BY <3>2, <3>3, <3>4, <1>2, <1>3
    <2> QED
      BY <1>22, <2>1, <2>2, <2>3, <1>20 DEF Awaits
  <1>23. GoodWaits(b, h, s, d + 1, fs1, ls1)
    <2>1. ASSUME NEW i \in 1..K + 2, NEW k \in 1..Len(fs1[i].waiting)
          PROVE  Awaits(b, h, s, d + 1, ls1, i, fs1[i].waiting[k])
      <3>1. CASE i \in 1..K
        <4>1. fs1[i].waiting = fs[i].waiting /\ i \in 1..K + 1
          BY <1>15, <1>17, <3>1
        <4>2. Awaits(b, h, s, a, ls, i, fs[i].waiting[k])
          BY <4>1, <1>4 DEF Placed, GoodWaits
        <4> QED
          BY <4>1, <4>2, <1>22
      <3>2. CASE i = K + 1
        <4>1. fs1[i].waiting = wt /\ k \in 1..Len(w) - 1
          BY <1>7, <1>15, <3>2
        <4>2. wt[k] = w[k] /\ k \in 1..Len(w)
          <5>1. wt[k] = w[k]
            BY <4>1, <1>7
          <5>2. k \in 1..Len(w)
            BY ONLY <4>1, <1>6
          <5> QED
            BY <5>1, <5>2
        <4>3. Awaits(b, h, s, a, ls, K + 1, w[k])
          BY <4>2, <1>4, <1>5 DEF Placed, GoodWaits
        <4> QED
          BY <3>2, <4>1, <4>2, <4>3, <1>4, <1>22
      <3>3. i # K + 2
        BY <1>15
      <3> QED
        BY <3>1, <3>2, <3>3, <1>17
    <2> QED
      BY <2>1, <1>15 DEF GoodWaits
  <1> QED
    BY <1>18, <1>19, <1>21, <1>23 DEF Placed

\* out of the block that o opens, to q
Leaves(h, s, a, fs, ls, o, q, fs1, ls1, live1) ==
  /\ Len(h[a]) >= 1 /\ o = h[a][Len(h[a])] /\ h[q] = h[o]
  /\ \/ s[q] = s[o] /\ fs[Len(fs)].back = 0
     \/ q = fs[Len(fs)].back /\ ~live1
  /\ fs1 = Front(fs) /\ Len(ls1) = Len(s[o]) + 1 /\ \A k \in 1..Len(s[o]) + 1 : ls1[k] = ls[k]

\* Out of a block: to its end, or to where its deferred body was left.
LEMMA MoveOut ==
  ASSUME NEW b \in Bodies, NEW ps, NEW h, NEW s, Finished(b, ps, h, s),
         NEW a, NEW fs, NEW ls, NEW live, Placed(b, ps, h, s, a, fs, ls, live),
         NEW o, NEW q \in 1..Len(b) + 1, NEW live1, NEW fs1, NEW ls1 \in Seq(Level),
         Leaves(h, s, a, fs, ls, o, q, fs1, ls1, live1)
  PROVE  Placed(b, ps, h, s, q, fs1, ls1, live1)
  <1> USE DEF Leaves
  <1>1. a \in 1..Len(b) + 1 /\ Len(b) \in Nat /\ a \in Nat /\ q \in Nat
    BY DEF Placed, GoodFrames, Bodies
  <1>0. History(b, Len(b), ps, h, s)
    BY DEF Finished
  <1>2. PICK L, K, M : L = Len(s[a]) /\ K = Len(h[a]) /\ M = Len(s[o])
    OBVIOUS
  <1>3. L \in Nat /\ K \in Nat /\ K >= 1 /\ K \in 1..K
    BY <1>0, <1>1, <1>2, HistoryTypes
  <1>4. Encloses(b, h, s, a, K, o)
    <2>1. \A i \in 1..Len(b) + 1 : \A j \in 1..Len(h[i]) : Encloses(b, h, s, i, j, h[i][j])
      BY <1>0, HistoryEncloses
    <2>2. K \in 1..Len(h[a]) /\ o = h[a][K]
      BY <1>2, <1>3
    <2> QED
      BY <1>1, <2>1, <2>2
  <1>5. /\ o \in 1..Len(b) + 1 /\ o \in Nat /\ Len(h[o]) = K - 1 /\ \A j \in 1..K - 1 : h[o][j] = h[a][j]
        /\ M < L /\ \A l \in 1..M : s[a][l] = s[o][l]
    <2>1. /\ o \in 1..a - 1 /\ Len(h[o]) = K - 1 /\ \A j \in 1..K - 1 : h[o][j] = h[a][j]
          /\ M < L /\ \A l \in 1..M : s[a][l] = s[o][l]
      BY <1>2, <1>4 DEF Encloses
    <2>2. o \in 1..Len(b) + 1 /\ o \in Nat
      BY <1>1, <2>1
    <2> QED
      BY <2>1, <2>2
  <1>6. M \in Nat /\ M >= 1
    BY <1>0, <1>2, <1>5, HistoryTypes, ScopesDeep
  <1>7. Len(s[q]) = M /\ \A l \in 1..M - 1 : s[q][l] = s[o][l]
    <2>1. Len(s[q]) = Len(s[o]) /\ \A l \in 1..Len(s[o]) - 1 : s[q][l] = s[o][l]
      <3>1. b \in Bodies /\ q \in 1..Len(b) + 1 /\ o \in 1..Len(b) + 1 /\ h[q] = h[o]
        BY <1>5
      <3> QED
        BY ONLY <3>1, <1>0, SameBlockLevels
    <2> QED
      BY <2>1, <1>2
  <1>8. Len(h[q]) = K - 1 /\ \A j \in 1..K - 1 : h[q][j] = h[a][j]
    BY <1>5
  <1>9. fs \in Seq(Frame) /\ Len(fs) = K + 1 /\ fs[1].back = 0
    BY <1>2 DEF Placed, GoodFrames
  <1>10. fs1 \in Seq(Frame) /\ Len(fs1) = K /\ \A i \in 1..K : fs1[i] = fs[i]
    <2>1. fs1 \in Seq(Frame) /\ Len(fs1) = Len(fs) - 1 /\ \A i \in 1..Len(fs) - 1 : fs1[i] = fs[i]
      <3>1. Len(fs) >= 1 /\ fs \in Seq(Frame)
        BY <1>3, <1>9
      <3>2. /\ Front(fs) \in Seq(Frame) /\ Len(Front(fs)) = Len(fs) - 1
            /\ \A i \in 1..Len(fs) - 1 : Front(fs)[i] = fs[i]
        BY ONLY <3>1, FrontIs
      <3> QED
        BY <3>2
    <2>2. (K + 1) - 1 = K
      BY <1>3
    <2> QED
      BY <2>1, <2>2, <1>9
  <1>11. /\ \A j \in 1..K - 1 : j \in 1..K /\ j + 1 \in 1..K
         /\ \A j \in 1..K : j \in 1..K - 1 \/ j = K
         /\ \A l \in 1..M : l \in 1..L /\ l < L /\ l + 1 \in 1..M + 1 /\ (l \in 1..M - 1 \/ l = M)
         /\ M \in 1..M /\ 1 \in 1..K /\ 1 \in 1..M + 1 /\ (K - 1) + 1 = K
    BY <1>3, <1>5, <1>6
  <1>12. ls \in Seq(Level) /\ Len(ls) = L + 1 /\ ls[1] = ps /\ Len(ls1) = M + 1 /\ \A k \in 1..M + 1 : ls1[k] = ls[k]
    BY <1>2 DEF Placed, GoodMaps
  <1>13. GoodFrames(b, h, q, fs1)
    <2>1. ASSUME NEW j \in 1..K - 1, fs1[j + 1].back # 0 PROVE Resumes(b, h, h[q][j], fs1[j + 1].back)
      <3>1. fs1[j + 1].back = fs[j + 1].back /\ h[q][j] = h[a][j] /\ j \in 1..K
        BY <1>8, <1>10, <1>11
      <3> QED
        BY <2>1, <3>1, <1>2 DEF Placed, GoodFrames
    <2> QED
      BY <2>1, <1>8, <1>9, <1>10, <1>11 DEF GoodFrames
  \* what the block's scope held at its opener
  <1>14. \A n \in Names : \/ s[o][M][n] = NONE
                          \/ s[o][M][n] = s[q][M][n]
    <2>1. CASE s[q] = s[o] /\ fs[Len(fs)].back = 0
      BY <2>1
    <2>2. CASE q = fs[Len(fs)].back /\ ~live1
      <3>1. fs[K + 1].back # 0
        BY <2>2, <1>1, <1>9
      <3>2. Resumes(b, h, o, q)
        BY <2>2, <3>1, <1>2, <1>3, <1>9 DEF Placed, GoodFrames
      <3>3. o <= q
        <4>1. CASE q <= Len(b)
          <5>1. q \in 1..Len(b) /\ b[q].k = "end"
            BY <4>1, <1>1, <3>2 DEF Resumes
          <5> QED
            <6>1. b \in Bodies /\ o \in 1..Len(b) + 1 /\ h[o] = h[q]
              BY <1>5
            <6> QED
              BY ONLY <5>1, <6>1, <1>0, EndIsLast
        <4>2. CASE q > Len(b)
          BY <4>2, <1>1, <1>5
        <4> QED
          BY <4>1, <4>2, <1>1
      <3>4. o \in 1..q
        BY <3>3, <1>1, <1>5
      <3>5. \A n \in Names : Kept(b, h, s, o, q, n)
        BY <3>4, <1>0, SameBlockTop
      <3> QED
        BY <3>5, <1>2, <1>7 DEF Kept, Top
    <2> QED
      BY <2>1, <2>2
  <1>15. GoodMaps(ps, h, s, q, fs1, ls1)
    <2>1. ASSUME NEW l \in 1..M, NEW n \in Names
          PROVE  \/ ls1[l + 1][n] = NONE \/ ls1[l + 1][n] = s[q][l][n]
                 \/ Later(h, s, q, fs1, l, n, ls1[l + 1][n])
      <3>1. ls1[l + 1] = ls[l + 1] /\ l \in 1..L /\ s[a][l] = s[o][l]
        BY <1>5, <1>11, <1>12
      <3>2. \/ ls[l + 1][n] = NONE \/ ls[l + 1][n] = s[a][l][n]
            \/ Later(h, s, a, fs, l, n, ls[l + 1][n])
        BY <3>1, <1>2 DEF Placed, GoodMaps
      <3>3. s[o][l][n] = NONE \/ s[o][l][n] = s[q][l][n]
        BY <1>7, <1>11, <1>14
      <3>4. ASSUME Later(h, s, a, fs, l, n, ls[l + 1][n])
            PROVE  ls[l + 1][n] = s[q][l][n] \/ Later(h, s, q, fs1, l, n, ls[l + 1][n])
        <4>1. PICK j \in 1..K : fs[j + 1].back # 0 /\ l = Len(s[h[a][j]]) /\ ls[l + 1][n] = s[fs[j + 1].back][l][n]
          BY <3>4, <1>2 DEF Later
        <4>2. CASE j = K
          BY <4>1, <4>2, <1>9
        <4>3. CASE j # K
          <5>1. j \in 1..K - 1
            BY <4>3, <1>11
          <5>2. fs1[j + 1].back = fs[j + 1].back /\ h[q][j] = h[a][j] /\ j \in 1..Len(h[q])
            BY <5>1, <1>8, <1>10, <1>11
          <5> QED
            BY <4>1, <5>2 DEF Later
        <4> QED
          BY <4>2, <4>3
      <3> QED
        BY <3>1, <3>2, <3>3, <3>4
    <2>2. Len(ls1) = Len(s[q]) + 1 /\ ls1[1] = ps
      BY <1>7, <1>11, <1>12
    <2> QED
      BY <2>1, <2>2, <1>7 DEF GoodMaps
  <1>16. \A l \in 1..M : \A n, v : Held(ls, l, n, v) => Held(ls1, l, n, v)
    <2>1. \A l \in 1..M : ls1[l + 1] = ls[l + 1] /\ ls1[1] = ls[1]
      BY <1>11, <1>12
    <2> QED
      BY <2>1 DEF Held
  <1>17. Covered(s, q, ls1, live1)
    <2>1. ASSUME NEW l \in 1..M, NEW n \in Names, l < M \/ live1, s[q][l][n] # NONE
          PROVE  Held(ls1, l, n, s[q][l][n])
      <3>1. s[q][l] = s[o][l]
        <4>1. CASE l \in 1..M - 1
          BY <1>7, <4>1
        <4>2. CASE l = M
          <5>1. M \in Nat
            BY <1>6
          <5>2. live1
            BY <2>1, <4>2, <5>1
          <5> QED
            BY <5>2
        <4> QED
          BY <1>11, <4>1, <4>2
      <3>2. s[a][l] = s[q][l] /\ l \in 1..L /\ l < L
        BY <3>1, <1>5, <1>11
      <3>3. Held(ls, l, n, s[a][l][n])
        BY <2>1, <3>2, <1>2 DEF Placed, Covered
      <3> QED
        BY <3>2, <3>3, <1>16
    <2> QED
      BY <2>1, <1>7 DEF Covered
  <1>18. GoodWaits(b, h, s, q, fs1, ls1)
    <2>1. ASSUME NEW i \in 1..K, NEW k \in 1..Len(fs1[i].waiting)
          PROVE  Awaits(b, h, s, q, ls1, i, fs1[i].waiting[k])
      <3>1. PICK c : c = fs1[i].waiting[k]
        OBVIOUS
      <3>2. Awaits(b, h, s, a, ls, i, c)
        <4>1. fs1[i] = fs[i] /\ i \in 1..K + 1
          BY <1>3, <1>10
        <4> QED
          BY <3>1, <4>1, <1>9 DEF Placed, GoodWaits
      <3>3. c \in 1..Len(b) /\ b[c].k = "defer" /\ Len(h[c]) = i - 1 /\ \A j \in 1..i - 1 : h[c][j] = h[a][j]
        BY <3>2 DEF Awaits
      <3>4. \A j \in 1..i - 1 : h[c][j] = h[q][j]
        <4>1. \A j \in 1..i - 1 : j \in 1..K - 1
          BY <1>3
        <4> QED
          BY <3>3, <4>1, <1>8
      <3>5. Len(s[c]) \in 1..M
        <4>1. c \in 1..Len(b) + 1 /\ i \in 1..Len(h[q]) + 1
          BY <1>1, <1>8, <1>11, <3>3
        <4>2. Len(s[c]) \in Nat /\ Len(s[c]) >= 1
          BY <1>0, <4>1, HistoryTypes, ScopesDeep
        <4>3. /\ i = Len(h[q]) + 1 => h[c] = h[q] /\ Len(s[c]) = Len(s[q])
              /\ i <= Len(h[q]) => h[c] = h[h[q][i]] /\ Len(s[c]) = Len(s[h[q][i]]) /\ Len(s[c]) < Len(s[q])
          BY <3>3, <3>4, <4>1, WaitingScopes
        <4>4. i = Len(h[q]) + 1 \/ i <= Len(h[q])
          BY <1>3, <1>8
        <4>5. Len(s[c]) = M \/ Len(s[c]) < M
          BY <4>3, <4>4, <1>7
        <4> QED
          BY <4>2, <4>5, <1>6
      <3> QED
        BY <3>1, <3>2, <3>3, <3>4, <3>5, <1>16 DEF Awaits
    <2> QED
      BY <2>1, <1>10 DEF GoodWaits
  <1> QED
    BY <1>13, <1>15, <1>17, <1>18 DEF Placed

\* A deferred body is left where it stands for a later place of its block.
LEMMA ResumesAfter ==
  ASSUME NEW b \in Bodies, NEW ps, NEW h, NEW s, Finished(b, ps, h, s),
         NEW d \in 1..Len(b) + 1, NEW e, Resumes(b, h, d, e)
  PROVE  e \in 1..Len(b) + 1 /\ d <= e
  <1>1. Len(b) \in Nat /\ e \in 1..Len(b) + 1 /\ h[d] = h[e] /\ History(b, Len(b), ps, h, s)
    BY DEF Resumes, Bodies, Finished
  <1>2. CASE e <= Len(b)
    <2>1. e \in 1..Len(b) /\ b[e].k = "end"
      BY <1>1, <1>2 DEF Resumes
    <2> QED
      BY <1>1, <2>1, EndIsLast
  <1> QED
    BY <1>1, <1>2

\* the j-th block around a is a deferred body; its scopes and those of its end
Deferring(b, h, s, a, fs, j) ==
  LET d == h[a][j]
      e == fs[j + 1].back
  IN  /\ d \in 1..Len(b) /\ Resumes(b, h, d, e)
      /\ s[a][Len(s[d])] = Top(s, d) /\ s[e][Len(s[d])] = Top(s, e)

\* The scopes of a deferred body that is being generated.
LEMMA LaterTops ==
  ASSUME NEW b \in Bodies, NEW ps, NEW h, NEW s, Finished(b, ps, h, s),
         NEW a, NEW fs, GoodFrames(b, h, a, fs)
  PROVE  \A j \in 1..Len(h[a]) : fs[j + 1].back # 0 => Deferring(b, h, s, a, fs, j)
  <1> SUFFICES ASSUME NEW j \in 1..Len(h[a]), fs[j + 1].back # 0 PROVE Deferring(b, h, s, a, fs, j)
    OBVIOUS
  <1>0. PICK d, e : d = h[a][j] /\ e = fs[j + 1].back
    OBVIOUS
  <1>1. a \in 1..Len(b) + 1 /\ Len(b) \in Nat /\ History(b, Len(b), ps, h, s)
    BY DEF GoodFrames, Bodies, Finished
  <1>3. Encloses(b, h, s, a, j, d)
    BY <1>0, <1>1, HistoryEncloses
  <1>4. /\ d \in 1..Len(b) /\ d \in 1..Len(b) + 1
        /\ \A k \in 1..Len(s[d]) : s[a][k] = s[d][k]
    BY <1>1, <1>3 DEF Encloses
  <1>5. Resumes(b, h, d, e)
    BY <1>0 DEF GoodFrames
  <1>6. e \in 1..Len(b) + 1 /\ h[d] = h[e]
    BY <1>5 DEF Resumes
  <1>8. Len(s[d]) = Len(s[e])
    <2>1. b \in Bodies
      OBVIOUS
    <2> QED
      BY ONLY <2>1, <1>1, <1>4, <1>6, SameBlockLevels
  <1>9. Len(s[d]) \in 1..Len(s[d])
    BY <1>1, <1>4, TopTypes
  <1> QED
    BY <1>0, <1>4, <1>5, <1>8, <1>9 DEF Top, Deferring

\* What a block declares after a deferred body.
LEMMA LaterIs ==
  ASSUME body \in Bodies, NEW ps, NEW h, NEW s, Finished(body, ps, h, s),
         NEW d \in 1..Len(body), NEW e, Resumes(body, h, d, e), NEW p \in 1..Len(body), d \in Around(p),
         NEW n \in Names, body[p].use = n, Top(s, e)[n] # NONE, Top(s, e)[n] # Top(s, d)[n]
  PROVE  DeclaredLater(p)
  <1>1. Len(body) \in Nat /\ History(body, Len(body), ps, h, s) /\ h[Len(body) + 1] = <<>>
    BY DEF Bodies, Finished
  <1>2. d \in 1..Len(body) + 1 /\ Opens(body[d])
    BY <1>1 DEF Resumes, Opens
  <1>6. e \in 1..Len(body) + 1 /\ d \in 1..e
    <2>1. e \in 1..Len(body) + 1 /\ d <= e
      BY <1>2, ResumesAfter
    <2> QED
      BY <2>1, <1>1
  <1>7. body[d].k = "defer" /\ h[d] = h[e]
    BY DEF Resumes
  <1>11. Kept(body, h, s, d, e, n)
    BY <1>1, <1>6, <1>7, SameBlockTop
  <1>12. PICK c \in d..e - 1 : body[c].k = "decl" /\ body[c].x = n /\ h[c] = h[e]
    BY <1>11 DEF Kept
  <1>13. c \in 1..Len(body) /\ c > d /\ h[c] = h[d] /\ DOMAIN body = 1..Len(body)
    <2>1. c # d
      BY <1>7, <1>12
    <2>2. body \in Seq(AnyItem)
      BY DEF Bodies
    <2> QED
      BY <2>1, <2>2, <1>1, <1>6, <1>7, <1>12
  <1>14. c > EndOf(d)
    <2>1. PICK E : E = EndOf(d)
      OBVIOUS
    <2>2. Ends(body, h, s, d, E)
      BY <2>1, <1>1, <1>2, EndOfIs
    <2>3. E \in d + 1..Len(body) /\ \A i \in d + 1..E : Len(h[i]) >= Len(h[d]) + 1
      BY <2>2 DEF Ends
    <2>4. Len(h[d]) \in Nat
      BY <1>1, <1>2, HistoryTypes
    <2>5. c \notin d + 1..E
      BY <2>3, <2>4, <1>13
    <2>6. c > E
      BY ONLY <2>3, <2>5, <1>1, <1>2, <1>13
    <2> QED
      BY <2>1, <2>6
  <1>15. Around(c) = Around(d)
    <2>1. body \in Bodies
      OBVIOUS
    <2>2. \A q \in 1..Len(body) : Around(q) = {h[q][i] : i \in 1..Len(h[q])}
      BY ONLY <2>1, <1>1, AroundIs
    <2>3. Around(c) = {h[c][i] : i \in 1..Len(h[c])} /\ Around(d) = {h[d][i] : i \in 1..Len(h[d])}
      BY <2>2, <1>13
    <2> QED
      BY <2>3, <1>13
  <1> QED
    BY <1>7, <1>12, <1>13, <1>14, <1>15 DEF DeclaredLater

\* n is looked up in maps, of which the place a has at least as many, for a use at p
\* that was looked up in c; p is in every deferred body that is being generated
Searched(h, s, a, fs, ls, live, p, n, c, maps) ==
  /\ n = body[p].use /\ Len(c) >= 1 /\ Len(c) <= Len(s[a]) /\ (live \/ Len(c) < Len(s[a]))
  /\ \A l \in 1..Len(c) : c[l] = s[a][l]
  /\ Len(maps) = Len(c) + 1 /\ \A k \in 1..Len(c) + 1 : maps[k][n] = ls[k][n]
  /\ \A j \in 1..Len(h[a]) : fs[j + 1].back # 0 => j \in 1..Len(h[p]) /\ h[p][j] = h[a][j]

\* What the maps give for a use, against the scopes in which it was looked up.
LEMMA FoundInMaps ==
  ASSUME body \in Bodies, NEW ps, NEW h, NEW s, Finished(body, ps, h, s),
         NEW a, NEW fs, NEW ls, NEW live, Placed(body, ps, h, s, a, fs, ls, live),
         NEW p \in 1..Len(body), NEW n \in Names, NEW c \in Seq(Level), NEW maps \in Seq(Level),
         Searched(h, s, a, fs, ls, live, p, n, c, maps)
  PROVE  Innermost(maps, n) = Innermost(c, n) \/ DeclaredLater(p)
  <1> USE DEF Searched
  <1> SUFFICES ASSUME ~DeclaredLater(p) PROVE Innermost(maps, n) = Innermost(c, n)
    OBVIOUS
  <1>1. PICK M, L : M = Len(c) /\ L = Len(s[a])
    OBVIOUS
  <1>2. a \in 1..Len(body) + 1 /\ Len(body) \in Nat /\ History(body, Len(body), ps, h, s)
    BY DEF Placed, GoodFrames, Bodies, Finished
  <1>3. M \in Nat /\ L \in Nat /\ M >= 1 /\ M <= L
    BY <1>1, <1>2, HistoryTypes
  <1>4. /\ \A l \in 1..M : l \in 1..L /\ l + 1 \in 1..M + 1
        /\ 1 \in 1..M + 1 /\ 1 \in 1..M
    BY <1>3
  <1>5. ASSUME NEW l \in 1..M PROVE maps[l + 1][n] = NONE \/ maps[l + 1][n] = c[l][n]
    <2>1. maps[l + 1][n] = ls[l + 1][n] /\ c[l] = s[a][l] /\ l \in 1..L
      BY <1>1, <1>4
    <2>2. \/ ls[l + 1][n] = NONE \/ ls[l + 1][n] = s[a][l][n]
          \/ Later(h, s, a, fs, l, n, ls[l + 1][n])
      BY <2>1, <1>1 DEF Placed, GoodMaps
    <2>3. ASSUME Later(h, s, a, fs, l, n, ls[l + 1][n]), ls[l + 1][n] # NONE, ls[l + 1][n] # s[a][l][n]
          PROVE  FALSE
      <3>1. PICK j \in 1..Len(h[a]) : /\ fs[j + 1].back # 0 /\ l = Len(s[h[a][j]])
                                      /\ ls[l + 1][n] = s[fs[j + 1].back][l][n]
        BY <2>3 DEF Later
      <3>2. PICK d, e : d = h[a][j] /\ e = fs[j + 1].back
        OBVIOUS
      <3>3. j \in 1..Len(h[p]) /\ h[p][j] = d
        BY <3>1, <3>2
      <3>4. GoodFrames(body, h, a, fs)
        BY DEF Placed
      <3>5. /\ d \in 1..Len(body) /\ Resumes(body, h, d, e)
            /\ s[a][Len(s[d])] = Top(s, d) /\ s[e][Len(s[d])] = Top(s, e)
        <4>1. \A i \in 1..Len(h[a]) : fs[i + 1].back # 0 => Deferring(body, h, s, a, fs, i)
          BY <3>4, LaterTops
        <4>2. Deferring(body, h, s, a, fs, j)
          BY <3>1, <4>1
        <4> QED
          BY <3>2, <4>2 DEF Deferring
      <3>6. Top(s, e)[n] # NONE /\ Top(s, e)[n] # Top(s, d)[n]
        BY <2>3, <3>1, <3>2, <3>5
      <3>7. d \in Around(p)
        <4>1. body \in Bodies /\ p \in 1..Len(body) /\ h[Len(body) + 1] = <<>>
          BY DEF Finished
        <4>2. Around(p) = {h[p][i] : i \in 1..Len(h[p])}
          BY ONLY <4>1, <1>2, AroundIs
        <4> QED
          BY <4>2, <3>3
      <3> QED
        <4>1. body[p].use = n
          OBVIOUS
        <4> QED
          BY <3>5, <3>6, <3>7, <4>1, LaterIs
    <2> QED
      BY <2>1, <2>2, <2>3
  <1>6. ASSUME NEW l \in 1..M, c[l][n] # NONE PROVE Held(maps, l, n, c[l][n])
    <2>1. c[l] = s[a][l] /\ l \in 1..L /\ (l < L \/ live)
      <3>1. l < L \/ live
        BY <1>1, <1>3
      <3> QED
        BY <3>1, <1>1, <1>4
    <2>2. Held(ls, l, n, c[l][n])
      BY <2>1, <1>1, <1>6 DEF Placed, Covered
    <2>3. maps[l + 1][n] = ls[l + 1][n] /\ maps[1][n] = ls[1][n]
      BY <1>1, <1>4
    <2> QED
      BY <2>2, <2>3 DEF Held
  <1>7. ASSUME maps[1][n] # NONE PROVE c[1][n] = maps[1][n]
    <2>1. maps[1][n] = ps[n] /\ ps[n] # NONE
      BY <1>1, <1>4, <1>7 DEF Placed, GoodMaps
    <2>2. s[a][1][n] = ps[n]
      <3>1. body \in Bodies /\ n \in Names
        OBVIOUS
      <3>2. \A q \in 1..Len(body) + 1 : s[q][1][n] = ps[n]
        BY ONLY <2>1, <3>1, <1>2, ParametersStay
      <3> QED
        BY <1>2, <3>2
    <2> QED
      BY <2>1, <2>2, <1>1, <1>4
  <1> HIDE DEF Searched
  <1>8. maps \in Seq(Level) /\ c \in Seq(Level) /\ n \in Names /\ Len(maps) = Len(c) + 1 /\ Len(c) >= 1
    BY DEF Searched
  <1> QED
    BY <1>1, <1>5, <1>6, <1>7, <1>8, FoundAlike

-----------------------------------------------------------------------------
(* The scopes of the units.                                                *)

SymbolOrNone == Symbols \cup {NONE}

Own == [u \in Range(Units) |-> Globals(u)]

UnitTypes ==
  /\ program \in Programs
  /\ phase \in {"names", "imports", "aliases", "check", "generate", "done"}
  /\ turn \in 1..Len(Units) /\ next \in Nat /\ next >= 1
  /\ scope \in [Range(Units) -> [Names -> SymbolOrNone]]
  /\ look \in Pointers \cup {NONE}

\* what holds of a symbol that stands for n in u, whatever it points to
Sound(own, plain, u, n, y) ==
  /\ y.kind = "alias" => ~y.pub
  /\ n \in own[u] => y.decl = <<u, n>>
  /\ plain /\ y.kind = "variable" => y.decl = <<y.file, y.name>> /\ y.name \in own[y.file]

\* the symbols of all units, in S
SymbolsSound(own, plain, S) ==
  \A u \in Range(Units), n \in Names : S[u][n] # NONE =>
    /\ Sound(own, plain, u, n, S[u][n])
    /\ S[u][n].target # NONE => S[S[u][n].target[1]][S[u][n].target[2]] # NONE

UnitSymbols ==
  /\ SymbolsSound(Own, PlainImports, scope)
  /\ look # NONE => Symbol(look) # NONE /\ phase \in {"aliases", "check"}

\* the alias n of u has yet to be resolved
Unresolved(u, n) ==
  /\ phase \in {"imports", "aliases"} /\ u = Unit
  /\ \E k \in DOMAIN Aliases : Aliases[k].name = n /\ (phase = "aliases" => k >= next)

UnitTurns ==
  /\ phase = "aliases" /\ look # NONE => next <= Len(Aliases)
  /\ \A j \in 1..Len(Units) : j > turn \/ (j = turn /\ phase = "names") => scope[Units[j]] = NoNames
  /\ phase \in {"imports", "aliases"} =>
       /\ \A n \in Globals(Unit) : scope[Unit][n] # NONE
       /\ \A k \in DOMAIN Aliases : scope[Unit][Aliases[k].name] # NONE
  /\ errors = {} => \A u \in Range(Units), n \in Names :
       scope[u][n] # NONE /\ scope[u][n].kind = "alias" /\ scope[u][n].target = NONE => Unresolved(u, n)

UnitInv == UnitTypes /\ UnitSymbols /\ UnitTurns

\* Units and what they declare.
LEMMA UnitsTypes ==
  /\ Units \in Seq(Range(Units)) /\ Len(Units) \in Nat /\ Len(Units) >= 1 /\ DOMAIN Units = 1..Len(Units)
  /\ \A j \in 1..Len(Units) : Units[j] \in Range(Units)
  /\ \A i, j \in 1..Len(Units) : Units[i] = Units[j] => i = j
  /\ Main \in Range(Units)
  <1>1. Units \in Seq(Range(Units)) /\ Len(Units) > 0 /\ \A i, j \in DOMAIN Units : Units[i] = Units[j] => i = j
    BY NamesAssumption
  <1>2. Len(Units) \in Nat /\ DOMAIN Units = 1..Len(Units) /\ \A j \in 1..Len(Units) : Units[j] \in Range(Units)
    BY <1>1
  <1>3. Len(Units) >= 1 /\ Len(Units) \in 1..Len(Units)
    BY <1>1, <1>2
  <1>4. Main \in Range(Units)
    BY <1>2, <1>3 DEF Main, Last
  <1> QED
    BY <1>1, <1>2, <1>3, <1>4

LEMMA Elements ==
  ASSUME NEW S, NEW q \in Seq(S)
  PROVE  DOMAIN q \subseteq Nat /\ \A k \in DOMAIN q : q[k] \in S
  OBVIOUS

LEMMA DeclaredTypes ==
  ASSUME program \in Programs, NEW u \in Range(Units)
  PROVE  /\ Declarations(u) \in Declared
         /\ \A k \in DOMAIN Declarations(u).globals : Declarations(u).globals[k] \in [name : Names, pub : BOOLEAN]
         /\ \A k \in DOMAIN Declarations(u).imports :
              /\ Declarations(u).imports[k] \in
                   [from : Range(Units), name : Names \cup {NONE}, as : Names \cup {NONE}, pub : BOOLEAN]
              /\ Declarations(u).imports[k].name # NONE => Declarations(u).imports[k].as # NONE
         /\ \A k \in DOMAIN Declarations(u).aliases :
              Declarations(u).aliases[k] \in [name : Names, in : Range(Units) \cup {NONE}, target : Names]
  <1>1. PICK D : D = Declarations(u)
    OBVIOUS
  <1>2. /\ program.unit \in [Range(Units) -> Declared]
        /\ \A v \in Range(Units) : \A k \in DOMAIN program.unit[v].imports :
             program.unit[v].imports[k].name # NONE => program.unit[v].imports[k].as # NONE
    BY NamesAssumption
  <1>3. D \in Declared /\ \A k \in DOMAIN D.imports : D.imports[k].name # NONE => D.imports[k].as # NONE
    BY <1>1, <1>2 DEF Declarations
  <1>4. /\ D.globals \in Seq([name : Names, pub : BOOLEAN])
        /\ D.imports \in Seq([from : Range(Units), name : Names \cup {NONE}, as : Names \cup {NONE}, pub : BOOLEAN])
        /\ D.aliases \in Seq([name : Names, in : Range(Units) \cup {NONE}, target : Names])
    BY <1>3 DEF Declared
  <1>5. /\ \A k \in DOMAIN D.globals : D.globals[k] \in [name : Names, pub : BOOLEAN]
        /\ \A k \in DOMAIN D.imports :
             D.imports[k] \in [from : Range(Units), name : Names \cup {NONE}, as : Names \cup {NONE}, pub : BOOLEAN]
        /\ \A k \in DOMAIN D.aliases : D.aliases[k] \in [name : Names, in : Range(Units) \cup {NONE}, target : Names]
    BY <1>4, Elements, Zenon
  <1> QED
    BY <1>1, <1>3, <1>5

\* The least of a set of positions.
LEMMA LeastOf ==
  ASSUME NEW S, S \subseteq Nat, S # {}
  PROVE  Min(S) \in S
  <1>1. \E x \in S : \A y \in S : x <= y
    BY LeastNat
  <1> QED
    BY <1>1 DEF Min

\* A symbol is not the missing one.
LEMMA SymbolsApart ==
  /\ NONE \notin Symbols /\ NONE \notin Pointers /\ NONE \notin Names /\ NONE \notin Range(Units)
  /\ \A n \in Names : NoNames[n] = NONE
  BY NamesAssumption DEF NoNames

\* What a unit declares makes sound symbols.
LEMMA RegisteredIs ==
  ASSUME program \in Programs, NEW u \in Range(Units)
  PROVE  /\ Registered(u) \in [Names -> SymbolOrNone]
         /\ \A n \in Names : Registered(u)[n] # NONE =>
              /\ Sound(Own, PlainImports, u, n, Registered(u)[n])
              /\ Registered(u)[n].target = NONE
              /\ Registered(u)[n].kind = "alias" => \E k \in DOMAIN Declarations(u).aliases : Declarations(u).aliases[k].name = n
         /\ \A n \in Globals(u) : Registered(u)[n] # NONE
         /\ \A k \in DOMAIN Declarations(u).aliases : Registered(u)[Declarations(u).aliases[k].name] # NONE
  <1>1. PICK gs, as : gs = Declarations(u).globals /\ as = Declarations(u).aliases
    OBVIOUS
  <1>2. /\ \A k \in DOMAIN gs : gs[k] \in [name : Names, pub : BOOLEAN]
        /\ \A k \in DOMAIN as : as[k] \in [name : Names, in : Range(Units) \cup {NONE}, target : Names]
        /\ DOMAIN gs \subseteq Nat /\ DOMAIN as \subseteq Nat
    <2>1. Declarations(u) \in Declared
      BY DeclaredTypes
    <2>2. /\ gs \in Seq([name : Names, pub : BOOLEAN])
          /\ as \in Seq([name : Names, in : Range(Units) \cup {NONE}, target : Names])
      BY <1>1, <2>1 DEF Declared
    <2> QED
      BY <2>2, Elements, Zenon
  <1>3. /\ \A k \in DOMAIN gs : gs[k].name \in Globals(u)
        /\ \A n \in Globals(u) : n \in Names /\ Named(gs, n) # {}
        /\ Own[u] = Globals(u)
    BY <1>1, <1>2 DEF Globals, Named, Own
  <1>4. ASSUME NEW n \in Names
        PROVE  \/ /\ Named(gs, n) # {}
                  /\ \E k \in DOMAIN gs : gs[k].name = n /\ Registered(u)[n] = Variable(u, gs[k])
               \/ /\ Named(gs, n) = {} /\ Named(as, n) # {}
                  /\ \E k \in DOMAIN as : as[k].name = n /\ Registered(u)[n] = Alias(u, as[k])
               \/ Named(gs, n) = {} /\ Named(as, n) = {} /\ Registered(u)[n] = NONE
    <2>1. /\ Named(gs, n) \subseteq Nat /\ Named(as, n) \subseteq Nat
      BY <1>2 DEF Named
    <2>2. Registered(u)[n] = IF Named(gs, n) # {} THEN Variable(u, gs[Min(Named(gs, n))])
                             ELSE IF Named(as, n) # {} THEN Alias(u, as[Min(Named(as, n))])
                             ELSE NONE
      BY <1>1 DEF Registered
    <2>3. CASE Named(gs, n) # {}
      <3>1. Min(Named(gs, n)) \in Named(gs, n)
        BY <2>1, <2>3, LeastOf
      <3>2. Min(Named(gs, n)) \in DOMAIN gs /\ gs[Min(Named(gs, n))].name = n
        BY <3>1 DEF Named
      <3> QED
        BY <2>2, <2>3, <3>2
    <2>4. CASE Named(gs, n) = {} /\ Named(as, n) # {}
      <3>1. Min(Named(as, n)) \in Named(as, n)
        BY <2>1, <2>4, LeastOf
      <3>2. Min(Named(as, n)) \in DOMAIN as /\ as[Min(Named(as, n))].name = n
        BY <3>1 DEF Named
      <3> QED
        BY <2>2, <2>4, <3>2
    <2> QED
      BY <2>2, <2>3, <2>4
  <1>5. ASSUME NEW n \in Names, NEW g \in [name : Names, pub : BOOLEAN], g.name = n, n \in Globals(u)
        PROVE  /\ Variable(u, g) \in Symbols /\ Sound(Own, PlainImports, u, n, Variable(u, g))
               /\ Variable(u, g).target = NONE /\ Variable(u, g).kind = "variable"
    BY <1>3, <1>5 DEF Variable, Symbols, Sound, Pointers
  <1>6. ASSUME NEW n \in Names, NEW a \in [name : Names, in : Range(Units) \cup {NONE}, target : Names], a.name = n
        PROVE  /\ Alias(u, a) \in Symbols /\ Sound(Own, PlainImports, u, n, Alias(u, a))
               /\ Alias(u, a).target = NONE /\ Alias(u, a).kind = "alias"
    BY <1>6 DEF Alias, Symbols, Sound, Pointers
  <1>7. ASSUME NEW n \in Names
        PROVE  /\ Registered(u)[n] \in SymbolOrNone
               /\ Registered(u)[n] # NONE =>
                    /\ Sound(Own, PlainImports, u, n, Registered(u)[n])
                    /\ Registered(u)[n].target = NONE
                    /\ Registered(u)[n].kind = "alias" => \E k \in DOMAIN as : as[k].name = n
               /\ Named(gs, n) # {} \/ Named(as, n) # {} => Registered(u)[n] # NONE
    <2>1. CASE \E k \in DOMAIN gs : gs[k].name = n /\ Registered(u)[n] = Variable(u, gs[k])
      <3>1. PICK k \in DOMAIN gs : gs[k].name = n /\ Registered(u)[n] = Variable(u, gs[k])
        BY <2>1
      <3>2. /\ Variable(u, gs[k]) \in Symbols /\ Sound(Own, PlainImports, u, n, Variable(u, gs[k]))
            /\ Variable(u, gs[k]).target = NONE /\ Variable(u, gs[k]).kind = "variable"
        BY <3>1, <1>2, <1>3, <1>5
      <3> QED
        BY <3>1, <3>2, SymbolsApart DEF SymbolOrNone
    <2>2. CASE \E k \in DOMAIN as : as[k].name = n /\ Registered(u)[n] = Alias(u, as[k])
      <3>1. PICK k \in DOMAIN as : as[k].name = n /\ Registered(u)[n] = Alias(u, as[k])
        BY <2>2
      <3>2. /\ Alias(u, as[k]) \in Symbols /\ Sound(Own, PlainImports, u, n, Alias(u, as[k]))
            /\ Alias(u, as[k]).target = NONE /\ Alias(u, as[k]).kind = "alias"
        BY <3>1, <1>2, <1>6
      <3> QED
        BY <3>1, <3>2, SymbolsApart DEF SymbolOrNone
    <2>3. CASE Named(gs, n) = {} /\ Named(as, n) = {} /\ Registered(u)[n] = NONE
      BY <2>3 DEF SymbolOrNone
    <2> QED
      BY <1>4, <2>1, <2>2, <2>3
  <1>8. Registered(u) \in [Names -> SymbolOrNone]
    <2>1. Registered(u) = [n \in Names |-> Registered(u)[n]]
      BY DEF Registered
    <2> QED
      BY <2>1, <1>7
  <1>9. \A n \in Globals(u) : Registered(u)[n] # NONE
    BY <1>3, <1>7
  <1>10. \A k \in DOMAIN as : Registered(u)[as[k].name] # NONE
    <2>1. \A k \in DOMAIN as : as[k].name \in Names /\ Named(as, as[k].name) # {}
      BY <1>2 DEF Named
    <2> QED
      BY <2>1, <1>7
  <1> QED
    BY <1>1, <1>7, <1>8, <1>9, <1>10

\* What a unit imports makes sound symbols, and leaves what is there.
LEMMA ImportedIs ==
  ASSUME UnitInv, phase = "imports"
  PROVE  /\ Imported(Unit) \in [Names -> SymbolOrNone]
         /\ \A n \in Names : scope[Unit][n] # NONE => Imported(Unit)[n] = scope[Unit][n]
         /\ \A n \in Names : scope[Unit][n] = NONE /\ Imported(Unit)[n] # NONE =>
              /\ Sound(Own, PlainImports, Unit, n, Imported(Unit)[n])
              /\ Imported(Unit)[n].target = NONE /\ Imported(Unit)[n].kind = "variable"
  <1>1. PICK u, is : u = Unit /\ is = Declarations(u).imports
    OBVIOUS
  <1>2. /\ u \in Range(Units) /\ scope[u] \in [Names -> SymbolOrNone]
        /\ \A v \in Range(Units), n \in Names : scope[v][n] \in SymbolOrNone
    BY <1>1, UnitsTypes DEF UnitInv, UnitTypes, Unit
  <1>3. /\ \A k \in DOMAIN is :
             /\ is[k] \in [from : Range(Units), name : Names \cup {NONE}, as : Names \cup {NONE}, pub : BOOLEAN]
             /\ is[k].name # NONE => is[k].as # NONE
        /\ DOMAIN is \subseteq Nat
    <2>1. Declarations(u) \in Declared
      BY <1>2, DeclaredTypes DEF UnitInv, UnitTypes
    <2>2. is \in Seq([from : Range(Units), name : Names \cup {NONE}, as : Names \cup {NONE}, pub : BOOLEAN])
      BY <1>1, <2>1 DEF Declared
    <2>3. DOMAIN is \subseteq Nat
      BY <2>2, Elements, Zenon
    <2> QED
      BY <2>3, <1>1, <1>2, DeclaredTypes DEF UnitInv, UnitTypes
  <1>4. ASSUME NEW n \in Names, scope[u][n] = NONE, NEW k \in DOMAIN is,
               is[k].as = n, is[k].name # NONE, Importable(is[k])
        PROVE  LET y == Copy(is[k], scope[is[k].from][is[k].name])
               IN  y \in Symbols /\ Sound(Own, PlainImports, u, n, y) /\ y.target = NONE /\ y.kind = "variable"
    <2>1. PICK i : i = is[k]
      OBVIOUS
    <2>2. i.from \in Range(Units) /\ i.name \in Names /\ i.as = n /\ i.pub \in BOOLEAN
      BY <2>1, <1>3, <1>4
    <2>3. PICK z : z = scope[i.from][i.name]
      OBVIOUS
    <2>4. z # NONE /\ z.pub
      BY <2>1, <2>3, <1>4 DEF Importable
    <2>5. z \in Symbols /\ Sound(Own, PlainImports, i.from, i.name, z)
      <3>1. z \in SymbolOrNone
        BY <2>2, <2>3, <1>2
      <3>2. Sound(Own, PlainImports, i.from, i.name, z)
        BY <2>2, <2>3, <2>4 DEF UnitInv, UnitSymbols, SymbolsSound
      <3> QED
        BY <3>1, <3>2, <2>4 DEF SymbolOrNone
    <2>6. z.kind = "variable" /\ z.decl \in Pointers
      BY <2>4, <2>5 DEF Sound, Symbols
    <2>7. PICK y : y = Copy(i, z)
      OBVIOUS
    <2>8. /\ y.name = n /\ y.file = i.from /\ y.pub = i.pub /\ y.target = NONE
          /\ y.kind = "variable" /\ y.decl = z.decl /\ y \in Symbols
      BY <2>2, <2>5, <2>6, <2>7 DEF Copy, Symbols
    <2>9. n \notin Own[u]
      BY <1>1, <1>2, <1>4 DEF UnitInv, UnitTurns, Own
    <2>10. ASSUME PlainImports PROVE y.decl = <<y.file, y.name>> /\ y.name \in Own[y.file]
      <3>1. i.as = i.name /\ i.name \in Globals(i.from)
        <4>1. i \in Range(is)
          BY <2>1 DEF Range
        <4> QED
          BY <4>1, <2>10, <1>1, <1>2, <1>4, <2>1 DEF PlainImports
      <3>2. i.name \in Own[i.from]
        BY <3>1, <2>2 DEF Own
      <3>3. z.decl = <<i.from, i.name>>
        BY <3>2, <2>5 DEF Sound
      <3> QED
        BY <3>1, <3>2, <3>3, <2>2, <2>8
    <2>11. Sound(Own, PlainImports, u, n, y)
      BY <2>8, <2>9, <2>10 DEF Sound
    <2> QED
      BY <2>1, <2>3, <2>7, <2>8, <2>11
  <1>5. ASSUME NEW n \in Names
        PROVE  \/ Imported(u)[n] = scope[u][n]
               \/ /\ scope[u][n] = NONE
                  /\ Imported(u)[n] \in Symbols /\ Sound(Own, PlainImports, u, n, Imported(u)[n])
                  /\ Imported(u)[n].target = NONE /\ Imported(u)[n].kind = "variable"
    <2>1. Imported(u)[n] = IF scope[u][n] # NONE \/ Bringing(u, n) = {} THEN scope[u][n]
                           ELSE Copy(is[Min(Bringing(u, n))],
                                     scope[is[Min(Bringing(u, n))].from][is[Min(Bringing(u, n))].name])
      BY <1>1 DEF Imported
    <2>2. CASE scope[u][n] # NONE \/ Bringing(u, n) = {}
      BY <2>1, <2>2
    <2>3. CASE scope[u][n] = NONE /\ Bringing(u, n) # {}
      <3>1. PICK k : k = Min(Bringing(u, n))
        OBVIOUS
      <3>2. k \in Bringing(u, n)
        <4>1. Bringing(u, n) \subseteq Nat
          BY <1>1, <1>3 DEF Bringing
        <4> QED
          BY <3>1, <4>1, <2>3, LeastOf
      <3>3. k \in DOMAIN is /\ is[k].as = n /\ is[k].name # NONE /\ Importable(is[k])
        BY <3>2, <1>1 DEF Bringing
      <3>4. Imported(u)[n] = Copy(is[k], scope[is[k].from][is[k].name])
        BY <2>1, <2>3, <3>1
      <3> QED
        BY <2>3, <3>3, <3>4, <1>4
    <2> QED
      BY <2>2, <2>3
  <1>6. Imported(u) \in [Names -> SymbolOrNone]
    <2>1. Imported(u) = [n \in Names |-> Imported(u)[n]]
      BY DEF Imported
    <2>2. \A n \in Names : Imported(u)[n] \in SymbolOrNone
      BY <1>2, <1>5 DEF SymbolOrNone
    <2> QED
      BY <2>1, <2>2
  <1>7. \A n \in Names : scope[u][n] # NONE => Imported(u)[n] = scope[u][n]
    BY <1>5
  <1>8. \A n \in Names : scope[u][n] = NONE /\ Imported(u)[n] # NONE =>
              /\ Sound(Own, PlainImports, u, n, Imported(u)[n])
              /\ Imported(u)[n].target = NONE /\ Imported(u)[n].kind = "variable"
    BY <1>5
  <1> QED
    BY <1>1, <1>6, <1>7, <1>8

\* a symbol z of n in u, where y was: as it was, with a target, or new
Grows(own, plain, S, u, n, y, z) ==
  \/ z = y
  \/ /\ y # NONE /\ z # NONE
     /\ z.kind = y.kind /\ z.name = y.name /\ z.file = y.file /\ z.pub = y.pub /\ z.decl = y.decl
     /\ z.target \in Pointers /\ S[z.target[1]][z.target[2]] # NONE
  \/ y = NONE /\ z # NONE /\ Sound(own, plain, u, n, z) /\ z.target = NONE

\* Symbols are never taken away.
LEMMA Grown ==
  ASSUME NEW own, NEW plain, NEW S \in [Range(Units) -> [Names -> SymbolOrNone]],
         NEW S1 \in [Range(Units) -> [Names -> SymbolOrNone]], SymbolsSound(own, plain, S),
         \A u \in Range(Units), n \in Names : Grows(own, plain, S, u, n, S[u][n], S1[u][n])
  PROVE  /\ SymbolsSound(own, plain, S1)
         /\ \A u \in Range(Units), n \in Names : S[u][n] # NONE => S1[u][n] # NONE
  <1>1. \A u \in Range(Units), n \in Names : S[u][n] # NONE => S1[u][n] # NONE
    BY DEF Grows
  <1>2. \A p \in Pointers : S[p[1]][p[2]] # NONE => S1[p[1]][p[2]] # NONE
    BY <1>1 DEF Pointers
  <1>3. ASSUME NEW u \in Range(Units), NEW n \in Names, S1[u][n] # NONE
        PROVE  /\ Sound(own, plain, u, n, S1[u][n])
               /\ S1[u][n].target # NONE => S1[S1[u][n].target[1]][S1[u][n].target[2]] # NONE
    <2>1. PICK y, z : y = S[u][n] /\ z = S1[u][n]
      OBVIOUS
    <2>2. y \in SymbolOrNone /\ z # NONE
      BY <2>1, <1>3
    <2>3. Grows(own, plain, S, u, n, y, z)
      BY <2>1
    <2>4. y # NONE => /\ Sound(own, plain, u, n, y) /\ y.target \in Pointers \cup {NONE}
                      /\ y.target # NONE => S[y.target[1]][y.target[2]] # NONE
      <3>1. y # NONE => y.target \in Pointers \cup {NONE}
        BY <2>2 DEF SymbolOrNone, Symbols
      <3> QED
        BY <3>1, <2>1 DEF SymbolsSound
    <2>5. CASE z = y
      <3>1. z.target # NONE => S1[z.target[1]][z.target[2]] # NONE
        BY <2>2, <2>4, <2>5, <1>2
      <3> QED
        BY <2>1, <2>2, <2>4, <2>5, <3>1
    <2>6. CASE /\ y # NONE /\ z # NONE
               /\ z.kind = y.kind /\ z.name = y.name /\ z.file = y.file /\ z.pub = y.pub /\ z.decl = y.decl
               /\ z.target \in Pointers /\ S[z.target[1]][z.target[2]] # NONE
      <3>1. S1[z.target[1]][z.target[2]] # NONE
        BY <2>6, <1>2
      <3>2. Sound(own, plain, u, n, z)
        BY <2>4, <2>6 DEF Sound
      <3> QED
        BY <2>1, <3>1, <3>2
    <2>7. CASE y = NONE /\ z # NONE /\ Sound(own, plain, u, n, z) /\ z.target = NONE
      BY <2>1, <2>7
    <2> QED
      BY <2>3, <2>5, <2>6, <2>7 DEF Grows
  <1> QED
    BY <1>1, <1>3 DEF SymbolsSound

\* S1 is S with a target for the symbol of x in u0
Retargets(own, plain, S, u0, x, S1) ==
  /\ S1 \in [Range(Units) -> [Names -> SymbolOrNone]]
  /\ \A u \in Range(Units), n \in Names : Grows(own, plain, S, u, n, S[u][n], S1[u][n])
  /\ S1[u0][x].target # NONE
  /\ \A u \in Range(Units), n \in Names : u # u0 \/ n # x => S1[u][n] = S[u][n]

LEMMA Retargeted ==
  ASSUME NEW own, NEW plain, NEW S \in [Range(Units) -> [Names -> SymbolOrNone]],
         NEW u0 \in Range(Units), NEW x \in Names, S[u0][x] # NONE,
         NEW t \in Pointers, S[t[1]][t[2]] # NONE
  PROVE  Retargets(own, plain, S, u0, x, [S EXCEPT ![u0][x].target = t])
  <1>0. PICK S1 : S1 = [S EXCEPT ![u0][x].target = t]
    OBVIOUS
  <1>1. PICK y, z : y = S[u0][x] /\ z = [y EXCEPT !.target = t]
    OBVIOUS
  <1>2. y \in Symbols
    BY <1>1 DEF SymbolOrNone
  <1>3. /\ z.kind = y.kind /\ z.name = y.name /\ z.file = y.file /\ z.pub = y.pub /\ z.decl = y.decl
        /\ z.target = t /\ z \in Symbols
    BY <1>1, <1>2 DEF Symbols
  <1>4. S1 = [S EXCEPT ![u0] = [S[u0] EXCEPT ![x] = z]]
    BY <1>0, <1>1
  <1>5. S[u0] \in [Names -> SymbolOrNone] /\ z \in SymbolOrNone /\ z # NONE /\ t # NONE
    BY <1>3, SymbolsApart DEF SymbolOrNone
  <1>6. PICK w : w = [S[u0] EXCEPT ![x] = z]
    OBVIOUS
  <1>7. w \in [Names -> SymbolOrNone] /\ w[x] = z /\ \A n \in Names : n # x => w[n] = S[u0][n]
    BY <1>5, <1>6
  <1>8. /\ S1 \in [Range(Units) -> [Names -> SymbolOrNone]]
        /\ S1[u0] = w /\ \A u \in Range(Units) : u # u0 => S1[u] = S[u]
    BY <1>4, <1>6, <1>7
  <1>9. S1[u0][x] = z
    BY <1>7, <1>8
  <1>10. \A u \in Range(Units), n \in Names : u # u0 \/ n # x => S1[u][n] = S[u][n]
    BY <1>7, <1>8
  <1>11. Grows(own, plain, S, u0, x, y, z)
    BY <1>1, <1>3, <1>5 DEF Grows
  <1>12. ASSUME NEW u \in Range(Units), NEW n \in Names
         PROVE  Grows(own, plain, S, u, n, S[u][n], S1[u][n])
    <2>1. CASE u # u0 \/ n # x
      BY <2>1, <1>10 DEF Grows
    <2>2. CASE u = u0 /\ n = x
      BY <2>2, <1>1, <1>9, <1>11
    <2> QED
      BY <2>1, <2>2
  <1> QED
    BY <1>0, <1>3, <1>5, <1>8, <1>9, <1>10, <1>12 DEF Retargets

\* The scope of one unit replaced.
LEMMA Replaced ==
  ASSUME NEW own, NEW plain, NEW S \in [Range(Units) -> [Names -> SymbolOrNone]],
         NEW u0 \in Range(Units), NEW M \in [Names -> SymbolOrNone],
         \A n \in Names : Grows(own, plain, S, u0, n, S[u0][n], M[n]),
         NEW S1, S1 = [S EXCEPT ![u0] = M]
  PROVE  /\ S1 \in [Range(Units) -> [Names -> SymbolOrNone]]
         /\ \A u \in Range(Units), n \in Names : Grows(own, plain, S, u, n, S[u][n], S1[u][n])
         /\ S1[u0] = M /\ \A u \in Range(Units) : u # u0 => S1[u] = S[u]
  <1>1. /\ S1 \in [Range(Units) -> [Names -> SymbolOrNone]]
        /\ S1[u0] = M /\ \A u \in Range(Units) : u # u0 => S1[u] = S[u]
    OBVIOUS
  <1>2. ASSUME NEW u \in Range(Units), NEW n \in Names
        PROVE  Grows(own, plain, S, u, n, S[u][n], S1[u][n])
    <2>1. CASE u # u0
      BY <2>1, <1>1 DEF Grows
    <2>2. CASE u = u0
      BY <2>2, <1>1
    <2> QED
      BY <2>1, <2>2
  <1> QED
    BY <1>1, <1>2

LEMMA UnitInit == Init => UnitInv
  <1> SUFFICES ASSUME Init PROVE UnitInv
    OBVIOUS
  <1>1. /\ program \in Programs /\ phase = "names" /\ turn = 1 /\ next = 1 /\ look = NONE /\ errors = {}
        /\ scope = [u \in Range(Units) |-> NoNames]
    BY DEF Init
  <1>2. \A u \in Range(Units), n \in Names : scope[u] = NoNames /\ scope[u][n] = NONE
    BY <1>1, SymbolsApart
  <1>3. UnitTypes
    <2>1. scope \in [Range(Units) -> [Names -> SymbolOrNone]]
      BY <1>1 DEF NoNames, SymbolOrNone
    <2>2. turn \in 1..Len(Units) /\ next \in Nat /\ next >= 1
      BY <1>1, UnitsTypes
    <2> QED
      BY <1>1, <2>1, <2>2 DEF UnitTypes
  <1>4. UnitSymbols
    BY <1>1, <1>2 DEF UnitSymbols, SymbolsSound
  <1>5. UnitTurns
    BY <1>1, <1>2, UnitsTypes DEF UnitTurns
  <1> QED
    BY <1>3, <1>4, <1>5 DEF UnitInv

\* what an action that changes no unit leaves, whatever else it does
UnitsStay ==
  /\ UNCHANGED <<program, turn, next, scope>>
  /\ errors \subseteq errors'
  /\ phase' = phase \/ (phase \in {"check", "generate", "done"} /\ phase' \in {"check", "generate", "done"})
  /\ look' \in Pointers \cup {NONE}
  /\ look' # NONE => Symbol(look') # NONE /\ phase' \in {"aliases", "check"}
  /\ phase = "aliases" /\ look' # NONE => next <= Len(Aliases)

LEMMA UnitKept == UnitInv /\ UnitsStay => UnitInv'
  <1> SUFFICES ASSUME UnitInv, UnitsStay PROVE UnitInv'
    OBVIOUS
  <1>1. /\ program' = program /\ turn' = turn /\ next' = next /\ scope' = scope /\ errors \subseteq errors'
        /\ phase' = phase \/ (phase \in {"check", "generate", "done"} /\ phase' \in {"check", "generate", "done"})
        /\ look' \in Pointers \cup {NONE}
        /\ look' # NONE => Symbol(look') # NONE /\ phase' \in {"aliases", "check"}
        /\ phase = "aliases" /\ look' # NONE => next <= Len(Aliases)
    BY DEF UnitsStay
  <1>2. Own' = Own /\ (PlainImports' <=> PlainImports)
    BY <1>1 DEF Own, Globals, Declarations, PlainImports
  <1>3. UnitTypes'
    BY <1>1 DEF UnitInv, UnitTypes
  <1>4. UnitSymbols'
    <2>1. SymbolsSound(Own, PlainImports, scope)'
      BY <1>1, <1>2 DEF UnitInv, UnitSymbols, SymbolsSound, Sound
    <2>2. look' # NONE => Symbol(look)' # NONE /\ phase' \in {"aliases", "check"}
      BY <1>1 DEF Symbol
    <2> QED
      BY <2>1, <2>2 DEF UnitSymbols
  <1>5. UnitTurns'
    <2>1. CASE phase' = phase
      BY <2>1, <1>1 DEF UnitInv, UnitTurns, Unresolved, Unit, Aliases, Declarations, Globals
    <2>2. CASE phase \in {"check", "generate", "done"} /\ phase' \in {"check", "generate", "done"}
      BY <2>2, <1>1 DEF UnitInv, UnitTurns, Unresolved, Unit
    <2> QED
      BY <1>1, <2>1, <2>2
  <1> QED
    BY <1>3, <1>4, <1>5 DEF UnitInv

LEMMA UnitRegister == UnitInv /\ RegisterNames => UnitInv'
  <1> SUFFICES ASSUME UnitInv, RegisterNames PROVE UnitInv'
    OBVIOUS
  <1>1. PICK u : u = Unit
    OBVIOUS
  <1>2. /\ phase = "names" /\ phase' = "imports" /\ scope' = [scope EXCEPT ![u] = Registered(u)]
        /\ program' = program /\ turn' = turn /\ next' = next /\ look' = look /\ errors' = errors
    BY <1>1 DEF RegisterNames
  <1>3. Own' = Own /\ (PlainImports' <=> PlainImports) /\ Unit' = u
    BY <1>1, <1>2 DEF Own, Globals, Declarations, PlainImports, Unit
  <1>4. /\ u \in Range(Units) /\ program \in Programs /\ turn \in 1..Len(Units)
        /\ scope \in [Range(Units) -> [Names -> SymbolOrNone]]
    BY <1>1, UnitsTypes DEF UnitInv, UnitTypes, Unit
  <1>5. scope[u] = NoNames /\ look = NONE
    BY <1>1, <1>2, <1>4 DEF UnitInv, UnitTurns, UnitSymbols, Unit
  <1>6. PICK M : M = Registered(u)
    OBVIOUS
  <1>7. /\ M \in [Names -> SymbolOrNone]
        /\ \A n \in Names : M[n] # NONE =>
             /\ Sound(Own, PlainImports, u, n, M[n]) /\ M[n].target = NONE
             /\ M[n].kind = "alias" => \E k \in DOMAIN Declarations(u).aliases : Declarations(u).aliases[k].name = n
        /\ \A n \in Globals(u) : M[n] # NONE
        /\ \A k \in DOMAIN Declarations(u).aliases : M[Declarations(u).aliases[k].name] # NONE
    BY <1>4, <1>6, RegisteredIs
  <1>8. \A n \in Names : Grows(Own, PlainImports, scope, u, n, scope[u][n], M[n])
    BY <1>5, <1>7, SymbolsApart DEF Grows
  <1>9. /\ scope' \in [Range(Units) -> [Names -> SymbolOrNone]]
        /\ \A v \in Range(Units), n \in Names : Grows(Own, PlainImports, scope, v, n, scope[v][n], scope'[v][n])
        /\ scope'[u] = M /\ \A v \in Range(Units) : v # u => scope'[v] = scope[v]
    BY <1>2, <1>4, <1>6, <1>7, <1>8, Replaced
  <1>10. SymbolsSound(Own, PlainImports, scope')
    <2>1. SymbolsSound(Own, PlainImports, scope)
      BY DEF UnitInv, UnitSymbols
    <2> QED
      BY <1>4, <1>9, <2>1, Grown
  <1>11. UnitTypes'
    BY <1>2, <1>9 DEF UnitInv, UnitTypes
  <1>12. UnitSymbols'
    BY <1>2, <1>3, <1>5, <1>10 DEF UnitSymbols, SymbolsSound, Sound
  <1>13. UnitTurns'
    <2>1. \A j \in 1..Len(Units) : j > turn => scope'[Units[j]] = NoNames
      <3>1. \A j \in 1..Len(Units) : j > turn => Units[j] # u /\ Units[j] \in Range(Units)
        BY <1>1, <1>4, UnitsTypes DEF Unit
      <3> QED
        BY <3>1, <1>9 DEF UnitInv, UnitTurns
    <2>2. /\ \A n \in Globals(u) : scope'[u][n] # NONE
          /\ \A k \in DOMAIN Declarations(u).aliases : scope'[u][Declarations(u).aliases[k].name] # NONE
      BY <1>7, <1>9
    <2>3. ASSUME errors = {}, NEW v \in Range(Units), NEW n \in Names,
                 scope'[v][n] # NONE, scope'[v][n].kind = "alias", scope'[v][n].target = NONE
          PROVE  v = u /\ \E k \in DOMAIN Declarations(u).aliases : Declarations(u).aliases[k].name = n
      <3>1. CASE v # u
        BY <2>3, <3>1, <1>2, <1>9 DEF UnitInv, UnitTurns, Unresolved
      <3>2. CASE v = u
        BY <2>3, <3>2, <1>7, <1>9
      <3> QED
        BY <3>1, <3>2
    <2>4. Declarations(u)' = Declarations(u) /\ Globals(u)' = Globals(u) /\ Aliases' = Declarations(u).aliases
      BY <1>2, <1>3 DEF Declarations, Globals, Aliases
    <2> QED
      BY <2>1, <2>2, <2>3, <2>4, <1>2, <1>3, <1>5, <1>4 DEF UnitTurns, Unresolved
  <1> QED
    BY <1>11, <1>12, <1>13 DEF UnitInv

LEMMA UnitImport == UnitInv /\ ResolveImports => UnitInv'
  <1> SUFFICES ASSUME UnitInv, ResolveImports PROVE UnitInv'
    OBVIOUS
  <1>1. PICK u : u = Unit
    OBVIOUS
  <1>2. /\ phase = "imports" /\ phase' = "aliases" /\ next' = 1 /\ scope' = [scope EXCEPT ![u] = Imported(u)]
        /\ program' = program /\ turn' = turn /\ look' = look /\ errors \subseteq errors'
    BY <1>1 DEF ResolveImports
  <1>3. Own' = Own /\ (PlainImports' <=> PlainImports) /\ Unit' = u
    BY <1>1, <1>2 DEF Own, Globals, Declarations, PlainImports, Unit
  <1>4. /\ u \in Range(Units) /\ program \in Programs /\ turn \in 1..Len(Units)
        /\ scope \in [Range(Units) -> [Names -> SymbolOrNone]]
    BY <1>1, UnitsTypes DEF UnitInv, UnitTypes, Unit
  <1>5. look = NONE
    BY <1>2 DEF UnitInv, UnitSymbols
  <1>6. PICK M : M = Imported(u)
    OBVIOUS
  <1>7. /\ M \in [Names -> SymbolOrNone]
        /\ \A n \in Names : scope[u][n] # NONE => M[n] = scope[u][n]
        /\ \A n \in Names : scope[u][n] = NONE /\ M[n] # NONE =>
             Sound(Own, PlainImports, u, n, M[n]) /\ M[n].target = NONE /\ M[n].kind = "variable"
    BY <1>1, <1>2, <1>6, ImportedIs
  <1>8. \A n \in Names : Grows(Own, PlainImports, scope, u, n, scope[u][n], M[n])
    BY <1>7 DEF Grows
  <1>9. /\ scope' \in [Range(Units) -> [Names -> SymbolOrNone]]
        /\ \A v \in Range(Units), n \in Names : Grows(Own, PlainImports, scope, v, n, scope[v][n], scope'[v][n])
        /\ scope'[u] = M /\ \A v \in Range(Units) : v # u => scope'[v] = scope[v]
    BY <1>2, <1>4, <1>6, <1>7, <1>8, Replaced
  <1>10. /\ SymbolsSound(Own, PlainImports, scope')
         /\ \A v \in Range(Units), n \in Names : scope[v][n] # NONE => scope'[v][n] # NONE
    <2>1. SymbolsSound(Own, PlainImports, scope)
      BY DEF UnitInv, UnitSymbols
    <2> QED
      BY <1>4, <1>9, <2>1, Grown
  <1>11. UnitTypes'
    BY <1>2, <1>9 DEF UnitInv, UnitTypes
  <1>12. UnitSymbols'
    BY <1>2, <1>3, <1>5, <1>10 DEF UnitSymbols, SymbolsSound, Sound
  <1>13. UnitTurns'
    <2>1. \A j \in 1..Len(Units) : j > turn => scope'[Units[j]] = NoNames
      <3>1. \A j \in 1..Len(Units) : j > turn => Units[j] # u /\ Units[j] \in Range(Units)
        BY <1>1, <1>4, UnitsTypes DEF Unit
      <3> QED
        BY <3>1, <1>9 DEF UnitInv, UnitTurns
    <2>a. Aliases = Declarations(u).aliases
      BY <1>1 DEF Aliases
    <2>b. /\ \A k \in DOMAIN Declarations(u).aliases :
               /\ Declarations(u).aliases[k] \in [name : Names, in : Range(Units) \cup {NONE}, target : Names]
               /\ Declarations(u).aliases[k].name \in Names
          /\ \A n \in Globals(u) : n \in Names
          /\ DOMAIN Declarations(u).aliases \subseteq Nat \ {0}
      <3>1. /\ \A k \in DOMAIN Declarations(u).aliases :
                 Declarations(u).aliases[k] \in [name : Names, in : Range(Units) \cup {NONE}, target : Names]
            /\ \A k \in DOMAIN Declarations(u).globals : Declarations(u).globals[k] \in [name : Names, pub : BOOLEAN]
            /\ Declarations(u) \in Declared
        BY <1>4, DeclaredTypes
      <3>2. \A n \in Globals(u) : n \in Names
        BY <3>1 DEF Globals
      <3>3. PICK q, S : q = Declarations(u).aliases /\ S = [name : Names, in : Range(Units) \cup {NONE}, target : Names]
        OBVIOUS
      <3>4. q \in Seq(S)
        BY <3>1, <3>3 DEF Declared
      <3>5. DOMAIN q \subseteq Nat \ {0}
        BY ONLY <3>4
      <3> QED
        BY <3>1, <3>2, <3>3, <3>5
    <2>2. /\ \A n \in Globals(u) : scope'[u][n] # NONE
          /\ \A k \in DOMAIN Declarations(u).aliases : scope'[u][Declarations(u).aliases[k].name] # NONE
      BY <1>1, <1>2, <1>4, <1>10, <2>a, <2>b DEF UnitInv, UnitTurns
    <2>3. ASSUME errors = {}, NEW v \in Range(Units), NEW n \in Names,
                 scope'[v][n] # NONE, scope'[v][n].kind = "alias", scope'[v][n].target = NONE
          PROVE  v = u /\ \E k \in DOMAIN Declarations(u).aliases : Declarations(u).aliases[k].name = n /\ k >= 1
      <3>1. scope'[v][n] = scope[v][n]
        <4>1. CASE v # u
          BY <4>1, <1>9
        <4>2. CASE v = u
          <5>1. scope[u][n] # NONE
            BY <2>3, <4>2, <1>7, <1>9
          <5> QED
            BY <5>1, <4>2, <1>7, <1>9
        <4> QED
          BY <4>1, <4>2
      <3>2. Unresolved(v, n)
        BY <2>3, <3>1 DEF UnitInv, UnitTurns
      <3>3. v = u /\ \E k \in DOMAIN Aliases : Aliases[k].name = n
        BY <3>2, <1>1 DEF Unresolved
      <3> QED
        BY <3>3, <2>a, <2>b
    <2>4. Declarations(u)' = Declarations(u) /\ Globals(u)' = Globals(u) /\ Aliases' = Declarations(u).aliases
      BY <1>2, <1>3 DEF Declarations, Globals, Aliases
    <2>5. errors' = {} => errors = {}
      BY <1>2
    <2> QED
      BY <2>1, <2>2, <2>3, <2>4, <2>5, <1>2, <1>3, <1>5, <1>4 DEF UnitTurns, Unresolved
  <1> QED
    BY <1>11, <1>12, <1>13 DEF UnitInv

\* The alias that is next given its target.
LEMMA UnitAliasTo ==
  ASSUME UnitInv, phase = "aliases", next \in DOMAIN Aliases, NEW t \in Pointers, Symbol(t) # NONE,
         AliasTo(t), UNCHANGED <<program, phase, turn, errors>>, look' = NONE
  PROVE  UnitInv'
  <1>1. PICK u, x : u = Unit /\ x = Aliases[next].name
    OBVIOUS
  <1>2. /\ scope' = [scope EXCEPT ![u][x].target = t] /\ next' = next + 1
        /\ program' = program /\ turn' = turn /\ phase' = phase /\ errors' = errors
    BY <1>1 DEF AliasTo
  <1>3. Own' = Own /\ (PlainImports' <=> PlainImports) /\ Unit' = u
    BY <1>1, <1>2 DEF Own, Globals, Declarations, PlainImports, Unit
  <1>4. /\ u \in Range(Units) /\ program \in Programs /\ turn \in 1..Len(Units)
        /\ scope \in [Range(Units) -> [Names -> SymbolOrNone]]
    BY <1>1, UnitsTypes DEF UnitInv, UnitTypes, Unit
  <1>5. Aliases = Declarations(u).aliases
    BY <1>1 DEF Aliases
  <1>6. /\ \A k \in DOMAIN Aliases : Aliases[k].name \in Names
        /\ \A n \in Globals(u) : n \in Names
    <2>1. /\ \A k \in DOMAIN Declarations(u).aliases :
               Declarations(u).aliases[k] \in [name : Names, in : Range(Units) \cup {NONE}, target : Names]
          /\ \A k \in DOMAIN Declarations(u).globals : Declarations(u).globals[k] \in [name : Names, pub : BOOLEAN]
      BY <1>4, DeclaredTypes
    <2> QED
      BY <2>1, <1>5 DEF Globals
  <1>7. x \in Names /\ scope[u][x] # NONE /\ scope[t[1]][t[2]] # NONE
    BY <1>1, <1>6 DEF UnitInv, UnitTurns, Symbol
  <1>8. /\ scope' \in [Range(Units) -> [Names -> SymbolOrNone]]
        /\ \A v \in Range(Units), n \in Names : Grows(Own, PlainImports, scope, v, n, scope[v][n], scope'[v][n])
        /\ scope'[u][x].target # NONE
        /\ \A v \in Range(Units), n \in Names : v # u \/ n # x => scope'[v][n] = scope[v][n]
    <2>1. Retargets(Own, PlainImports, scope, u, x, [scope EXCEPT ![u][x].target = t])
      BY <1>4, <1>7, Retargeted
    <2>2. Retargets(Own, PlainImports, scope, u, x, scope')
      BY <2>1, <1>2
    <2> QED
      BY <2>2 DEF Retargets
  <1>9. /\ SymbolsSound(Own, PlainImports, scope')
        /\ \A v \in Range(Units), n \in Names : scope[v][n] # NONE => scope'[v][n] # NONE
    <2>1. SymbolsSound(Own, PlainImports, scope)
      BY DEF UnitInv, UnitSymbols
    <2> QED
      BY <1>4, <1>8, <2>1, Grown
  <1>10. UnitTypes'
    BY <1>2, <1>8 DEF UnitInv, UnitTypes
  <1>11. UnitSymbols'
    BY <1>3, <1>9 DEF UnitSymbols, SymbolsSound, Sound
  <1>12. UnitTurns'
    <2>1. ASSUME NEW j \in 1..Len(Units), j > turn PROVE scope'[Units[j]] = NoNames
      <3>1. Units[j] # u /\ Units[j] \in Range(Units)
        BY <2>1, <1>1, <1>4, UnitsTypes DEF Unit
      <3>2. scope[Units[j]] = NoNames
        BY <2>1 DEF UnitInv, UnitTurns
      <3>3. \A n \in Names : scope'[Units[j]][n] = scope[Units[j]][n]
        BY <3>1, <1>8
      <3>4. scope'[Units[j]] \in [Names -> SymbolOrNone] /\ scope[Units[j]] \in [Names -> SymbolOrNone]
        BY <3>1, <1>4, <1>8
      <3>5. scope'[Units[j]] = scope[Units[j]]
        BY <3>3, <3>4
      <3> QED
        BY <3>2, <3>5
    <2>2. /\ \A n \in Globals(u) : scope'[u][n] # NONE
          /\ \A k \in DOMAIN Aliases : scope'[u][Aliases[k].name] # NONE
      BY <1>1, <1>4, <1>6, <1>9 DEF UnitInv, UnitTurns
    <2>3. ASSUME errors = {}, NEW v \in Range(Units), NEW n \in Names,
                 scope'[v][n] # NONE, scope'[v][n].kind = "alias", scope'[v][n].target = NONE
          PROVE  v = u /\ \E k \in DOMAIN Aliases : Aliases[k].name = n /\ k >= next + 1
      <3>1. (v # u \/ n # x) /\ scope'[v][n] = scope[v][n]
        BY <2>3, <1>8
      <3>2. Unresolved(v, n)
        BY <2>3, <3>1 DEF UnitInv, UnitTurns
      <3>3. v = u /\ \E k \in DOMAIN Aliases : Aliases[k].name = n /\ k >= next
        BY <3>2, <1>1 DEF Unresolved
      <3>4. PICK k \in DOMAIN Aliases : Aliases[k].name = n /\ k >= next
        BY <3>3
      <3>5. k # next
        BY <3>1, <3>3, <3>4, <1>1
      <3>6. k \in Nat /\ next \in Nat
        <4>1. PICK q, S : q = Aliases /\ S = [name : Names, in : Range(Units) \cup {NONE}, target : Names]
          OBVIOUS
        <4>2. q \in Seq(S)
          <5>1. Declarations(u) \in Declared
            BY <1>4, DeclaredTypes
          <5> QED
            BY <5>1, <4>1, <1>5 DEF Declared
        <4> QED
          BY <4>1, <4>2, Elements DEF UnitInv, UnitTypes
      <3>7. k >= next + 1
        BY <3>4, <3>5, <3>6
      <3> QED
        BY <3>3, <3>4, <3>7
    <2>4. Globals(u)' = Globals(u) /\ Aliases' = Aliases
      BY <1>2, <1>3, <1>5 DEF Declarations, Globals, Aliases
    <2> QED
      BY <2>1, <2>2, <2>3, <2>4, <1>2, <1>3, <1>4 DEF UnitTurns, Unresolved
  <1> QED
    BY <1>10, <1>11, <1>12 DEF UnitInv

\* The current alias declaration.
LEMMA AliasTypes ==
  ASSUME UnitInv
  PROVE  /\ Unit \in Range(Units) /\ Len(Aliases) \in Nat /\ DOMAIN Aliases = 1..Len(Aliases)
         /\ \A k \in DOMAIN Aliases :
              Aliases[k].name \in Names /\ Aliases[k].in \in Range(Units) \cup {NONE} /\ Aliases[k].target \in Names
         /\ next \in Nat /\ next >= 1
  <1>1. Unit \in Range(Units) /\ program \in Programs /\ next \in Nat /\ next >= 1
    BY UnitsTypes DEF UnitInv, UnitTypes, Unit
  <1>2. PICK q, S : q = Aliases /\ S = [name : Names, in : Range(Units) \cup {NONE}, target : Names]
    OBVIOUS
  <1>3. q \in Seq(S)
    <2>1. Declarations(Unit) \in Declared
      BY <1>1, DeclaredTypes
    <2> QED
      BY <2>1, <1>2 DEF Declared, Aliases
  <1>4. Len(q) \in Nat /\ DOMAIN q = 1..Len(q) /\ \A k \in DOMAIN q : q[k] \in S
    BY ONLY <1>3
  <1>5. \A k \in DOMAIN q : q[k].name \in Names /\ q[k].in \in Range(Units) \cup {NONE} /\ q[k].target \in Names
    BY <1>2, <1>4
  <1> QED
    BY <1>1, <1>2, <1>4, <1>5

LEMMA UnitResolve == UnitInv /\ ResolveAlias => UnitInv'
  <1> SUFFICES ASSUME UnitInv, ResolveAlias PROVE UnitInv'
    OBVIOUS
  <1>1. PICK a : a = Aliases[next]
    OBVIOUS
  <1>2. /\ phase = "aliases" /\ look = NONE /\ next <= Len(Aliases)
        /\ program' = program /\ phase' = phase /\ turn' = turn
    BY DEF ResolveAlias
  <1>3. /\ next \in DOMAIN Aliases /\ Unit \in Range(Units) /\ next \in Nat
        /\ a.in \in Range(Units) \cup {NONE} /\ a.target \in Names
    BY <1>1, <1>2, AliasTypes
  <1>4. CASE a.in # NONE /\ Reached(Unit, a) /\ AliasTo(<<a.in, a.target>>) /\ UNCHANGED <<look, errors>>
    <2>1. PICK t : t = <<a.in, a.target>>
      OBVIOUS
    <2>2. t \in Pointers /\ Symbol(t) # NONE
      BY <2>1, <1>3, <1>4 DEF Pointers, Reached, Symbol
    <2>3. AliasTo(t) /\ look' = NONE /\ errors' = errors
      BY <2>1, <1>2, <1>4
    <2> QED
      BY <2>2, <2>3, <1>2, <1>3, UnitAliasTo
  <1>5. CASE a.in = NONE /\ scope[Unit][a.target] # NONE /\ look' = <<Unit, a.target>> /\ UNCHANGED <<scope, next, errors>>
    <2>1. look' \in Pointers /\ Symbol(look') # NONE
      BY <1>3, <1>5 DEF Pointers, Symbol
    <2>2. UnitsStay
      BY <2>1, <1>2, <1>5 DEF UnitsStay
    <2> QED
      BY <2>2, UnitKept
  <1>6. CASE errors' = errors \cup {"alias"} /\ next' = next + 1 /\ UNCHANGED <<scope, look>>
    <2>1. /\ Own' = Own /\ (PlainImports' <=> PlainImports) /\ Unit' = Unit /\ Aliases' = Aliases
          /\ Globals(Unit)' = Globals(Unit)
      BY <1>2, <1>6 DEF Own, Globals, Declarations, PlainImports, Unit, Aliases
    <2>2. UnitTypes'
      BY <1>2, <1>3, <1>6 DEF UnitInv, UnitTypes
    <2>3. UnitSymbols'
      BY <2>1, <1>2, <1>6 DEF UnitInv, UnitSymbols, SymbolsSound, Sound
    <2>4. UnitTurns'
      BY <2>1, <1>2, <1>6 DEF UnitInv, UnitTurns
    <2> QED
      BY <2>2, <2>3, <2>4 DEF UnitInv
  <1> QED
    BY <1>1, <1>4, <1>5, <1>6 DEF ResolveAlias

LEMMA UnitBind == UnitInv /\ BindAlias => UnitInv'
  <1> SUFFICES ASSUME UnitInv, BindAlias PROVE UnitInv'
    OBVIOUS
  <1>1. /\ phase = "aliases" /\ look # NONE /\ AliasTo(look) /\ look' = NONE
        /\ program' = program /\ phase' = phase /\ turn' = turn /\ errors' = errors
    BY DEF BindAlias
  <1>2. next \in DOMAIN Aliases
    BY <1>1, AliasTypes DEF UnitInv, UnitTurns
  <1>3. look \in Pointers /\ Symbol(look) # NONE
    BY <1>1 DEF UnitInv, UnitTypes, UnitSymbols
  <1>4. PICK t : t = look
    OBVIOUS
  <1>5. AliasTo(t) /\ t \in Pointers /\ Symbol(t) # NONE
    BY <1>1, <1>3, <1>4
  <1> QED
    BY <1>1, <1>2, <1>5, UnitAliasTo

LEMMA UnitFollow == UnitInv /\ FollowAlias => UnitInv'
  <1> SUFFICES ASSUME UnitInv, FollowAlias PROVE UnitInv'
    OBVIOUS
  <1>1. /\ look # NONE /\ Symbol(look).target # NONE /\ look' = Symbol(look).target
        /\ UNCHANGED <<program, phase, errors, turn, next, scope>>
    BY DEF FollowAlias, FollowedOnce, unitVars
  <1>2. look \in Pointers /\ Symbol(look) # NONE /\ phase \in {"aliases", "check"}
    BY <1>1 DEF UnitInv, UnitTypes, UnitSymbols
  <1>3. look[1] \in Range(Units) /\ look[2] \in Names
    BY <1>2 DEF Pointers
  <1>4. Symbol(look) \in Symbols
    BY <1>2, <1>3 DEF UnitInv, UnitTypes, SymbolOrNone, Symbol
  <1>5. look' \in Pointers
    BY <1>1, <1>4 DEF Symbols
  <1>6. Symbol(look') # NONE
    BY <1>1, <1>2, <1>3 DEF UnitInv, UnitSymbols, SymbolsSound, Symbol
  <1>7. phase = "aliases" => next <= Len(Aliases)
    BY <1>1 DEF UnitInv, UnitTurns
  <1>8. UnitsStay
    BY <1>1, <1>2, <1>5, <1>6, <1>7 DEF UnitsStay
  <1> QED
    BY <1>8, UnitKept

LEMMA UnitNext == UnitInv /\ NextUnit => UnitInv'
  <1> SUFFICES ASSUME UnitInv, NextUnit PROVE UnitInv'
    OBVIOUS
  <1>1. /\ phase = "aliases" /\ look = NONE /\ next > Len(Aliases)
        /\ UNCHANGED <<program, next, scope, look, errors>>
        /\ \/ turn < Len(Units) /\ turn' = turn + 1 /\ phase' = "names"
           \/ turn' = turn /\ phase' = "check"
    BY DEF NextUnit
  <1>2. Own' = Own /\ (PlainImports' <=> PlainImports)
    BY <1>1 DEF Own, Globals, Declarations, PlainImports
  <1>3. turn \in 1..Len(Units) /\ Len(Units) \in Nat
    BY UnitsTypes DEF UnitInv, UnitTypes
  <1>4. UnitTypes'
    <2>1. turn' \in 1..Len(Units)
      BY <1>1, <1>3
    <2> QED
      BY <2>1, <1>1 DEF UnitInv, UnitTypes
  <1>5. UnitSymbols'
    BY <1>1, <1>2 DEF UnitInv, UnitSymbols, SymbolsSound, Sound
  <1>6. \A u \in Range(Units), n \in Names : ~Unresolved(u, n)
    <2>1. \A k \in DOMAIN Aliases : ~(k >= next)
      <3>1. DOMAIN Aliases = 1..Len(Aliases) /\ Len(Aliases) \in Nat /\ next \in Nat
        BY AliasTypes
      <3> QED
        BY <3>1, <1>1
    <2> QED
      BY <2>1, <1>1 DEF Unresolved
  <1>7. UnitTurns'
    <2>1. \A j \in 1..Len(Units) : j > turn' \/ (j = turn' /\ phase' = "names") => scope'[Units[j]] = NoNames
      <3>1. \A j \in 1..Len(Units) : j > turn' \/ (j = turn' /\ phase' = "names") => j > turn
        BY <1>1, <1>3
      <3> QED
        BY <3>1, <1>1 DEF UnitInv, UnitTurns
    <2> QED
      BY <2>1, <1>1, <1>6 DEF UnitInv, UnitTurns
  <1> QED
    BY <1>4, <1>5, <1>7 DEF UnitInv

LEMMA UnitStep == UnitInv /\ [Next]_vars => UnitInv'
  <1> SUFFICES ASSUME UnitInv, [Next]_vars PROVE UnitInv'
    OBVIOUS
  <1>1. /\ look \in Pointers \cup {NONE}
        /\ look # NONE => Symbol(look) # NONE /\ phase \in {"aliases", "check"}
        /\ phase = "aliases" /\ look # NONE => next <= Len(Aliases)
        /\ program \in Programs
    BY DEF UnitInv, UnitTypes, UnitSymbols, UnitTurns
  <1>2. ASSUME UNCHANGED <<program, phase, look, errors, unitVars>> PROVE UnitsStay
    BY <1>1, <1>2 DEF UnitsStay, unitVars
  <1>3. ASSUME NEW it \in Items, CheckItem(it) PROVE UnitsStay
    BY <1>1, <1>3 DEF CheckItem, Checked, UnitsStay, unitVars
  <1>4. ASSUME NEW it \in Items, LookUp(it) PROVE UnitsStay
    <2>1. /\ phase = "check" /\ phase' = phase /\ it.use # NONE /\ errors \subseteq errors'
          /\ UNCHANGED <<program, turn, next, scope>>
          /\ look' = NONE \/ (look' = <<Main, it.use>> /\ scope[Main][it.use] # NONE)
      BY <1>4 DEF LookUp, Checked, unitVars
    <2>2. it.use \in Names
      <3>1. program.names \subseteq Names
        BY <1>1, NamesAssumption
      <3> QED
        BY <3>1, <2>1 DEF Items
    <2>3. look' # NONE => look' \in Pointers /\ Symbol(look') # NONE
      BY <2>1, <2>2, UnitsTypes DEF Pointers, Symbol
    <2> QED
      BY <2>1, <2>3 DEF UnitsStay
  <1>5. ASSUME BindUse PROVE UnitsStay
    BY <1>1, <1>5 DEF BindUse, Checked, UnitsStay, unitVars
  <1>6. ASSUME EndCheck PROVE UnitsStay
    BY <1>1, <1>6 DEF EndCheck, UnitsStay, unitVars
  <1>7. ASSUME Generate PROVE UnitsStay
    <2>1. ASSUME EndFunction PROVE UnitsStay
      BY <1>1, <2>1 DEF EndFunction, AtEnd, UnitsStay, unitVars
    <2>2. ASSUME Generate, ~EndFunction PROVE UNCHANGED <<program, phase, look, errors, unitVars>>
      BY <2>2 DEF Generate, SkipDead, GenerateUse, GenerateDeclaration, EnterBlock, RegisterDefer,
                  GenerateReturn, RunDeferred, LeaveBlock
    <2> QED
      BY <1>2, <1>7, <2>1, <2>2
  <1>8. CASE Signatures
    BY <1>8, UnitRegister, UnitImport, UnitResolve, UnitFollow, UnitBind, UnitNext DEF Signatures
  <1>9. CASE CheckBody
    BY <1>3, <1>4, <1>5, <1>6, <1>9, UnitKept DEF CheckBody
  <1>10. CASE Generate
    BY <1>7, <1>10, UnitKept
  <1>11. CASE UNCHANGED vars
    BY <1>2, <1>11, UnitKept DEF vars
  <1> QED
    BY <1>8, <1>9, <1>10, <1>11 DEF Next

-----------------------------------------------------------------------------
(* The checked body.                                                       *)

Params == [n \in Names |-> IF n \in Range(program.params) THEN <<0>> ELSE NONE]

Meanings == {<<c>> : c \in Nat} \cup Pointers \cup {NONE}

\* the scopes in which the use of the item at p is looked up, from c before it
Looked(it, p, c) == IF it.k = "for" THEN Append(c, FirstPart(it.x, p)) ELSE c

\* what n means where the scopes are c and the symbols S
MeaningIn(S, c, n, v) ==
  IF Innermost(c, n) # NONE THEN v = Innermost(c, n)
  ELSE v \in Pointers /\ S[v[1]][v[2]] # NONE /\ S[v[1]][v[2]].kind = "variable"

\* the first m items of b are checked, and their uses bound
CheckedAs(b, m, ps, bd, sc, S, h, s) ==
  /\ History(b, m, ps, h, s) /\ sc = s[m + 1]
  /\ \A p \in 1..m : b[p].use # NONE => MeaningIn(S, Looked(b[p], p, s[p]), b[p].use, bd[p])

Early == phase \in {"names", "imports", "aliases"}

\* the last item waits for what a lookup will come to
AwaitsLookup == phase = "check" /\ look # NONE

CheckInv ==
  errors = {} =>
    /\ body \in Bodies /\ bound \in Seq(Meanings)
    /\ IF AwaitsLookup
       THEN /\ Len(body) = Len(bound) + 1 /\ body[Len(body)].use # NONE
            /\ body[Len(body)].k \in {"decl", "for", "use"}
            /\ Innermost(Looked(body[Len(body)], Len(body), scopes), body[Len(body)].use) = NONE
       ELSE Len(body) = Len(bound)
    /\ Early => Len(bound) = 0
    /\ \E h, s : CheckedAs(body, Len(bound), Params, bound, scopes, scope, h, s)

LEMMA ParamsTypes == Params \in Level /\ \A n \in Names : Params[n] \in {<<0>>, NONE}
  <1>1. \A n \in Names : Params[n] \in {<<0>>, NONE}
    BY DEF Params
  <1>2. Params = [n \in Names |-> Params[n]]
    BY DEF Params
  <1>3. <<0>> \in {<<c>> : c \in Nat}
    OBVIOUS
  <1> QED
    BY <1>1, <1>2, <1>3 DEF Level

\* The items that the checker comes to.
LEMMA ItemsTypes ==
  ASSUME program \in Programs, NEW it \in Items
  PROVE  /\ it \in AnyItem /\ (it.k \in {"decl", "for"} => it.x \in Names)
         /\ it.k \in {"use", "for"} => it.use \in Names
  <1>1. program.names \subseteq Names
    BY NamesAssumption
  <1> QED
    BY <1>1 DEF Items, AnyItem

\* One item more.
LEMMA AppendItem ==
  ASSUME NEW b \in Bodies, NEW it \in AnyItem, it.k \in {"decl", "for"} => it.x \in Names,
         it.k \in {"use", "for"} => it.use \in Names
  PROVE  /\ Append(b, it) \in Bodies /\ Len(Append(b, it)) = Len(b) + 1 /\ Len(b) \in Nat
         /\ Append(b, it)[Len(b) + 1] = it /\ \A q \in 1..Len(b) : Append(b, it)[q] = b[q]
  <1>1. b \in Seq(AnyItem) /\ \A p \in 1..Len(b) : /\ b[p].k \in {"decl", "for"} => b[p].x \in Names
                                                   /\ b[p].k \in {"use", "for"} => b[p].use \in Names
    BY DEF Bodies
  <1>2. PICK c : c = Append(b, it)
    OBVIOUS
  <1>3. /\ c \in Seq(AnyItem) /\ Len(c) = Len(b) + 1 /\ Len(b) \in Nat
        /\ c[Len(b) + 1] = it /\ \A q \in 1..Len(b) : c[q] = b[q]
    BY <1>1, <1>2
  <1>4. \A p \in 1..Len(c) : p \in 1..Len(b) \/ p = Len(b) + 1
    BY <1>3
  <1>5. c \in Bodies
    BY <1>1, <1>3, <1>4 DEF Bodies
  <1> QED
    BY <1>2, <1>3, <1>5

\* The checked part of a body goes on with the next item.
CheckedBy(b, p, ps, bd, sc, S) == \E h, s : CheckedAs(b, p, ps, bd, sc, S, h, s)

\* the item at p of b1, with meaning v, is the next after the m of b
NextChecked(b, m, bd, sc, S, h, s, b1, p, v, sc1) ==
  /\ Len(bd) = m /\ p = m + 1 /\ Len(b1) = p /\ \A q \in 1..m : b1[q] = b[q]
  /\ b1[p].use # NONE => MeaningIn(S, Looked(b1[p], p, sc), b1[p].use, v)
  /\ b1[p].k = "decl" => Top(s, p)[b1[p].x] = NONE
  /\ b1[p].k = "end" => h[p] # <<>>
  /\ sc1 = ScopesAfter(sc, b1[p], p, b1[Inner(h, p)])

LEMMA CheckedOn ==
  ASSUME NEW b \in Bodies, NEW m, NEW ps, NEW bd \in Seq(Meanings), NEW sc, NEW S, NEW h, NEW s,
         CheckedAs(b, m, ps, bd, sc, S, h, s), NEW b1 \in Bodies, NEW p, NEW v \in Meanings, NEW sc1,
         NextChecked(b, m, bd, sc, S, h, s, b1, p, v, sc1)
  PROVE  CheckedBy(b1, p, ps, Append(bd, v), sc1, S)
  <1> USE DEF NextChecked
  <1>1. History(b, m, ps, h, s) /\ sc = s[p]
    BY DEF CheckedAs
  <1>2. m \in Nat /\ p \in 1..Len(b1) /\ m <= Len(b1)
    <2>1. m \in 0..Len(b) /\ Len(b) \in Nat
      BY <1>1 DEF History, Bodies
    <2> QED
      BY <2>1
  <1>3. History(b1, m, ps, h, s)
    BY <1>1, <1>2, HistoryKept
  <1>4. PICK h1, s1 : /\ History(b1, p, ps, h1, s1)
                      /\ s1[p + 1] = ScopesAfter(s[p], b1[p], p, b1[Inner(h, p)])
                      /\ \A q \in 1..p : h1[q] = h[q] /\ s1[q] = s[q]
    BY <1>2, <1>3, HistoryGoesOn
  <1>5. ASSUME NEW q \in 1..p, b1[q].use # NONE
        PROVE  MeaningIn(S, Looked(b1[q], q, s1[q]), b1[q].use, Append(bd, v)[q])
    <2>1. s1[q] = s[q]
      BY <1>4
    <2>2. CASE q \in 1..m
      <3>1. b1[q] = b[q]
        BY <2>2
      <3>2. Append(bd, v)[q] = bd[q]
        BY <2>2
      <3>3. MeaningIn(S, Looked(b[q], q, s[q]), b[q].use, bd[q])
        BY <1>5, <2>2, <3>1 DEF CheckedAs
      <3> QED
        BY <2>1, <3>1, <3>2, <3>3
    <2>3. CASE q = p
      <3>1. Append(bd, v)[p] = v
        OBVIOUS
      <3> QED
        BY <1>1, <1>5, <2>1, <2>3, <3>1
    <2>4. q \in 1..m \/ q = p
      BY <1>2
    <2> QED
      BY <2>2, <2>3, <2>4
  <1>6. CheckedAs(b1, p, ps, Append(bd, v), sc1, S, h1, s1)
    BY <1>1, <1>4, <1>5 DEF CheckedAs
  <1> QED
    BY <1>6 DEF CheckedBy

LEMMA CheckInit == Init => CheckInv
  <1> SUFFICES ASSUME Init PROVE CheckInv
    OBVIOUS
  <1>1. body = <<>> /\ bound = <<>> /\ scopes = <<Params>> /\ look = NONE
    BY DEF Init, Params
  <1>2. body \in Bodies /\ bound \in Seq(Meanings) /\ Len(body) = 0 /\ Len(bound) = 0
    BY <1>1 DEF Bodies
  <1>3. PICK h, s : History(body, 0, Params, h, s) /\ s[1] = <<Params>>
    BY <1>2, ParamsTypes, HistoryStart
  <1>4. CheckedAs(body, Len(bound), Params, bound, scopes, scope, h, s)
    BY <1>1, <1>2, <1>3 DEF CheckedAs
  <1> QED
    BY <1>1, <1>2, <1>4 DEF CheckInv, AwaitsLookup

\* Nothing is checked before the signatures are done.
LEMMA CheckSignatures == UnitInv /\ CheckInv /\ Signatures => CheckInv'
  <1> SUFFICES ASSUME UnitInv, CheckInv, Signatures PROVE CheckInv'
    OBVIOUS
  <1>1. /\ body' = body /\ bound' = bound /\ scopes' = scopes /\ program' = program
        /\ errors \subseteq errors'
    BY DEF Signatures, RegisterNames, ResolveImports, ResolveAlias, FollowAlias, BindAlias, NextUnit, bodyVars
  <1>2. Params' = Params
    BY <1>1 DEF Params
  <1> SUFFICES ASSUME errors = {}, errors' = {} PROVE CheckInv'
    BY <1>1 DEF CheckInv
  <1>3. CASE Early
    <2>1. Early' \/ (phase' = "check" /\ look' = NONE)
      <3>1. CASE RegisterNames
        BY <3>1 DEF Early, RegisterNames
      <3>2. CASE ResolveImports
        BY <3>2 DEF Early, ResolveImports
      <3>3. CASE ResolveAlias \/ FollowAlias \/ BindAlias
        <4>1. phase' = phase
          BY <3>3 DEF ResolveAlias, FollowAlias, BindAlias
        <4> QED
          BY <1>3, <4>1 DEF Early
      <3>4. CASE NextUnit
        <4>1. look' = NONE /\ phase' \in {"names", "check"}
          BY <3>4 DEF NextUnit
        <4> QED
          BY <4>1 DEF Early
      <3> QED
        BY <3>1, <3>2, <3>3, <3>4 DEF Signatures
    <2>2. ~AwaitsLookup /\ ~AwaitsLookup'
      BY <1>3, <2>1 DEF Early, AwaitsLookup
    <2>3. PICK h, s : CheckedAs(body, Len(bound), Params, bound, scopes, scope, h, s)
      BY DEF CheckInv
    <2>4. Len(bound) = 0 /\ Len(body) = 0
      BY <1>3, <2>2 DEF CheckInv
    <2>5. CheckedAs(body, Len(bound), Params, bound, scopes, scope', h, s)
      BY <2>3, <2>4 DEF CheckedAs
    <2>6. \E h1, s1 : CheckedAs(body, Len(bound), Params, bound, scopes, scope', h1, s1)
      BY <2>5
    <2> QED
      BY <1>1, <1>2, <2>2, <2>4, <2>6 DEF CheckInv
  <1>4. CASE ~Early
    <2>1. FollowAlias
      BY <1>4 DEF Early, Signatures, RegisterNames, ResolveImports, ResolveAlias, BindAlias, NextUnit
    <2>2. phase' = phase /\ scope' = scope /\ look # NONE /\ look' # NONE
      BY <2>1 DEF FollowAlias, FollowedOnce, unitVars
    <2>3. (AwaitsLookup' <=> AwaitsLookup) /\ ~Early'
      BY <1>4, <2>2 DEF AwaitsLookup, Early
    <2> QED
      BY <1>1, <1>2, <2>2, <2>3 DEF CheckInv
  <1> QED
    BY <1>3, <1>4

\* What the checker's scopes become, where it reports nothing.
LEMMA CheckedScopes ==
  ASSUME NEW it \in AnyItem, NEW p, NEW chain, NEW meaning, Checked(it, p, chain, meaning), errors' = {},
         NEW sc, chain = Looked(it, p, sc), NEW opener, it.k = "end" => opener = body[Opener(p)]
  PROVE  /\ bound' = Append(bound, meaning) /\ errors = {}
         /\ it.use # NONE => meaning # NONE
         /\ it.k = "decl" => Last(sc)[it.x] = NONE
         /\ scopes' = ScopesAfter(sc, it, p, opener)
  <1>1. /\ bound' = Append(bound, meaning) /\ errors = {} /\ (it.use # NONE => meaning # NONE)
        /\ ~(it.k = "decl" /\ Last(chain)[it.x] # NONE)
    BY DEF Checked
  <1>2. it.k \in {"decl", "for", "use", "block", "defer", "return", "end"}
    BY DEF AnyItem
  <1>3. CASE it.k = "decl"
    <2>1. chain = sc
      BY <1>3 DEF Looked
    <2>2. scopes' = Put(chain, it.x, <<p>>)
      <3>1. PICK t : t = (Last(chain)[it.x] # NONE)
        OBVIOUS
      <3>2. ~t
        BY <1>1, <1>3, <3>1
      <3>3. scopes' = CASE it.k = "decl" /\ ~(it.k = "decl" /\ t) -> Put(chain, it.x, <<p>>)
                        [] Opens(it) -> Append(chain, NoNames)
                        [] it.k = "end" -> SubSeq(chain, 1, Len(chain) - (IF body[Opener(p)].k = "for" THEN 2 ELSE 1))
                        [] OTHER -> chain
        BY <3>1 DEF Checked
      <3> QED
        BY <1>3, <3>2, <3>3 DEF Opens
    <2> QED
      BY <1>1, <1>3, <2>1, <2>2 DEF ScopesAfter
  <1>4. CASE it.k = "for"
    <2>1. chain = Append(sc, FirstPart(it.x, p))
      BY <1>4 DEF Looked
    <2>2. scopes' = Append(chain, NoNames)
      BY <1>1, <1>4 DEF Checked, Opens
    <2> QED
      BY <1>1, <1>4, <2>1, <2>2 DEF ScopesAfter
  <1>5. CASE it.k \in {"block", "defer"}
    <2>1. chain = sc
      BY <1>5 DEF Looked
    <2>2. scopes' = Append(chain, NoNames)
      BY <1>1, <1>5 DEF Checked, Opens
    <2> QED
      BY <1>1, <1>5, <2>1, <2>2 DEF ScopesAfter, Opens
  <1>6. CASE it.k = "end"
    <2>1. chain = sc
      BY <1>6 DEF Looked
    <2>2. scopes' = SubSeq(chain, 1, Len(chain) - (IF opener.k = "for" THEN 2 ELSE 1))
      BY <1>1, <1>6 DEF Checked, Opens
    <2> QED
      BY <1>1, <1>6, <2>1, <2>2 DEF ScopesAfter, Opens
  <1>7. CASE it.k \in {"use", "return"}
    <2>1. chain = sc
      BY <1>7 DEF Looked
    <2>2. scopes' = chain
      BY <1>1, <1>7 DEF Checked, Opens
    <2> QED
      BY <1>1, <1>7, <2>1, <2>2 DEF ScopesAfter, Opens
  <1> QED
    BY <1>2, <1>3, <1>4, <1>5, <1>6, <1>7

\* What the chain gives is a local declaration or nothing.
LEMMA InnermostTypes ==
  ASSUME NEW c \in Seq(Level), NEW n \in Names
  PROVE  Innermost(c, n) \in {<<d>> : d \in Nat} \cup {NONE}
  <1>1. \A l \in 1..Len(c) : c[l][n] \in {<<d>> : d \in Nat} \cup {NONE}
    BY DEF Level
  <1>2. /\ (\A l \in 1..Len(c) : c[l][n] = NONE) => Innermost(c, n) = NONE
        /\ \A l \in 1..Len(c) : c[l][n] # NONE /\ (\A k \in l + 1..Len(c) : c[k][n] = NONE)
                                  => Innermost(c, n) = c[l][n]
        /\ \/ \A l \in 1..Len(c) : c[l][n] = NONE
           \/ \E l \in 1..Len(c) : c[l][n] # NONE /\ \A k \in l + 1..Len(c) : c[k][n] = NONE
    BY InnermostIs
  <1> QED
    BY <1>1, <1>2

LEMMA LookedTypes ==
  ASSUME NEW c \in Seq(Level), NEW p \in Nat, NEW it \in AnyItem, it.k \in {"decl", "for"} => it.x \in Names
  PROVE  Looked(it, p, c) \in Seq(Level)
  <1>1. CASE it.k = "for"
    <2>1. PICK f : f = FirstPart(it.x, p)
      OBVIOUS
    <2>2. f \in Level
      BY <1>1, <2>1, ScopesTypes
    <2>3. Append(c, f) \in Seq(Level)
      BY <2>2
    <2> QED
      BY <1>1, <2>1, <2>3 DEF Looked
  <1>2. CASE it.k # "for"
    BY <1>2 DEF Looked
  <1> QED
    BY <1>1, <1>2

LEMMA CheckItemStep ==
  ASSUME UnitInv, CheckInv, NEW it \in Items, CheckItem(it)
  PROVE  CheckInv'
  <1>1. /\ phase = "check" /\ look = NONE /\ Fits(it) /\ body' = Append(body, it)
        /\ phase' = "check" /\ look' = NONE /\ program' = program /\ scope' = scope
        /\ it.use # NONE => Innermost(Before(it), it.use) # NONE
        /\ Checked(it, Len(body) + 1, Before(it), IF it.use = NONE THEN NONE ELSE Innermost(Before(it), it.use))
    BY DEF CheckItem, unitVars
  <1> SUFFICES ASSUME errors' = {} PROVE CheckInv'
    BY DEF CheckInv
  <1>2. errors = {}
    BY <1>1 DEF Checked
  <1>3. /\ it \in AnyItem /\ (it.k \in {"decl", "for"} => it.x \in Names) /\ Params' = Params
        /\ it.k \in {"use", "for"} => it.use \in Names
    BY <1>1, ItemsTypes DEF UnitInv, UnitTypes, Params
  <1>4. PICK m, p, v : m = Len(body) /\ p = m + 1 /\ v = IF it.use = NONE THEN NONE ELSE Innermost(Before(it), it.use)
    OBVIOUS
  <1>5. /\ body \in Bodies /\ bound \in Seq(Meanings) /\ Len(bound) = m
        /\ ~AwaitsLookup /\ ~AwaitsLookup' /\ ~Early'
    BY <1>1, <1>2, <1>4 DEF CheckInv, AwaitsLookup, Early
  <1>6. PICK h, s : CheckedAs(body, m, Params, bound, scopes, scope, h, s)
    BY <1>2, <1>5 DEF CheckInv
  <1>7. History(body, m, Params, h, s) /\ scopes = s[p]
    BY <1>4, <1>6 DEF CheckedAs
  <1>8. /\ body' \in Bodies /\ Len(body') = p /\ m \in Nat /\ body'[p] = it /\ \A q \in 1..m : body'[q] = body[q]
        /\ p \in 1..m + 1 /\ p \in Nat
    BY <1>1, <1>3, <1>4, <1>5, AppendItem
  <1>9. Before(it) = Looked(it, p, scopes)
    BY <1>4 DEF Before, Looked, FirstPart
  <1>10. scopes \in Seq(Level) /\ Looked(it, p, scopes) \in Seq(Level)
    <2>1. scopes \in Seq(Level)
      BY <1>5, <1>7, <1>8, HistoryTypes
    <2> QED
      BY <2>1, <1>3, <1>8, LookedTypes
  <1>11. v \in Meanings /\ (it.use # NONE => MeaningIn(scope, Looked(it, p, scopes), it.use, v))
    <2>1. CASE it.use = NONE
      BY <2>1, <1>4 DEF Meanings
    <2>2. CASE it.use # NONE
      <3>1. it.use \in Names /\ v = Innermost(Looked(it, p, scopes), it.use) /\ v # NONE
        BY <2>2, <1>1, <1>3, <1>4, <1>9 DEF AnyItem
      <3>2. v \in {<<d>> : d \in Nat} \cup {NONE}
        BY <3>1, <1>10, InnermostTypes
      <3> QED
        BY <3>1, <3>2 DEF Meanings, MeaningIn
    <2> QED
      BY <2>1, <2>2
  <1>12. it.k = "end" => h[p] # <<>> /\ body[Opener(p)] = body'[Inner(h, p)]
    <2>1. SUFFICES ASSUME it.k = "end" PROVE h[p] # <<>> /\ body[Opener(p)] = body'[Inner(h, p)]
      OBVIOUS
    <2>2. Depth(m) > 0
      BY <2>1, <1>1, <1>4 DEF Fits
    <2>3. Depth(m) = Len(h[p])
      <3>1. m \in 0..m
        BY <1>8
      <3> QED
        BY <3>1, <1>4, <1>5, <1>7, DepthIs
    <2>4. h[p] # <<>>
      BY <2>2, <2>3
    <2>5. Opener(p) = Inner(h, p)
      BY <2>4, <1>5, <1>7, <1>8, OpenerIs
    <2>6. Inner(h, p) \in 1..m
      <3>1. Nested(body, h, s, p)
        BY <1>5, <1>7, <1>8, HistoryNested
      <3>2. Inner(h, p) \in 1..p - 1
        BY <2>4, <3>1 DEF Nested
      <3> QED
        BY <3>2, <1>4, <1>8
    <2> QED
      BY <2>4, <2>5, <2>6, <1>8
  <1>13. /\ bound' = Append(bound, v)
         /\ it.k = "decl" => Last(scopes)[it.x] = NONE
         /\ scopes' = ScopesAfter(scopes, it, p, body'[Inner(h, p)])
    <2>1. Checked(it, p, Looked(it, p, scopes), v)
      BY <1>1, <1>4, <1>9
    <2> QED
      BY <2>1, <1>3, <1>12, CheckedScopes
  <1>14. it.k = "decl" => Top(s, p)[it.x] = NONE
    BY <1>7, <1>13 DEF Top, Last
  <1>15. \E h1, s1 : CheckedAs(body', p, Params, Append(bound, v), scopes', scope, h1, s1)
    <2>1. CheckedBy(body', p, Params, Append(bound, v), scopes', scope)
      <3>1. m = Len(body) /\ p = m + 1
        BY <1>4
      <3>2. /\ body \in Bodies /\ bound \in Seq(Meanings) /\ Len(bound) = m
            /\ CheckedAs(body, m, Params, bound, scopes, scope, h, s)
        BY <1>5, <1>6
      <3>3. body' \in Bodies /\ Len(body') = p /\ \A q \in 1..m : body'[q] = body[q]
        BY <1>8
      <3>4. v \in Meanings /\ (body'[p].use # NONE => MeaningIn(scope, Looked(body'[p], p, scopes), body'[p].use, v))
        BY <1>8, <1>11
      <3>5. /\ body'[p].k = "decl" => Top(s, p)[body'[p].x] = NONE
            /\ body'[p].k = "end" => h[p] # <<>>
        BY <1>8, <1>12, <1>14
      <3>6. scopes' = ScopesAfter(scopes, body'[p], p, body'[Inner(h, p)])
        BY <1>8, <1>13
      <3>7. NextChecked(body, m, bound, scopes, scope, h, s, body', p, v, scopes')
        BY <3>1, <3>2, <3>3, <3>4, <3>5, <3>6 DEF NextChecked
      <3> QED
        BY ONLY <3>2, <3>3, <3>4, <3>7, CheckedOn
    <2> QED
      BY <2>1 DEF CheckedBy
  <1>16. bound' \in Seq(Meanings) /\ Len(bound') = p
    BY <1>4, <1>5, <1>11, <1>13
  <1> QED
    BY <1>1, <1>3, <1>5, <1>8, <1>13, <1>15, <1>16 DEF CheckInv

\* An item whose use is not local waits for what its name leads to.
LEMMA LookUpStep ==
  ASSUME UnitInv, CheckInv, NEW it \in Items, LookUp(it)
  PROVE  CheckInv'
  <1>1. /\ phase = "check" /\ look = NONE /\ it.use # NONE /\ Innermost(Before(it), it.use) = NONE
        /\ body' = Append(body, it) /\ phase' = "check" /\ program' = program /\ scope' = scope
        /\ IF scope[Main][it.use] # NONE
           THEN look' = <<Main, it.use>> /\ UNCHANGED <<errors, scopes, bound>>
           ELSE look' = NONE /\ Checked(it, Len(body) + 1, Before(it), NONE)
    BY DEF LookUp, unitVars
  <1> SUFFICES ASSUME errors' = {} PROVE CheckInv'
    BY DEF CheckInv
  <1>2. look' = <<Main, it.use>> /\ errors = {} /\ scopes' = scopes /\ bound' = bound
    <2>1. CASE scope[Main][it.use] # NONE
      BY <1>1, <2>1
    <2>2. CASE scope[Main][it.use] = NONE
      <3>1. "undeclared" \in errors'
        BY <1>1, <2>2 DEF Checked
      <3> QED
        BY <3>1
    <2> QED
      BY <2>1, <2>2
  <1>3. /\ it \in AnyItem /\ (it.k \in {"decl", "for"} => it.x \in Names) /\ Params' = Params
        /\ it.k \in {"use", "for"} => it.use \in Names
    BY <1>1, ItemsTypes DEF UnitInv, UnitTypes, Params
  <1>4. it.k \in {"decl", "for", "use"}
    BY <1>1 DEF Items
  <1>5. look' # NONE
    <2>1. it.use \in Names
      BY <1>1, <1>3 DEF AnyItem
    <2>2. look' \in Pointers
      BY <1>2, <2>1, UnitsTypes DEF Pointers
    <2> QED
      BY <2>2, SymbolsApart
  <1>6. PICK m, p : m = Len(body) /\ p = m + 1
    OBVIOUS
  <1>7. /\ body \in Bodies /\ bound \in Seq(Meanings) /\ Len(bound) = m
        /\ AwaitsLookup' /\ ~Early'
    BY <1>1, <1>2, <1>5, <1>6 DEF CheckInv, AwaitsLookup, Early
  <1>8. PICK h, s : CheckedAs(body, m, Params, bound, scopes, scope, h, s)
    BY <1>1, <1>2, <1>7 DEF CheckInv, AwaitsLookup
  <1>9. /\ body' \in Bodies /\ Len(body') = p /\ m \in Nat /\ body'[p] = it /\ \A q \in 1..m : body'[q] = body[q]
    BY <1>1, <1>3, <1>6, <1>7, AppendItem
  <1>10. History(body', m, Params, h, s)
    <2>1. m <= Len(body')
      BY <1>6, <1>9
    <2>2. History(body, m, Params, h, s)
      BY <1>8 DEF CheckedAs
    <2> QED
      BY <1>7, <1>9, <2>1, <2>2, HistoryKept
  <1>11. CheckedAs(body', m, Params, bound, scopes, scope, h, s)
    BY <1>8, <1>9, <1>10 DEF CheckedAs
  <1>12. Before(it) = Looked(it, p, scopes)
    BY <1>6 DEF Before, Looked, FirstPart
  <1>13. \E h1, s1 : CheckedAs(body', m, Params, bound, scopes, scope, h1, s1)
    BY <1>11
  <1>14. Innermost(Looked(it, p, scopes), it.use) = NONE
    BY <1>1, <1>12
  <1> QED
    BY <1>1, <1>2, <1>3, <1>4, <1>6, <1>7, <1>9, <1>13, <1>14 DEF CheckInv

\* The use is bound to the symbol the lookup came to, which no alias is left to lead on.
LEMMA BindUseStep ==
  ASSUME UnitInv, CheckInv, BindUse
  PROVE  CheckInv'
  <1>1. PICK m, p, it : p = Len(body) /\ m = Len(bound) /\ it = body[p]
    OBVIOUS
  <1>2. /\ phase = "check" /\ look # NONE /\ ~FollowedOnce(look) /\ look' = NONE
        /\ phase' = "check" /\ program' = program /\ scope' = scope /\ body' = body
        /\ Checked(it, p, Looked(it, p, scopes), look)
    <2>1. Last(body) = it
      BY <1>1 DEF Last
    <2> QED
      BY <1>1, <2>1 DEF BindUse, unitVars, Looked, FirstPart
  <1> SUFFICES ASSUME errors' = {} PROVE CheckInv'
    BY DEF CheckInv
  <1>3. errors = {}
    BY <1>2 DEF Checked
  <1>4. /\ body \in Bodies /\ bound \in Seq(Meanings) /\ p = m + 1 /\ it.use # NONE /\ it.k \in {"decl", "for", "use"}
        /\ Innermost(Looked(it, p, scopes), it.use) = NONE
        /\ ~AwaitsLookup' /\ ~Early' /\ Params' = Params
    BY <1>1, <1>2, <1>3 DEF CheckInv, AwaitsLookup, Early, Params
  <1>5. PICK h, s : CheckedAs(body, m, Params, bound, scopes, scope, h, s)
    BY <1>1, <1>3 DEF CheckInv
  <1>6. look \in Pointers /\ Symbol(look) # NONE /\ Symbol(look).kind = "variable"
    <2>1. look \in Pointers /\ Symbol(look) # NONE /\ look[1] \in Range(Units) /\ look[2] \in Names
      BY <1>2 DEF UnitInv, UnitTypes, UnitSymbols, Pointers
    <2>2. Symbol(look) \in Symbols
      BY <2>1 DEF UnitInv, UnitTypes, SymbolOrNone, Symbol
    <2>3. ~Unresolved(look[1], look[2])
      BY <1>2 DEF Unresolved
    <2>4. ~(Symbol(look).kind = "alias" /\ Symbol(look).target = NONE)
      BY <1>3, <2>1, <2>3 DEF UnitInv, UnitTurns, Symbol
    <2> QED
      BY <1>2, <2>1, <2>2, <2>4 DEF FollowedOnce, Symbols
  <1>7. MeaningIn(scope, Looked(it, p, scopes), it.use, look) /\ look \in Meanings
    BY <1>4, <1>6 DEF MeaningIn, Symbol, Meanings
  <1>8. History(body, m, Params, h, s) /\ scopes = s[p] /\ p \in Nat /\ m \in Nat
    <2>1. Len(body) \in Nat /\ Len(bound) \in Nat
      BY <1>4 DEF Bodies
    <2> QED
      BY <1>1, <1>4, <1>5, <2>1 DEF CheckedAs
  <1>9. it \in AnyItem
    <2>1. p \in 1..Len(body)
      BY <1>1, <1>4, <1>8
    <2> QED
      BY <1>1, <1>4, <2>1, ItemTypes
  <1>10. /\ bound' = Append(bound, look)
         /\ it.k = "decl" => Last(scopes)[it.x] = NONE
         /\ scopes' = ScopesAfter(scopes, it, p, body[Inner(h, p)])
    <2>1. it.k = "end" => body[Inner(h, p)] = body[Opener(p)]
      BY <1>4
    <2> QED
      BY <1>2, <1>9, <2>1, CheckedScopes
  <1>11. NextChecked(body, m, bound, scopes, scope, h, s, body, p, look, scopes')
    <2>1. it.k = "decl" => Top(s, p)[it.x] = NONE
      BY <1>8, <1>10 DEF Top, Last
    <2> QED
      BY <1>1, <1>4, <1>7, <1>10, <2>1 DEF NextChecked
  <1>12. CheckedBy(body, p, Params, Append(bound, look), scopes', scope)
    BY ONLY <1>4, <1>5, <1>7, <1>11, CheckedOn
  <1>13. bound' \in Seq(Meanings) /\ Len(bound') = p
    BY <1>1, <1>4, <1>7, <1>10
  <1> QED
    BY <1>1, <1>2, <1>4, <1>10, <1>12, <1>13 DEF CheckInv, CheckedBy

\* What is checked stays checked.
LEMMA CheckStays ==
  ASSUME CheckInv, UNCHANGED <<program, errors, scope, body, scopes, bound>>,
         ~Early /\ ~Early', ~AwaitsLookup /\ ~AwaitsLookup'
  PROVE  CheckInv'
  <1>1. Params' = Params
    BY DEF Params
  <1> QED
    BY <1>1 DEF CheckInv

LEMMA CheckStep == UnitInv /\ CheckInv /\ [Next]_vars => CheckInv'
  <1> SUFFICES ASSUME UnitInv, CheckInv, [Next]_vars PROVE CheckInv'
    OBVIOUS
  <1>1. CASE Signatures
    BY <1>1, CheckSignatures
  <1>2. CASE CheckBody
    <2>1. ASSUME EndCheck PROVE CheckInv'
      BY <2>1, CheckStays DEF EndCheck, unitVars, bodyVars, Early, AwaitsLookup
    <2> QED
      BY <1>2, <2>1, CheckItemStep, LookUpStep, BindUseStep DEF CheckBody
  <1>3. CASE Generate
    <2>1. phase = "generate" /\ phase' \in {"generate", "done"}
          /\ UNCHANGED <<program, errors, scope, body, scopes, bound>>
      <3>1. CASE EndFunction
        BY <3>1 DEF EndFunction, AtEnd, unitVars, bodyVars
      <3>2. CASE LeaveBlock \/ RunDeferred
        BY <3>2 DEF LeaveBlock, RunDeferred, AtEnd, unitVars, bodyVars
      <3>3. CASE SkipDead \/ GenerateUse \/ GenerateDeclaration \/ EnterBlock \/ RegisterDefer \/ GenerateReturn
        BY <3>3 DEF SkipDead, GenerateUse, GenerateDeclaration, EnterBlock, RegisterDefer, GenerateReturn,
                    Generating, unitVars, bodyVars
      <3> QED
        BY <1>3, <3>1, <3>2, <3>3 DEF Generate
    <2> QED
      BY <2>1, CheckStays DEF Early, AwaitsLookup
  <1>4. CASE UNCHANGED vars
    <2>1. UNCHANGED <<program, phase, look, errors, scope, body, scopes, bound>>
      BY <1>4 DEF vars, unitVars, bodyVars
    <2>2. Params' = Params /\ (Early' <=> Early) /\ (AwaitsLookup' <=> AwaitsLookup)
      BY <2>1 DEF Params, Early, AwaitsLookup
    <2> QED
      BY <2>1, <2>2 DEF CheckInv
  <1> QED
    BY <1>1, <1>2, <1>3, <1>4 DEF Next

-----------------------------------------------------------------------------
(* The generated body.                                                     *)

Live == Generating /\ ~dead

\* the place the generator has come to, by the history of the checked body
Ready(h, s) ==
  /\ errors = {} /\ body \in Bodies
  /\ CheckedAs(body, Len(body), Params, bound, scopes, scope, h, s) /\ Finished(body, Params, h, s)
  /\ Placed(body, Params, h, s, at, frames, locals, Live)

GenInv ==
  /\ phase \notin {"generate", "done"} => at = 1 /\ reads = {}
  /\ phase = "generate" => \E h, s : Ready(h, s)
  /\ GeneratedAsBound

\* a read of the storage that was meant, or one of the known exceptions
GoodRead(r) ==
  \/ r.storage = DeclarationOf(bound[r.at])
  \/ OwnInitializer(r.at)
  \/ DeclaredLater(r.at)
  \/ Len(bound[r.at]) = 2 /\ ~PlainImports

\* what generating leaves as it is
CodeOnly == UNCHANGED <<program, phase, errors, scope, body, scopes, bound>>

LEMMA ReadsStay ==
  ASSUME UNCHANGED <<program, scope, body, bound>>, GeneratedAsBound,
         \A r \in reads' : r \in reads \/ GoodRead(r)
  PROVE  GeneratedAsBound'
  <1>1. SUFFICES ASSUME NEW r \in reads' PROVE GoodRead(r)'
    BY DEF GeneratedAsBound, GoodRead
  <1>2. GoodRead(r)
    BY DEF GeneratedAsBound, GoodRead
  <1>3. DeclarationOf(bound[r.at])' = DeclarationOf(bound[r.at])
    BY DEF DeclarationOf, Symbol
  <1>4. OwnInitializer(r.at)' <=> OwnInitializer(r.at)
    BY DEF OwnInitializer
  <1>5. DeclaredLater(r.at)' <=> DeclaredLater(r.at)
    BY DEF DeclaredLater, Around, EndOf, Depth
  <1>6. PlainImports' <=> PlainImports
    BY DEF PlainImports, Globals, Declarations
  <1> QED
    BY <1>2, <1>3, <1>4, <1>5, <1>6 DEF GoodRead

\* What the symbol gives for a use is what it was bound to.
LEMMA StorageIs ==
  ASSUME UnitInv, NEW h, NEW s, Ready(h, s), NEW p \in 1..Len(body), body[p].use # NONE, NEW maps,
         Innermost(maps, body[p].use) = Innermost(Looked(body[p], p, s[p]), body[p].use)
  PROVE  \/ Storage(maps, body[p].use, bound[p]) = DeclarationOf(bound[p])
         \/ Len(bound[p]) = 2 /\ ~PlainImports
  <1>1. PICK n, v, c : n = body[p].use /\ v = bound[p] /\ c = Looked(body[p], p, s[p])
    OBVIOUS
  <1>2. MeaningIn(scope, c, n, v) /\ Innermost(maps, n) = Innermost(c, n) /\ n \in Names
    <2>1. body[p].use \in Names
      BY ItemTypes DEF Ready
    <2> QED
      BY <1>1, <2>1 DEF Ready, CheckedAs
  <1>3. CASE Innermost(c, n) # NONE
    <2>1. v = Innermost(c, n)
      BY <1>2, <1>3 DEF MeaningIn
    <2>2. c \in Seq(Level)
      <3>1. History(body, Len(body), Params, h, s) /\ body \in Bodies /\ p \in 1..Len(body) + 1 /\ p \in Nat
        BY DEF Ready, Finished, Bodies
      <3>2. s[p] \in Seq(Level)
        BY <3>1, HistoryTypes
      <3>3. body[p] \in AnyItem /\ (body[p].k \in {"decl", "for"} => body[p].x \in Names)
        BY <3>1, ItemTypes
      <3> QED
        BY <1>1, <3>1, <3>2, <3>3, LookedTypes
    <2>3. v \in {<<d>> : d \in Nat}
      BY <1>2, <1>3, <2>1, <2>2, InnermostTypes
    <2>4. Len(v) = 1
      BY <2>3
    <2>5. DeclarationOf(v) = v
      BY <2>4 DEF DeclarationOf
    <2>6. Storage(maps, n, v) = v
      BY <1>2, <1>3, <2>1 DEF Storage
    <2> QED
      BY <1>1, <2>5, <2>6
  <1>4. CASE Innermost(c, n) = NONE
    <2>1. v \in Pointers /\ Symbol(v) # NONE /\ Symbol(v).kind = "variable"
      BY <1>2, <1>4 DEF MeaningIn, Symbol
    <2>2. v[1] \in Range(Units) /\ v[2] \in Names /\ Len(v) = 2 /\ v # NONE
      BY <2>1, SymbolsApart DEF Pointers
    <2>3. SUFFICES ASSUME PlainImports PROVE Storage(maps, n, v) = DeclarationOf(v)
      BY <1>1, <2>2
    <2>4. Symbol(v).decl = <<Symbol(v).file, Symbol(v).name>> /\ Symbol(v).name \in Own[Symbol(v).file]
      BY <2>1, <2>2, <2>3 DEF UnitInv, UnitSymbols, SymbolsSound, Sound, Symbol
    <2>5. Symbol(v).file \in Range(Units)
      <3>1. Symbol(v) \in Symbols
        BY <2>1, <2>2 DEF UnitInv, UnitTypes, SymbolOrNone, Symbol
      <3> QED
        BY <3>1 DEF Symbols
    <2>6. Symbol(v).name \in Globals(Symbol(v).file)
      BY <2>4, <2>5 DEF Own
    <2>7. DeclarationOf(v) = Symbol(v).decl
      BY <2>2 DEF DeclarationOf
    <2>8. Storage(maps, n, v) = <<Symbol(v).file, Symbol(v).name>>
      BY <1>2, <1>4, <2>6 DEF Storage
    <2> QED
      BY <2>4, <2>7, <2>8
  <1> QED
    BY <1>3, <1>4

\* After a step of the generator.
LEMMA GoesOn ==
  ASSUME NEW h, NEW s, Ready(h, s), phase = "generate", CodeOnly, GeneratedAsBound,
         Placed(body, Params, h, s, at', frames', locals', Live'),
         \A r \in reads' : r \in reads \/ GoodRead(r)
  PROVE  GenInv'
  <1>1. Params' = Params /\ phase' = "generate"
    BY DEF CodeOnly, Params
  <1>2. Ready(h, s)'
    BY <1>1 DEF CodeOnly, Ready
  <1>3. GeneratedAsBound'
    BY ReadsStay DEF CodeOnly
  <1> QED
    BY <1>1, <1>2, <1>3 DEF GenInv

\* Where the generator is, and what is there.
LEMMA ReadyTypes ==
  ASSUME NEW h, NEW s, Ready(h, s)
  PROVE  /\ Len(body) \in Nat /\ at \in 1..Len(body) + 1 /\ at \in Nat
         /\ History(body, Len(body), Params, h, s) /\ h[Len(body) + 1] = <<>>
         /\ h[at] \in Seq(Nat) /\ s[at] \in Seq(Level) /\ Len(h[at]) \in Nat /\ Len(s[at]) \in Nat
         /\ Len(s[at]) >= 1
         /\ frames \in Seq(Frame) /\ Len(frames) = Len(h[at]) + 1
         /\ locals \in Seq(Level) /\ Len(locals) = Len(s[at]) + 1
  <1>1. /\ body \in Bodies /\ at \in 1..Len(body) + 1
        /\ History(body, Len(body), Params, h, s) /\ h[Len(body) + 1] = <<>>
        /\ frames \in Seq(Frame) /\ Len(frames) = Len(h[at]) + 1
        /\ locals \in Seq(Level) /\ Len(locals) = Len(s[at]) + 1
    BY DEF Ready, Finished, Placed, GoodFrames, GoodMaps
  <1>2. Len(body) \in Nat
    BY <1>1 DEF Bodies
  <1>3. at \in Nat
    BY <1>1, <1>2
  <1>4. h[at] \in Seq(Nat) /\ s[at] \in Seq(Level) /\ Len(h[at]) \in Nat /\ Len(s[at]) \in Nat
    BY <1>1, HistoryTypes
  <1>5. Len(s[at]) >= 1
    BY <1>1, ScopesDeep
  <1> QED
    BY <1>1, <1>2, <1>3, <1>4, <1>5

\* What is generated stands in the body.
LEMMA GeneratingAt ==
  ASSUME NEW h, NEW s, Ready(h, s), Generating
  PROVE  at \in 1..Len(body) /\ body[at].k # "end" /\ body[at] \in AnyItem /\ phase = "generate"
  <1>1. at \in 1..Len(body) /\ body[at].k # "end" /\ phase = "generate"
    BY ReadyTypes DEF Generating
  <1> QED
    BY <1>1, ItemTypes DEF Ready

LEMMA GenSkip ==
  ASSUME NEW h, NEW s, Ready(h, s), SkipDead, GeneratedAsBound
  PROVE  GenInv'
  <1>1. /\ Generating /\ dead /\ dead' = dead /\ at' = NextItem(at) /\ CodeOnly
        /\ locals' = locals /\ frames' = frames /\ reads' = reads
    BY DEF SkipDead, CodeOnly, unitVars, bodyVars
  <1>2. at \in 1..Len(body) /\ body[at].k # "end" /\ phase = "generate"
    BY <1>1, GeneratingAt
  <1>3. Placed(body, Params, h, s, at, frames, locals, FALSE)
    BY <1>1 DEF Ready, Live
  <1>4. body \in Bodies /\ Finished(body, Params, h, s) /\ History(body, Len(body), Params, h, s) /\ h[Len(body) + 1] = <<>>
    BY DEF Ready, Finished
  <1>5. /\ NextItem(at) \in at + 1..Len(body) + 1 /\ h[NextItem(at)] = h[at]
        /\ body[at].k # "decl" => s[NextItem(at)] = s[at]
        /\ body[at].k = "decl" => NextItem(at) = at + 1
    BY <1>2, <1>4, NextItemIs
  <1>6. Placed(body, Params, h, s, at', frames', locals', FALSE)
    <2>1. CASE body[at].k = "decl"
      <3>1. at <= Len(body)
        BY <1>2
      <3>2. Placed(body, Params, h, s, at + 1, frames, locals, FALSE)
        BY <1>3, <1>4, <2>1, <3>1, MovePastDead
      <3> QED
        BY <1>1, <1>5, <2>1, <3>2
    <2>2. CASE body[at].k # "decl"
      <3>1. NextItem(at) \in 1..Len(body) + 1
        BY <1>2, <1>5, ReadyTypes
      <3>2. Placed(body, Params, h, s, NextItem(at), frames, locals, FALSE)
        BY <1>3, <1>5, <2>2, <3>1, MoveAlong
      <3> QED
        BY <1>1, <3>2
    <2> QED
      BY <2>1, <2>2
  <1>7. Live' = FALSE
    BY <1>1 DEF Live
  <1> QED
    BY <1>1, <1>2, <1>6, <1>7, GoesOn

LEMMA GenReturn ==
  ASSUME NEW h, NEW s, Ready(h, s), GenerateReturn, GeneratedAsBound
  PROVE  GenInv'
  <1>1. /\ Generating /\ body[at].k = "return" /\ dead' = TRUE /\ at' = at + 1 /\ CodeOnly
        /\ locals' = locals /\ frames' = frames /\ reads' = reads
    BY DEF GenerateReturn, CodeOnly, unitVars, bodyVars
  <1>2. at \in 1..Len(body) /\ phase = "generate" /\ NextItem(at) = at + 1
    BY <1>1, GeneratingAt DEF NextItem, Opens
  <1>3. body \in Bodies /\ History(body, Len(body), Params, h, s) /\ h[Len(body) + 1] = <<>>
    BY DEF Ready, Finished
  <1>4. at + 1 \in 1..Len(body) + 1 /\ h[at + 1] = h[at] /\ s[at + 1] = s[at]
    <2>1. h[NextItem(at)] = h[at] /\ s[NextItem(at)] = s[at]
      BY <1>1, <1>2, <1>3, NextItemIs
    <2> QED
      BY <1>2, <2>1, ReadyTypes
  <1>5. Placed(body, Params, h, s, at + 1, frames, locals, FALSE)
    BY <1>4, MoveAlong DEF Ready
  <1>6. Live' = FALSE
    BY <1>1 DEF Live
  <1> QED
    BY <1>1, <1>2, <1>5, <1>6, GoesOn

\* What the maps of the place itself give.
LEMMA FoundHere ==
  ASSUME NEW h, NEW s, Ready(h, s), Generating, ~dead, UnitInv,
         body[at].k \in {"decl", "use"}, body[at].use # NONE,
         NEW maps \in Seq(Level), Len(maps) = Len(locals),
         \A k \in 1..Len(maps) : maps[k][body[at].use] = locals[k][body[at].use]
  PROVE  \/ Storage(maps, body[at].use, bound[at]) = DeclarationOf(bound[at])
         \/ DeclaredLater(at)
         \/ Len(bound[at]) = 2 /\ ~PlainImports
  <1>1. PICK n, c : n = body[at].use /\ c = s[at]
    OBVIOUS
  <1>2. at \in 1..Len(body) /\ n \in Names /\ Looked(body[at], at, s[at]) = c
    <2>1. body[at] \in AnyItem /\ at \in 1..Len(body)
      BY GeneratingAt
    <2> QED
      BY <1>1, <2>1 DEF AnyItem, Looked
  <1>3. body \in Bodies /\ Finished(body, Params, h, s) /\ Placed(body, Params, h, s, at, frames, locals, TRUE)
    BY DEF Ready, Live
  <1>4. c \in Seq(Level) /\ Len(c) >= 1 /\ Len(c) = Len(s[at]) /\ Len(c) \in Nat /\ Len(locals) = Len(c) + 1
    BY <1>1, ReadyTypes
  <1>5. \A k \in 1..Len(c) + 1 : maps[k][n] = locals[k][n]
    BY <1>1, <1>4
  <1>6. \A j \in 1..Len(h[at]) : frames[j + 1].back # 0 => j \in 1..Len(h[at]) /\ h[at][j] = h[at][j]
    OBVIOUS
  <1>7. Innermost(maps, n) = Innermost(c, n) \/ DeclaredLater(at)
    <2>1. \A l \in 1..Len(c) : c[l] = s[at][l]
      BY <1>1
    <2>2. Len(c) <= Len(s[at]) /\ Len(maps) = Len(c) + 1
      BY <1>4
    <2>3. Searched(h, s, at, frames, locals, TRUE, at, n, c, maps)
      BY <1>1, <1>4, <1>5, <1>6, <2>1, <2>2 DEF Searched
    <2>4. maps \in Seq(Level)
      OBVIOUS
    <2> QED
      BY ONLY <1>2, <1>3, <1>4, <2>3, <2>4, FoundInMaps
  <1> QED
    BY <1>1, <1>2, <1>7, StorageIs

LEMMA GenUse ==
  ASSUME UnitInv, NEW h, NEW s, Ready(h, s), GenerateUse, GeneratedAsBound
  PROVE  GenInv'
  <1>1. /\ Generating /\ ~dead /\ dead' = dead /\ body[at].k = "use" /\ at' = at + 1 /\ CodeOnly
        /\ locals' = locals /\ frames' = frames
        /\ reads' = reads \cup {[at |-> at, storage |-> Storage(locals, body[at].use, bound[at])]}
    BY DEF GenerateUse, Read, CodeOnly, unitVars, bodyVars
  <1>2. at \in 1..Len(body) /\ phase = "generate" /\ NextItem(at) = at + 1
    BY <1>1, GeneratingAt DEF NextItem, Opens
  <1>3. body \in Bodies /\ History(body, Len(body), Params, h, s) /\ h[Len(body) + 1] = <<>>
    BY DEF Ready, Finished
  <1>4. at + 1 \in 1..Len(body) + 1 /\ h[at + 1] = h[at] /\ s[at + 1] = s[at]
    <2>1. h[NextItem(at)] = h[at] /\ s[NextItem(at)] = s[at]
      BY <1>1, <1>2, <1>3, NextItemIs
    <2> QED
      BY <1>2, <2>1, ReadyTypes
  <1>5. Live
    BY <1>1 DEF Live
  <1>6. Placed(body, Params, h, s, at + 1, frames, locals, Live')
    BY <1>4, <1>5, MoveAlong DEF Ready
  <1>7. \A r \in reads' : r \in reads \/ GoodRead(r)
    <2>1. SUFFICES GoodRead([at |-> at, storage |-> Storage(locals, body[at].use, bound[at])])
      BY <1>1
    <2>2. body[at].use # NONE
      BY <1>1, <1>2, <1>3, ItemTypes, SymbolsApart
    <2>3. \/ Storage(locals, body[at].use, bound[at]) = DeclarationOf(bound[at])
          \/ DeclaredLater(at)
          \/ Len(bound[at]) = 2 /\ ~PlainImports
      BY <1>1, <2>2, FoundHere, ReadyTypes
    <2> QED
      BY <2>3 DEF GoodRead
  <1> QED
    BY <1>1, <1>2, <1>6, <1>7, GoesOn

LEMMA GenDeclare ==
  ASSUME UnitInv, NEW h, NEW s, Ready(h, s), GenerateDeclaration, GeneratedAsBound
  PROVE  GenInv'
  <1>1. /\ Generating /\ ~dead /\ dead' = dead /\ body[at].k = "decl" /\ at' = at + 1 /\ CodeOnly
        /\ frames' = frames /\ locals' = Put(locals, body[at].x, <<at>>)
        /\ IF body[at].use # NONE
           THEN reads' = reads \cup {[at |-> at, storage |-> Storage(locals', body[at].use, bound[at])]}
           ELSE reads' = reads
    BY DEF GenerateDeclaration, Read, CodeOnly, unitVars, bodyVars
  <1>2. at \in 1..Len(body) /\ phase = "generate" /\ body[at].x \in Names /\ at \in Nat /\ at <= Len(body)
    <2>1. at \in 1..Len(body) /\ phase = "generate"
      BY <1>1, GeneratingAt
    <2>2. body[at].x \in Names
      BY <1>1, <2>1, ItemTypes DEF Ready
    <2> QED
      BY <2>1, <2>2, ReadyTypes
  <1>3. body \in Bodies /\ Finished(body, Params, h, s) /\ Placed(body, Params, h, s, at, frames, locals, TRUE)
    BY <1>1 DEF Ready, Live
  <1>4. PICK ls1 : ls1 = Put(locals, body[at].x, <<at>>)
    OBVIOUS
  <1>5. Placed(body, Params, h, s, at + 1, frames, ls1, TRUE)
    BY <1>1, <1>2, <1>3, <1>4, MoveDeclare
  <1>6. Placed(body, Params, h, s, at', frames', locals', Live')
    <2>1. CASE Live'
      BY <1>1, <1>4, <1>5, <2>1
    <2>2. CASE ~Live'
      <3>1. /\ at + 1 \in 1..Len(body) + 1 /\ h[at + 1] = h[at + 1] /\ s[at + 1] = s[at + 1]
            /\ Live' \in BOOLEAN /\ (Live' => TRUE)
        BY <1>2, ReadyTypes DEF Live
      <3>2. Placed(body, Params, h, s, at + 1, frames, ls1, Live')
        BY <1>5, <3>1, MoveAlong
      <3> QED
        BY <1>1, <1>4, <3>2
    <2> QED
      BY <2>1, <2>2
  <1>7. \A r \in reads' : r \in reads \/ GoodRead(r)
    <2>1. SUFFICES ASSUME body[at].use # NONE
                   PROVE  GoodRead([at |-> at, storage |-> Storage(locals', body[at].use, bound[at])])
      BY <1>1
    <2>2. CASE body[at].x = body[at].use
      BY <1>1, <2>2 DEF GoodRead, OwnInitializer
    <2>3. CASE body[at].x # body[at].use
      <3>1. body[at].use \in Names
        BY <1>2, <1>3, <2>1, ItemTypes
      <3>2. locals \in Seq(Level) /\ Len(locals) >= 1
        BY ReadyTypes
      <3>3. ls1 \in Seq(Level) /\ Len(ls1) = Len(locals)
        BY <1>2, <1>4, <3>2, PutIs
      <3>4. \A k \in 1..Len(ls1) : ls1[k][body[at].use] = locals[k][body[at].use]
        BY <1>2, <1>4, <2>3, <3>1, <3>2, <3>3, PutLevels
      <3>5. \/ Storage(ls1, body[at].use, bound[at]) = DeclarationOf(bound[at])
            \/ DeclaredLater(at)
            \/ Len(bound[at]) = 2 /\ ~PlainImports
        BY <1>1, <2>1, <3>3, <3>4, FoundHere
      <3> QED
        BY <1>1, <1>4, <3>5 DEF GoodRead
    <2> QED
      BY <2>2, <2>3
  <1> QED
    BY <1>1, <1>2, <1>6, <1>7, GoesOn

LEMMA GenEnter ==
  ASSUME NEW h, NEW s, Ready(h, s), EnterBlock, GeneratedAsBound
  PROVE  GenInv'
  <1>1. /\ Generating /\ ~dead /\ dead' = dead /\ body[at].k \in {"block", "for"} /\ at' = at + 1 /\ CodeOnly
        /\ frames' = Append(frames, [waiting |-> <<>>, back |-> 0, cleaned |-> FALSE])
        /\ locals' = Append(IF body[at].k = "for" THEN Append(locals, FirstPart(body[at].x, at)) ELSE locals, NoNames)
        /\ reads' = reads
    BY DEF EnterBlock, CodeOnly, unitVars, bodyVars, FirstPart
  <1>2. at \in 1..Len(body) /\ phase = "generate" /\ at <= Len(body)
    BY <1>1, GeneratingAt, ReadyTypes
  <1>3. body \in Bodies /\ Finished(body, Params, h, s) /\ Placed(body, Params, h, s, at, frames, locals, TRUE)
    BY <1>1 DEF Ready, Live
  <1>4. PICK a, fs1, ls1, l1 : a = at /\ fs1 = frames' /\ ls1 = locals' /\ l1 = Live'
    OBVIOUS
  <1>5. /\ fs1 = Append(frames, [waiting |-> <<>>, back |-> 0, cleaned |-> FALSE])
        /\ ls1 = Append(IF body[a].k = "for" THEN Append(locals, FirstPart(body[a].x, a)) ELSE locals, NoNames)
        /\ a <= Len(body) /\ body[a].k \in {"block", "for"} /\ Placed(body, Params, h, s, a, frames, locals, TRUE)
    BY <1>1, <1>2, <1>3, <1>4
  <1>6. Placed(body, Params, h, s, a + 1, fs1, ls1, l1)
    BY ONLY <1>3, <1>5, MoveIn
  <1> QED
    BY <1>1, <1>2, <1>4, <1>6, GoesOn

\* What EXCEPT makes of the innermost frame.
LEMMA ReframedLast ==
  ASSUME NEW fs \in Seq(Frame), Len(fs) >= 1, NEW wt \in Seq(Nat), NEW f \in Frame,
         f.waiting = wt, f.back = fs[Len(fs)].back, NEW fs1, fs1 = [fs EXCEPT ![Len(fs)] = f]
  PROVE  Reframed(fs1, fs, Len(fs), wt)
  <1>1. PICK L : L = Len(fs)
    OBVIOUS
  <1>2. L \in Nat /\ L \in 1..L /\ DOMAIN fs = 1..L
    BY <1>1
  <1>3. fs1 \in Seq(Frame) /\ Len(fs1) = L
    BY <1>1, <1>2
  <1>4. fs1[L] = f /\ \A i \in 1..L : i # L => fs1[i] = fs[i]
    BY <1>1, <1>2
  <1> QED
    BY <1>1, <1>3, <1>4 DEF Reframed

LEMMA GenDefer ==
  ASSUME NEW h, NEW s, Ready(h, s), RegisterDefer, GeneratedAsBound
  PROVE  GenInv'
  <1>1. /\ Generating /\ ~dead /\ dead' = dead /\ body[at].k = "defer" /\ at' = NextItem(at) /\ CodeOnly
        /\ frames' = [frames EXCEPT ![Len(frames)].waiting = Append(@, at)]
        /\ locals' = locals /\ reads' = reads
    BY DEF RegisterDefer, CodeOnly, unitVars, bodyVars
  <1>2. at \in 1..Len(body) /\ phase = "generate" /\ at <= Len(body) /\ at \in Nat
    BY <1>1, GeneratingAt, ReadyTypes
  <1>3. body \in Bodies /\ Finished(body, Params, h, s) /\ Placed(body, Params, h, s, at, frames, locals, TRUE)
    BY <1>1 DEF Ready, Live
  <1>4. frames \in Seq(Frame) /\ Len(frames) >= 1
    BY ReadyTypes
  <1>5. Reframed(frames', frames, Len(frames), Append(frames[Len(frames)].waiting, at))
    <2>1. PICK g, w : g = frames[Len(frames)] /\ w = Append(g.waiting, at)
      OBVIOUS
    <2>2. g \in Frame
      BY <1>4, <2>1
    <2>3. w \in Seq(Nat)
      BY <1>2, <2>1, <2>2 DEF Frame
    <2>4. PICK f : f = [g EXCEPT !.waiting = w]
      OBVIOUS
    <2>5. f \in Frame /\ f.waiting = w /\ f.back = g.back
      BY <2>2, <2>3, <2>4 DEF Frame
    <2>6. frames' = [frames EXCEPT ![Len(frames)] = f]
      BY <1>1, <2>1, <2>4
    <2>7. f.back = frames[Len(frames)].back
      BY <2>1, <2>5
    <2>8. Reframed(frames', frames, Len(frames), w)
      BY <1>4, <2>3, <2>5, <2>6, <2>7, ReframedLast
    <2> QED
      BY <2>1, <2>8
  <1>6. Placed(body, Params, h, s, at, frames', locals, TRUE)
    BY <1>1, <1>2, <1>3, <1>5, MoveDefer
  <1>7. NextItem(at) \in 1..Len(body) + 1 /\ h[NextItem(at)] = h[at] /\ s[NextItem(at)] = s[at]
    <2>1. body \in Bodies /\ History(body, Len(body), Params, h, s) /\ h[Len(body) + 1] = <<>>
      BY DEF Ready, Finished
    <2>2. NextItem(at) \in at + 1..Len(body) + 1 /\ h[NextItem(at)] = h[at] /\ s[NextItem(at)] = s[at]
      BY <1>1, <1>2, <2>1, NextItemIs
    <2> QED
      BY <1>2, <2>2, ReadyTypes
  <1>8. Placed(body, Params, h, s, NextItem(at), frames', locals, Live')
    BY <1>6, <1>7, MoveAlong
  <1> QED
    BY <1>1, <1>2, <1>8, GoesOn

LEMMA GenRun ==
  ASSUME NEW h, NEW s, Ready(h, s), RunDeferred, GeneratedAsBound
  PROVE  GenInv'
  <1>1. PICK g, d, wt, fs0 : /\ g = frames[Len(frames)] /\ d = Last(g.waiting) /\ wt = Front(g.waiting)
                             /\ fs0 = [frames EXCEPT ![Len(frames)].waiting = Front(@),
                                                     ![Len(frames)].cleaned = TRUE]
    OBVIOUS
  <1>2. Last(frames) = g
    BY <1>1 DEF Last
  <1>3. /\ phase = "generate" /\ (at <= Len(body) => body[at].k = "end") /\ CodeOnly /\ g.waiting # <<>>
        /\ frames' = Append(fs0, [waiting |-> <<>>, back |-> at, cleaned |-> FALSE]) /\ at' = d + 1
        /\ locals' = Append(locals, NoNames) /\ reads' = reads
    BY <1>1, <1>2 DEF RunDeferred, AtEnd, CodeOnly, unitVars, bodyVars
  <1>4. body \in Bodies /\ Finished(body, Params, h, s) /\ Placed(body, Params, h, s, at, frames, locals, Live)
    BY DEF Ready
  <1>5. frames \in Seq(Frame) /\ Len(frames) >= 1
    BY ReadyTypes
  <1>6. Reframed(fs0, frames, Len(frames), wt)
    <2>1. g \in Frame
      BY <1>1, <1>5
    <2>2. g.waiting \in Seq(Nat)
      BY <2>1 DEF Frame
    <2>3. Len(g.waiting) >= 1
      BY <1>3, <2>2
    <2>4. wt \in Seq(Nat)
      BY <1>1, <2>2, <2>3, FrontIs
    <2>5. PICK f : f = [[g EXCEPT !.waiting = wt] EXCEPT !.cleaned = TRUE]
      OBVIOUS
    <2>6. f \in Frame /\ f.waiting = wt /\ f.back = g.back
      BY <2>1, <2>4, <2>5 DEF Frame
    <2>7. fs0 = [frames EXCEPT ![Len(frames)] = f]
      <3>1. PICK L : L = Len(frames)
        OBVIOUS
      <3>2. L \in DOMAIN frames
        BY <1>5, <3>1
      <3>3. fs0 = [[frames EXCEPT ![L] = [g EXCEPT !.waiting = wt]] EXCEPT ![L].cleaned = TRUE]
        BY <1>1, <3>1
      <3>4. PICK g1 : g1 = [g EXCEPT !.waiting = wt]
        OBVIOUS
      <3>5. fs0 = [[frames EXCEPT ![L] = g1] EXCEPT ![L] = [[frames EXCEPT ![L] = g1][L] EXCEPT !.cleaned = TRUE]]
        BY <3>3, <3>4
      <3>6. [frames EXCEPT ![L] = g1][L] = g1
        BY <3>2
      <3>7. fs0 = [[frames EXCEPT ![L] = g1] EXCEPT ![L] = f]
        BY <2>5, <3>4, <3>5, <3>6
      <3> QED
        BY <3>1, <3>7
    <2>8. f.back = frames[Len(frames)].back
      BY <1>1, <2>6
    <2> QED
      BY <1>5, <2>4, <2>6, <2>7, <2>8, ReframedLast
  <1>7. PICK a, fs1, ls1, l1 : a = at /\ fs1 = frames' /\ ls1 = locals' /\ l1 = Live'
    OBVIOUS
  <1>8. /\ Placed(body, Params, h, s, a, frames, locals, Live) /\ (a <= Len(body) => body[a].k = "end")
        /\ frames[Len(frames)].waiting # <<>>
        /\ d = Last(frames[Len(frames)].waiting) /\ wt = Front(frames[Len(frames)].waiting)
        /\ fs1 = Append(fs0, [waiting |-> <<>>, back |-> a, cleaned |-> FALSE]) /\ ls1 = Append(locals, NoNames)
    BY <1>1, <1>3, <1>4, <1>7
  <1>9. Placed(body, Params, h, s, d + 1, fs1, ls1, l1)
    BY ONLY <1>4, <1>6, <1>8, MoveRun
  <1> QED
    BY <1>3, <1>7, <1>9, GoesOn

LEMMA GenEnd ==
  ASSUME EndFunction, GeneratedAsBound
  PROVE  GenInv'
  <1>1. phase' = "done" /\ reads' = reads /\ UNCHANGED <<program, scope, body, bound>>
    BY DEF EndFunction, unitVars, bodyVars
  <1>2. GeneratedAsBound'
    BY <1>1, ReadsStay
  <1> QED
    BY <1>1, <1>2 DEF GenInv

\* The maps the generator leaves a block with.
LEMMA LeaveMaps ==
  ASSUME NEW ls \in Seq(Level), NEW n \in Nat, n >= 1
  PROVE  /\ Len(ls) = n + 1 => /\ Front(ls) \in Seq(Level) /\ Len(Front(ls)) = n
                               /\ \A k \in 1..n : Front(ls)[k] = ls[k]
         /\ Len(ls) = n + 2 => /\ Front(Front(ls)) \in Seq(Level) /\ Len(Front(Front(ls))) = n
                               /\ \A k \in 1..n : Front(Front(ls))[k] = ls[k]
  <1>1. ASSUME NEW q \in Seq(Level), NEW m \in Nat, m >= 1, Len(q) = m + 1
        PROVE  Front(q) \in Seq(Level) /\ Len(Front(q)) = m /\ \A k \in 1..m : Front(q)[k] = q[k]
    <2>1. Len(q) >= 1 /\ Len(q) - 1 = m
      BY <1>1
    <2> QED
      BY <2>1, FrontIs
  <1>2. ASSUME Len(ls) = n + 2
        PROVE  /\ Front(Front(ls)) \in Seq(Level) /\ Len(Front(Front(ls))) = n
               /\ \A k \in 1..n : Front(Front(ls))[k] = ls[k]
    <2>1. PICK q : q = Front(ls)
      OBVIOUS
    <2>2. q \in Seq(Level) /\ Len(q) = n + 1 /\ \A k \in 1..n + 1 : q[k] = ls[k]
      <3>1. n + 1 \in Nat /\ n + 1 >= 1 /\ Len(ls) = (n + 1) + 1
        BY <1>2
      <3> QED
        BY <2>1, <3>1, <1>1
    <2>3. Front(q) \in Seq(Level) /\ Len(Front(q)) = n /\ \A k \in 1..n : Front(q)[k] = q[k]
      BY <2>2, <1>1
    <2>4. \A k \in 1..n : k \in 1..n + 1
      OBVIOUS
    <2> QED
      BY <2>1, <2>2, <2>3, <2>4
  <1> QED
    BY <1>1, <1>2

\* The block that is left, where it was entered, and the place after it.
LEMMA LeavingIs ==
  ASSUME NEW h, NEW s, Ready(h, s), AtEnd, Len(frames) > 1, NEW o, o = Inner(h, at)
  PROVE  /\ o \in 1..Len(body) /\ Len(h[at]) >= 1 /\ o = h[at][Len(h[at])]
         /\ at \in 1..Len(body) /\ body[at].k = "end" /\ Opens(body[o])
         /\ Within(body[o], o, h[at], h[o], s[at], s[o])
         /\ (Loops <=> body[o].k = "for") /\ Opener(at) = o
         /\ h[at + 1] = h[o] /\ s[at + 1] = s[o]
  <1>1. body \in Bodies /\ History(body, Len(body), Params, h, s) /\ h[Len(body) + 1] = <<>>
    BY DEF Ready, Finished
  <1>2. Len(h[at]) >= 1 /\ at \in 1..Len(body) + 1 /\ Len(body) \in Nat /\ at \in Nat
    BY ReadyTypes
  <1>3. h[at] # <<>>
    BY <1>1, <1>2, HistoryTypes
  <1>4. at \in 1..Len(body)
    <2>1. at # Len(body) + 1
      BY <1>1, <1>3
    <2> QED
      BY <1>2, <2>1
  <1>5. body[at].k = "end" /\ at <= Len(body)
    BY <1>4 DEF AtEnd
  <1>6. Nested(body, h, s, at)
    BY <1>1, <1>2, HistoryNested
  <1>7. o \in 1..at - 1 /\ Opens(body[o]) /\ Within(body[o], o, h[at], h[o], s[at], s[o])
    BY <1>3, <1>6 DEF Nested
  <1>8. o \in 1..Len(body)
    BY <1>2, <1>4, <1>7
  <1>9. Opener(at) = o
    BY <1>1, <1>2, <1>3, OpenerIs
  <1>10. Turned(body[at], at, h, s)
    BY <1>1, <1>4, HistoryTurn
  <1>11. h[at + 1] = h[o] /\ s[at + 1] = s[o]
    BY <1>5, <1>10 DEF Turned
  <1>12. o = h[at][Len(h[at])]
    BY <1>3 DEF Inner
  <1>13. Loops <=> body[o].k = "for"
    BY <1>5, <1>9 DEF Loops
  <1> QED
    BY <1>2, <1>4, <1>5, <1>7, <1>8, <1>9, <1>11, <1>12, <1>13

\* The last part of a `for', read in the map of its first part.
LEMMA FoundLast ==
  ASSUME UnitInv, NEW h, NEW s, Ready(h, s), AtEnd, Len(frames) > 1, Loops
  PROVE  GoodRead([at |-> Opener(at), storage |-> Storage(Front(locals), body[Opener(at)].use, bound[Opener(at)])])
  <1>1. PICK o, n, c, maps : /\ o = Inner(h, at) /\ n = body[o].use /\ maps = Front(locals)
                             /\ c = Append(s[o], FirstPart(body[o].x, o))
    OBVIOUS
  <1>2. /\ o \in 1..Len(body) /\ Len(h[at]) >= 1 /\ o = h[at][Len(h[at])]
        /\ Within(body[o], o, h[at], h[o], s[at], s[o])
        /\ body[o].k = "for" /\ Opener(at) = o
    BY <1>1, LeavingIs
  <1>3. body \in Bodies /\ Finished(body, Params, h, s) /\ Placed(body, Params, h, s, at, frames, locals, Live)
    BY DEF Ready
  <1>4. /\ History(body, Len(body), Params, h, s) /\ Len(locals) = Len(s[at]) + 1 /\ locals \in Seq(Level)
        /\ Len(s[at]) \in Nat /\ Len(h[at]) \in Nat /\ Len(body) \in Nat
    BY ReadyTypes
  <1>5. n \in Names /\ body[o].x \in Names /\ body[o] \in AnyItem
    BY <1>1, <1>2, <1>3, ItemTypes
  <1>6. o \in 1..Len(body) + 1 /\ o \in Nat
    BY <1>2, <1>4
  <1>7. s[o] \in Seq(Level) /\ h[o] \in Seq(Nat)
    BY <1>3, <1>4, <1>6, HistoryTypes
  <1>8. PICK f, W : f = FirstPart(body[o].x, o) /\ W = Len(s[o])
    OBVIOUS
  <1>9. f \in Level /\ W \in Nat
    BY <1>5, <1>6, <1>7, <1>8, ScopesTypes
  <1>10. /\ c \in Seq(Level) /\ Len(c) = W + 1 /\ c[W + 1] = f /\ \A l \in 1..W : c[l] = s[o][l]
    BY <1>1, <1>7, <1>8, <1>9
  <1>11. /\ Len(s[at]) = W + 2 /\ s[at][W + 1] = f /\ \A l \in 1..W : s[at][l] = s[o][l]
    BY <1>2, <1>8 DEF Within
  <1>12. \A l \in 1..Len(c) : c[l] = s[at][l]
    <2>1. \A l \in 1..Len(c) : l \in 1..W \/ l = W + 1
      BY <1>9, <1>10
    <2> QED
      BY <2>1, <1>10, <1>11
  <1>13. maps \in Seq(Level) /\ Len(maps) = Len(c) + 1 /\ \A k \in 1..Len(c) + 1 : maps[k] = locals[k]
    <2>1. Len(locals) = (W + 2) + 1 /\ W + 2 \in Nat /\ W + 2 >= 1 /\ Len(c) + 1 = W + 2
      BY <1>4, <1>9, <1>10, <1>11
    <2>2. /\ Front(locals) \in Seq(Level) /\ Len(Front(locals)) = W + 2
          /\ \A k \in 1..W + 2 : Front(locals)[k] = locals[k]
      BY <2>1, <1>4, LeaveMaps
    <2> QED
      BY <1>1, <2>1, <2>2
  <1>14. ASSUME NEW j \in 1..Len(h[at]), frames[j + 1].back # 0
         PROVE  j \in 1..Len(h[o]) /\ h[o][j] = h[at][j]
    <2>1. Resumes(body, h, h[at][j], frames[j + 1].back)
      BY <1>3, <1>14 DEF Placed, GoodFrames
    <2>2. j # Len(h[at])
      BY <1>2, <2>1 DEF Resumes
    <2>3. Len(h[at]) = Len(h[o]) + 1 /\ \A i \in 1..Len(h[o]) : h[at][i] = h[o][i]
      BY <1>2 DEF Within, Adds
    <2>4. j \in 1..Len(h[o])
      <3>1. PICK K : K = Len(h[o])
        OBVIOUS
      <3>2. K \in Nat
        BY <1>7, <3>1
      <3> QED
        BY <2>2, <2>3, <3>1, <3>2
    <2> QED
      BY <2>3, <2>4
  <1>15. Searched(h, s, at, frames, locals, Live, o, n, c, maps)
    <2>1. Len(c) >= 1 /\ Len(c) <= Len(s[at]) /\ Len(c) < Len(s[at])
      BY <1>9, <1>10, <1>11
    <2> QED
      BY <2>1, <1>1, <1>12, <1>13, <1>14 DEF Searched
  <1>16. Innermost(maps, n) = Innermost(c, n) \/ DeclaredLater(o)
    <2>1. c \in Seq(Level) /\ maps \in Seq(Level) /\ o \in 1..Len(body) /\ n \in Names
      BY <1>2, <1>5, <1>10, <1>13
    <2> QED
      BY ONLY <2>1, <1>3, <1>15, FoundInMaps
  <1>17. \/ Storage(maps, n, bound[o]) = DeclarationOf(bound[o])
         \/ DeclaredLater(o)
         \/ Len(bound[o]) = 2 /\ ~PlainImports
    <2>1. c = Looked(body[o], o, s[o]) /\ body[o].use # NONE
      BY <1>1, <1>2, <1>5, SymbolsApart DEF Looked
    <2> QED
      BY <1>1, <1>2, <1>16, <2>1, StorageIs
  <1> QED
    BY <1>1, <1>2, <1>17 DEF GoodRead

LEMMA GenLeave ==
  ASSUME UnitInv, NEW h, NEW s, Ready(h, s), LeaveBlock, GeneratedAsBound
  PROVE  GenInv'
  <1>1. PICK o, bk, K : o = Inner(h, at) /\ bk = frames[Len(frames)].back /\ K = Len(h[at])
    OBVIOUS
  <1>2. Last(frames).back = bk
    BY <1>1 DEF Last
  <1>3. /\ AtEnd /\ phase = "generate" /\ Len(frames) > 1 /\ CodeOnly
        /\ frames' = Front(frames) /\ at' = IF bk # 0 THEN bk ELSE at + 1
        /\ IF Loops
           THEN /\ reads' = reads \cup {[at |-> Opener(at),
                                         storage |-> Storage(Front(locals), body[Opener(at)].use, bound[Opener(at)])]}
                /\ locals' = Front(Front(locals))
           ELSE locals' = Front(locals) /\ reads' = reads
    BY <1>2 DEF LeaveBlock, AtEnd, Read, CodeOnly, unitVars, bodyVars
  <1>4. /\ o \in 1..Len(body) /\ K >= 1 /\ o = h[at][K]
        /\ at \in 1..Len(body) /\ Within(body[o], o, h[at], h[o], s[at], s[o])
        /\ (Loops <=> body[o].k = "for")
        /\ h[at + 1] = h[o] /\ s[at + 1] = s[o]
    BY <1>1, <1>3, LeavingIs
  <1>5. body \in Bodies /\ Finished(body, Params, h, s) /\ Placed(body, Params, h, s, at, frames, locals, Live)
    BY DEF Ready
  <1>6. /\ Len(body) \in Nat /\ K \in Nat /\ Len(frames) = K + 1 /\ History(body, Len(body), Params, h, s)
        /\ locals \in Seq(Level) /\ Len(locals) = Len(s[at]) + 1
    BY <1>1, ReadyTypes
  <1>7. bk # 0 => Resumes(body, h, o, bk)
    <2>1. K \in 1..Len(h[at]) /\ frames[K + 1].back = bk
      BY <1>1, <1>4, <1>6
    <2> QED
      BY <2>1, <1>4, <1>5 DEF Placed, GoodFrames
  <1>8. at' \in 1..Len(body) + 1 /\ h[at'] = h[o]
    <2>1. CASE bk # 0
      BY <1>3, <1>7, <2>1 DEF Resumes
    <2>2. CASE bk = 0
      BY <1>3, <1>4, <1>6, <2>2
    <2> QED
      BY <2>1, <2>2
  <1>9. (s[at'] = s[o] /\ bk = 0) \/ (at' = bk /\ ~Live')
    <2>1. CASE bk # 0
      <3>1. at' = bk /\ (bk <= Len(body) => body[bk].k = "end") /\ body' = body
        BY <1>3, <1>7, <2>1 DEF Resumes, CodeOnly
      <3> QED
        BY <3>1 DEF Live, Generating
    <2>2. CASE bk = 0
      BY <1>3, <1>4, <2>2
    <2> QED
      BY <2>1, <2>2
  <1>10. locals' \in Seq(Level) /\ Len(locals') = Len(s[o]) + 1 /\ \A k \in 1..Len(s[o]) + 1 : locals'[k] = locals[k]
    <2>1. PICK W : W = Len(s[o])
      OBVIOUS
    <2>2. W \in Nat
      <3>1. o \in 1..Len(body) + 1
        BY <1>4, <1>6
      <3>2. Len(s[o]) \in Nat
        BY <1>5, <1>6, <3>1, HistoryTypes
      <3> QED
        BY <2>1, <3>2
    <2>3. W + 1 \in Nat /\ W + 1 >= 1
      BY <2>2
    <2>4. CASE Loops
      <3>1. Len(locals) = (W + 1) + 2
        <4>1. PICK L : L = Len(s[at])
          OBVIOUS
        <4>2. L = W + 2
          BY <1>4, <2>1, <2>4, <4>1 DEF Within
        <4>3. Len(locals) = L + 1
          BY <1>6, <4>1
        <4> QED
          BY <2>2, <4>2, <4>3
      <3>2. /\ Front(Front(locals)) \in Seq(Level) /\ Len(Front(Front(locals))) = W + 1
            /\ \A k \in 1..W + 1 : Front(Front(locals))[k] = locals[k]
        BY <1>6, <2>3, <3>1, LeaveMaps
      <3> QED
        BY <1>3, <2>1, <2>4, <3>2
    <2>5. CASE ~Loops
      <3>1. Len(locals) = (W + 1) + 1
        BY <1>4, <1>6, <2>1, <2>2, <2>5 DEF Within
      <3>2. /\ Front(locals) \in Seq(Level) /\ Len(Front(locals)) = W + 1
            /\ \A k \in 1..W + 1 : Front(locals)[k] = locals[k]
        BY <1>6, <2>3, <3>1, LeaveMaps
      <3> QED
        BY <1>3, <2>1, <2>5, <3>2
    <2> QED
      BY <2>4, <2>5
  <1>11. PICK a, q, fs1, ls1, l1 : a = at /\ q = at' /\ fs1 = frames' /\ ls1 = locals' /\ l1 = Live'
    OBVIOUS
  <1>12. /\ Placed(body, Params, h, s, a, frames, locals, Live)
         /\ q \in 1..Len(body) + 1 /\ ls1 \in Seq(Level)
         /\ Leaves(h, s, a, frames, locals, o, q, fs1, ls1, l1)
    BY <1>1, <1>3, <1>4, <1>5, <1>8, <1>9, <1>10, <1>11 DEF Leaves
  <1>13. Placed(body, Params, h, s, q, fs1, ls1, l1)
    BY ONLY <1>5, <1>12, MoveOut
  <1>14. \A r \in reads' : r \in reads \/ GoodRead(r)
    <2>1. CASE Loops
      BY <1>3, <2>1, FoundLast
    <2>2. CASE ~Loops
      BY <1>3, <2>2
    <2> QED
      BY <2>1, <2>2
  <1> QED
    BY <1>3, <1>11, <1>13, <1>14, GoesOn

\* Nothing is read before the body is generated.
LEMMA NothingRead ==
  ASSUME phase' \notin {"generate"}, at' = 1, reads' = {}
  PROVE  GenInv'
  BY DEF GenInv, GeneratedAsBound

LEMMA GenCheckEnds ==
  ASSUME CheckInv, GenInv, EndCheck
  PROVE  GenInv'
  <1>1. /\ phase = "check" /\ look = NONE /\ Depth(Len(body)) = 0
        /\ phase' = IF errors = {} THEN "generate" ELSE "done"
        /\ locals' = <<Params, NoNames>>
        /\ frames' = <<[waiting |-> <<>>, back |-> 0, cleaned |-> FALSE]>>
        /\ UNCHANGED <<program, errors, scope, body, scopes, bound, at, reads>>
    BY DEF EndCheck, Params, unitVars, bodyVars
  <1>2. at = 1 /\ reads = {}
    BY <1>1 DEF GenInv
  <1>3. CASE errors # {}
    BY <1>1, <1>2, <1>3, NothingRead
  <1>4. CASE errors = {}
    <2>1. body \in Bodies /\ Len(body) = Len(bound) /\ ~AwaitsLookup /\ Len(body) \in Nat
      <3>1. body \in Bodies /\ Len(body) = Len(bound) /\ ~AwaitsLookup
        BY <1>1, <1>4 DEF CheckInv, AwaitsLookup
      <3> QED
        BY <3>1 DEF Bodies
    <2>2. PICK h, s : CheckedAs(body, Len(body), Params, bound, scopes, scope, h, s)
      BY <1>4, <2>1 DEF CheckInv
    <2>3. History(body, Len(body), Params, h, s)
      BY <2>2 DEF CheckedAs
    <2>4. h[Len(body) + 1] = <<>>
      <3>1. Len(body) \in 0..Len(body) /\ Len(body) + 1 \in 1..Len(body) + 1
        BY <2>1
      <3>2. Depth(Len(body)) = Len(h[Len(body) + 1])
        BY <2>1, <2>3, <3>1, DepthIs
      <3> QED
        BY <1>1, <2>1, <2>3, <3>1, <3>2, HistoryTypes
    <2>5. h[1] = <<>> /\ s[1] = <<Params>> /\ 1 \in 1..Len(body) + 1 /\ Params \in Level
      BY <2>1, <2>3 DEF History
    <2>6. PICK fs, ls : fs = frames' /\ ls = locals'
      OBVIOUS
    <2>7. PICK g : g = [waiting |-> <<>>, back |-> 0, cleaned |-> FALSE]
      OBVIOUS
    <2>8. g \in Frame /\ g.waiting = <<>> /\ g.back = 0
      BY <2>7 DEF Frame
    <2>9. fs = <<g>> /\ fs \in Seq(Frame) /\ Len(fs) = 1 /\ fs[1] = g
      BY <1>1, <2>6, <2>7, <2>8
    <2>10. ls = <<Params, NoNames>> /\ ls \in Seq(Level) /\ Len(ls) = 2 /\ ls[1] = Params /\ ls[2] = NoNames
      BY <1>1, <2>5, <2>6, ScopesTypes
    <2>11. Len(h[1]) = 0 /\ Len(s[1]) = 1 /\ s[1][1] = Params
      BY <2>5
    <2>12. GoodFrames(body, h, 1, fs)
      BY <2>5, <2>8, <2>9, <2>11 DEF GoodFrames
    <2>13. GoodMaps(Params, h, s, 1, fs, ls)
      <3>1. \A l \in 1..1 : \A n \in Names : ls[l + 1][n] = NONE
        BY <2>10, ScopesTypes
      <3> QED
        BY <2>10, <2>11, <3>1 DEF GoodMaps
    <2>14. Covered(s, 1, ls, Live')
      <3>1. \A l \in 1..1 : \A n \in Names : Held(ls, l, n, s[1][l][n])
        BY <2>10, <2>11 DEF Held
      <3> QED
        BY <2>11, <3>1 DEF Covered
    <2>15. GoodWaits(body, h, s, 1, fs, ls)
      <3>1. \A i \in 1..Len(fs) : \A k \in 1..Len(fs[i].waiting) : FALSE
        BY <2>8, <2>9
      <3> QED
        BY <3>1 DEF GoodWaits
    <2>16. Placed(body, Params, h, s, at', frames', locals', Live')
      BY <1>1, <1>2, <2>6, <2>12, <2>13, <2>14, <2>15 DEF Placed
    <2>17. Params' = Params
      BY <1>1 DEF Params
    <2>18. Finished(body, Params, h, s)
      BY <2>3, <2>4 DEF Finished
    <2>19. Ready(h, s)'
      BY <1>1, <1>4, <2>1, <2>2, <2>16, <2>17, <2>18 DEF Ready
    <2>20. GeneratedAsBound'
      BY <1>1, <1>2 DEF GeneratedAsBound
    <2> QED
      BY <1>1, <1>4, <2>19, <2>20 DEF GenInv
  <1> QED
    BY <1>3, <1>4

LEMMA GenInit == Init => GenInv
  BY DEF Init, GenInv, GeneratedAsBound

LEMMA GenStep == UnitInv /\ CheckInv /\ GenInv /\ [Next]_vars => GenInv'
  <1> SUFFICES ASSUME UnitInv, CheckInv, GenInv, [Next]_vars PROVE GenInv'
    OBVIOUS
  <1>1. CASE Signatures
    <2>1. phase \in {"names", "imports", "aliases", "check"} /\ phase' # "generate" /\ at' = at /\ reads' = reads
      <3>1. CASE RegisterNames
        BY <3>1 DEF RegisterNames, codeVars
      <3>2. CASE ResolveImports
        BY <3>2 DEF ResolveImports, codeVars
      <3>3. CASE ResolveAlias
        BY <3>3 DEF ResolveAlias, codeVars
      <3>4. CASE FollowAlias
        <4>1. look # NONE /\ phase' = phase /\ at' = at /\ reads' = reads
          BY <3>4 DEF FollowAlias, codeVars
        <4> QED
          BY <4>1 DEF UnitInv, UnitSymbols
      <3>5. CASE BindAlias
        BY <3>5 DEF BindAlias, codeVars
      <3>6. CASE NextUnit
        BY <3>6 DEF NextUnit, codeVars
      <3> QED
        BY <1>1, <3>1, <3>2, <3>3, <3>4, <3>5, <3>6 DEF Signatures
    <2>2. at = 1 /\ reads = {}
      BY <2>1 DEF GenInv
    <2> QED
      BY <2>1, <2>2, NothingRead
  <1>2. CASE CheckBody
    <2>1. ASSUME (\E it \in Items : CheckItem(it) \/ LookUp(it)) \/ BindUse PROVE GenInv'
      <3>1. phase = "check" /\ phase' = phase /\ at' = at /\ reads' = reads
        BY <2>1 DEF CheckItem, LookUp, BindUse, codeVars
      <3>2. at = 1 /\ reads = {}
        BY <3>1 DEF GenInv
      <3> QED
        BY <3>1, <3>2, NothingRead
    <2> QED
      BY <1>2, <2>1, GenCheckEnds DEF CheckBody
  <1>3. CASE Generate
    <2>1. phase = "generate"
      BY <1>3 DEF Generate, SkipDead, GenerateUse, GenerateDeclaration, EnterBlock, RegisterDefer,
                  GenerateReturn, RunDeferred, LeaveBlock, EndFunction, Generating, AtEnd
    <2>2. GeneratedAsBound
      BY DEF GenInv
    <2>3. PICK h, s : Ready(h, s)
      BY <2>1 DEF GenInv
    <2> QED
      BY <1>3, <2>2, <2>3, GenSkip, GenUse, GenDeclare, GenEnter, GenDefer, GenReturn, GenRun, GenLeave, GenEnd
         DEF Generate
  <1>4. CASE UNCHANGED vars
    <2>1. UNCHANGED <<program, phase, look, errors, scope, body, scopes, bound, at, locals, frames, dead, reads>>
      BY <1>4 DEF vars, unitVars, bodyVars, codeVars
    <2>2. GeneratedAsBound'
      BY <2>1, ReadsStay DEF GenInv
    <2>3. ASSUME NEW h, NEW s, Ready(h, s) PROVE Ready(h, s)'
      <3>1. Params' = Params /\ (Live' <=> Live)
        BY <2>1 DEF Params, Live, Generating
      <3>2. Live' = Live
        BY <3>1 DEF Live
      <3> QED
        BY <2>1, <2>3, <3>1, <3>2 DEF Ready
    <2> QED
      BY <2>1, <2>2, <2>3 DEF GenInv
  <1> QED
    BY <1>1, <1>2, <1>3, <1>4 DEF Next

-----------------------------------------------------------------------------
(* The theorems.                                                           *)

NamesInv == UnitInv /\ CheckInv /\ GenInv

\* What the units' symbols, the checker's scopes and the generator's maps and frames
\* always are: symbols are of their units, lead to symbols and carry what the
\* generator will look for; what is checked has a history; and the generator's
\* place, maps and deferred bodies are described by it.
THEOREM NamesInvariant == Spec => []NamesInv
  <1>1. Init => NamesInv
    BY UnitInit, CheckInit, GenInit DEF NamesInv
  <1>2. NamesInv /\ [Next]_vars => NamesInv'
    BY UnitStep, CheckStep, GenStep DEF NamesInv
  <1> QED
    BY <1>1, <1>2, PTL DEF Spec

\* Every use that is generated finds the storage of the declaration it was bound to,
\* but in its own initializer, where a deferred body's block declares the name later,
\* and through imports that rename or pass on: for every program, however deep its
\* blocks and whatever its deferred bodies.
THEOREM StorageAsBound == Spec => []GeneratedAsBound
  <1>1. NamesInv => GeneratedAsBound
    BY DEF NamesInv, GenInv
  <1> QED
    BY <1>1, NamesInvariant, PTL

-----------------------------------------------------------------------------
(* The scopes and the text.                                                *)

\* Induction over positions: each may use all the earlier ones.
LEMMA ByEarlier ==
  ASSUME NEW m \in Nat, NEW T, \A q \in 1..m : (\A r \in 1..q - 1 : r \in T) => q \in T
  PROVE  \A q \in 1..m : q \in T
  <1> SUFFICES ASSUME NEW q \in 1..m, q \notin T PROVE FALSE
    OBVIOUS
  <1>1. PICK D : D = {r \in 1..m : r \notin T}
    OBVIOUS
  <1>2. D \in SUBSET Nat /\ q \in D
    BY <1>1
  <1>3. PICK r \in D : \A y \in D : r <= y
    BY <1>2, LeastNat
  <1>4. r \in 1..m /\ r \notin T /\ \A y \in 1..r - 1 : y \in T
    <2>1. r \in 1..m /\ r \notin T
      BY <1>1
    <2>2. ASSUME NEW y \in 1..r - 1, y \notin T PROVE FALSE
      <3>1. y \in D /\ y < r
        BY <1>1, <2>1, <2>2
      <3>2. r <= y /\ r \in Nat /\ y \in Nat
        BY <1>3, <2>1, <3>1
      <3> QED
        BY <3>1, <3>2
    <2> QED
      BY <2>1, <2>2
  <1> QED
    BY <1>4

\* The blocks around an item are those around its innermost block, and that one.
LEMMA Blocks ==
  ASSUME body \in Bodies, NEW ps, NEW h, NEW s, Finished(body, ps, h, s), NEW q \in 1..Len(body)
  PROVE  /\ h[q] = <<>> => Around(q) = {} /\ Len(s[q]) = 1
         /\ h[q] # <<>> => /\ Inner(h, q) \in 1..q - 1 /\ Opens(body[Inner(h, q)])
                           /\ Around(q) = Around(Inner(h, q)) \cup {Inner(h, q)}
                           /\ Within(body[Inner(h, q)], Inner(h, q), h[q], h[Inner(h, q)], s[q], s[Inner(h, q)])
         /\ Around(q) \subseteq 1..q - 1
  <1>1. Len(body) \in Nat /\ History(body, Len(body), ps, h, s) /\ h[Len(body) + 1] = <<>>
    BY DEF Bodies, Finished
  <1>2. q \in 1..Len(body) + 1 /\ Nested(body, h, s, q) /\ Around(q) = {h[q][j] : j \in 1..Len(h[q])}
    <2>1. q \in 1..Len(body) + 1
      BY <1>1
    <2> QED
      BY <2>1, <1>1, HistoryNested, AroundIs
  <1>3. Around(q) \subseteq 1..q - 1
    BY DEF Around
  <1>4. CASE h[q] = <<>>
    <2>1. Len(h[q]) = 0 /\ Len(s[q]) = 1
      BY <1>2, <1>4, Zenon DEF Nested
    <2>2. Around(q) = {}
      BY <1>2, <2>1
    <2> QED
      BY <1>3, <1>4, <2>1, <2>2
  <1>5. CASE h[q] # <<>>
    <2>1. PICK d : d = Inner(h, q)
      OBVIOUS
    <2>2. d \in 1..q - 1 /\ Opens(body[d]) /\ Within(body[d], d, h[q], h[d], s[q], s[d])
      BY <1>2, <1>5, <2>1 DEF Nested
    <2>3. d \in 1..Len(body) /\ d \in 1..Len(body) + 1
      BY <1>1, <2>2
    <2>4. Around(d) = {h[d][j] : j \in 1..Len(h[d])} /\ Len(h[d]) \in Nat
      BY <1>1, <2>3, AroundIs, HistoryTypes
    <2>5. Len(h[q]) = Len(h[d]) + 1 /\ h[q][Len(h[q])] = d /\ \A j \in 1..Len(h[d]) : h[q][j] = h[d][j]
      BY <2>2 DEF Within, Adds
    <2>6. \A j \in 1..Len(h[q]) : j \in 1..Len(h[d]) \/ j = Len(h[q])
      BY <2>4, <2>5
    <2>7. Len(h[q]) \in 1..Len(h[q]) /\ \A j \in 1..Len(h[d]) : j \in 1..Len(h[q])
      BY <2>4, <2>5
    <2>8. Around(q) = Around(d) \cup {d}
      BY <1>2, <2>4, <2>5, <2>6, <2>7
    <2> QED
      BY <1>3, <1>5, <2>1, <2>2, <2>8
  <1> QED
    BY <1>4, <1>5

\* What is added to a list makes one list.
LEMMA AddsOne ==
  ASSUME NEW a \in Seq(Nat), NEW b \in Seq(Nat), NEW c, Len(c) \in Nat, NEW x, Adds(a, c, x), Adds(b, c, x)
  PROVE  a = b
  <1>1. PICK n : n = Len(c)
    OBVIOUS
  <1>2. /\ n \in Nat /\ Len(a) = n + 1 /\ Len(b) = n + 1 /\ a[n + 1] = x /\ b[n + 1] = x
        /\ \A j \in 1..n : a[j] = c[j] /\ b[j] = c[j]
    BY <1>1 DEF Adds
  <1>3. \A j \in 1..n + 1 : j \in 1..n \/ j = n + 1
    BY <1>2
  <1>4. \A j \in 1..n + 1 : a[j] = b[j]
    BY <1>2, <1>3, Zenon
  <1>5. Len(a) = Len(b) /\ \A j \in 1..Len(a) : a[j] = b[j]
    BY <1>2, <1>4
  <1> QED
    BY ONLY <1>5, a \in Seq(Nat), b \in Seq(Nat), SeqEqual

\* The blocks around an item make up one list.
LEMMA SameAround ==
  ASSUME body \in Bodies, NEW ps, NEW h, NEW s, Finished(body, ps, h, s),
         NEW p \in 1..Len(body), NEW q \in 1..Len(body), Around(p) = Around(q)
  PROVE  h[p] = h[q]
  <1>1. Len(body) \in Nat /\ History(body, Len(body), ps, h, s)
    BY DEF Bodies, Finished
  <1>2. /\ p \in 1..Len(body) + 1 /\ q \in 1..Len(body) + 1
        /\ h[p] \in Seq(Nat) /\ h[q] \in Seq(Nat)
    <2>1. p \in 1..Len(body) + 1 /\ q \in 1..Len(body) + 1
      BY <1>1
    <2> QED
      BY <2>1, <1>1, HistoryTypes
  <1>3. CASE h[p] = <<>> \/ h[q] = <<>>
    BY <1>3, Blocks
  <1>4. CASE h[p] # <<>> /\ h[q] # <<>>
    <2>1. PICK d, e : d = Inner(h, p) /\ e = Inner(h, q)
      OBVIOUS
    <2>2. /\ d \in 1..p - 1 /\ Around(p) = Around(d) \cup {d} /\ Adds(h[p], h[d], d)
          /\ e \in 1..q - 1 /\ Around(q) = Around(e) \cup {e} /\ Adds(h[q], h[e], e)
      BY <1>4, <2>1, Blocks DEF Within
    <2>3. Around(d) \subseteq 1..d - 1 /\ Around(e) \subseteq 1..e - 1
      BY DEF Around
    <2>4. d = e
      <3>1. d = e \/ d \in 1..e - 1
        BY <2>2, <2>3
      <3>2. d = e \/ e \in 1..d - 1
        BY <2>2, <2>3
      <3> QED
        BY <3>1, <3>2, <2>2
    <2>6. Len(h[d]) \in Nat
      <3>1. d \in 1..Len(body) + 1
        BY <1>1, <2>2
      <3> QED
        BY <3>1, <1>1, HistoryTypes
    <2> QED
      BY <1>2, <2>2, <2>4, <2>6, AddsOne
  <1> QED
    BY <1>3, <1>4

\* A block around an item is around what is between.
LEMMA AroundBetween ==
  ASSUME body \in Bodies, NEW ps, NEW h, NEW s, Finished(body, ps, h, s),
         NEW q \in 1..Len(body), NEW d \in Around(q), NEW c \in d + 1..q
  PROVE  d \in Around(c)
  <1>1. Len(body) \in Nat /\ History(body, Len(body), ps, h, s) /\ h[Len(body) + 1] = <<>>
    BY DEF Bodies, Finished
  <1>2. d \in 1..q - 1 /\ Opens(body[d]) /\ EndOf(d) >= q
    BY DEF Around
  <1>3. d \in 1..Len(body)
    BY <1>1, <1>2
  <1>4. EndOf(d) \in d + 1..Len(body)
    BY <1>1, <1>2, <1>3, EndOfIs DEF Ends
  <1>5. d \in 1..c - 1 /\ EndOf(d) >= c
    BY <1>1, <1>2, <1>4
  <1> QED
    BY <1>2, <1>5 DEF Around

\* The scope of a block is empty where the block begins.
LEMMA BlockBegins ==
  ASSUME body \in Bodies, NEW ps, NEW h, NEW s, Finished(body, ps, h, s),
         NEW q \in 1..Len(body), h[q] # <<>>
  PROVE  LET d == Inner(h, q)
         IN  d + 1 \in 1..q /\ h[d + 1] = h[q] /\ Top(s, d + 1) = NoNames
  <1>1. Len(body) \in Nat /\ History(body, Len(body), ps, h, s)
    BY DEF Bodies, Finished
  <1>2. PICK d : d = Inner(h, q)
    OBVIOUS
  <1>3. d \in 1..q - 1 /\ Opens(body[d]) /\ Adds(h[q], h[d], d)
    BY <1>2, Blocks DEF Within
  <1>4. d \in 1..Len(body) /\ d + 1 \in 1..Len(body) + 1 /\ d + 1 \in 1..q /\ q \in 1..Len(body) + 1
    BY <1>1, <1>3
  <1>5. Turned(body[d], d, h, s)
    BY <1>1, <1>4, HistoryTurn
  <1>6. body[d].k # "end" /\ body[d].k # "decl"
    BY <1>3 DEF Opens
  <1>7. Adds(h[d + 1], h[d], d) /\ Widened(s[d + 1], s[d], body[d], d)
    BY <1>3, <1>5, <1>6 DEF Turned
  <1>8. Top(s, d + 1) = NoNames
    <2>1. CASE body[d].k = "for"
      <3>1. Looped(s[d + 1], s[d], body[d].x, d)
        BY <1>7, <2>1 DEF Widened
      <3> QED
        BY <3>1 DEF Looped, Top
    <2>2. CASE body[d].k # "for"
      <3>1. Adds(s[d + 1], s[d], NoNames)
        BY <1>3, <1>6, <1>7, <2>2 DEF Widened
      <3> QED
        BY <3>1 DEF Adds, Top
    <2> QED
      BY <2>1, <2>2
  <1>9. h[d + 1] = h[q]
    <2>1. h[d + 1] \in Seq(Nat) /\ h[q] \in Seq(Nat)
      BY <1>1, <1>4, HistoryTypes
    <2>2. d \in 1..Len(body) + 1
      BY <1>4
    <2>3. Len(h[d]) \in Nat
      BY <1>1, <2>2, HistoryTypes
    <2> QED
      BY <1>3, <1>7, <2>1, <2>3, AddsOne
  <1> QED
    BY <1>2, <1>4, <1>8, <1>9

\* What stands in the scope of the innermost block.
LEMMA TopIs ==
  ASSUME body \in Bodies, NEW ps, NEW h, NEW s, Finished(body, ps, h, s),
         NEW q \in 1..Len(body), NEW n \in Names, Top(s, q)[n] # NONE
  PROVE  \/ h[q] = <<>> /\ Top(s, q)[n] = ps[n]
         \/ \E c \in 1..q - 1 :
              /\ Top(s, q)[n] = <<c>> /\ body[c].k = "decl" /\ body[c].x = n /\ h[c] = h[q]
              /\ h[q] # <<>> => c > Inner(h, q)
  <1>1. Len(body) \in Nat /\ History(body, Len(body), ps, h, s) /\ q \in 1..Len(body) + 1
    BY DEF Bodies, Finished
  <1>2. CASE h[q] = <<>>
    <2>1. h[1] = <<>> /\ Top(s, 1) = ps /\ 1 \in 1..q
      <3>1. h[1] = <<>> /\ s[1] = <<ps>> /\ Len(<<ps>>) = 1 /\ <<ps>>[1] = ps /\ 1 \in 1..q
        BY <1>1 DEF History
      <3> QED
        BY <3>1 DEF Top
    <2>2. Kept(body, h, s, 1, q, n)
      BY <1>1, <1>2, <2>1, SameBlockTop
    <2> QED
      BY <1>2, <2>1, <2>2 DEF Kept
  <1>3. CASE h[q] # <<>>
    <2>1. PICK d : d = Inner(h, q)
      OBVIOUS
    <2>2. d + 1 \in 1..q /\ h[d + 1] = h[q] /\ Top(s, d + 1) = NoNames /\ d \in 1..q - 1
      BY <1>3, <2>1, BlockBegins, Blocks
    <2>3. Kept(body, h, s, d + 1, q, n) /\ Top(s, d + 1)[n] = NONE
      BY <1>1, <2>2, SameBlockTop, ScopesTypes
    <2>4. PICK c \in d + 1..q - 1 : Top(s, q)[n] = <<c>> /\ body[c].k = "decl" /\ body[c].x = n /\ h[c] = h[q]
      BY <2>3 DEF Kept
    <2>5. c \in 1..q - 1 /\ c > d
      BY <2>2
    <2> QED
      BY <2>1, <2>4, <2>5
  <1> QED
    BY <1>2, <1>3

\* what stands for n in the scopes at q is a declaration that reaches q
Visible(ps, s, q) ==
  \A l \in 1..Len(s[q]) : \A n \in Names : s[q][l][n] # NONE =>
    \/ l = 1 /\ s[q][l][n] = ps[n]
    \/ \E c \in 1..q - 1 : /\ s[q][l][n] = <<c>> /\ body[c].k \in {"decl", "for"} /\ body[c].x = n
                           /\ Reaches(c, q)

\* what is declared further in is declared later
Rising(s, q) ==
  \A l \in 1..Len(s[q]), k \in 1..Len(s[q]) : l < k =>
    \A n, x \in Names : \A c, d \in Nat : s[q][l][n] = <<c>> /\ s[q][k][x] = <<d>> => c < d

\* What reaches a block reaches what is in it.
LEMMA ReachesIn ==
  ASSUME NEW q, NEW d, NEW c, Reaches(c, d), c < d, d < q, c \in Nat, d \in Nat, q \in Nat,
         Around(d) \subseteq Around(q)
  PROVE  Reaches(c, q)
  <1>1. c < q /\ c # d
    OBVIOUS
  <1> QED
    BY <1>1 DEF Reaches

\* ps is the scope of parameters
OfParameters(ps) == \A n \in Names : ps[n] \in {<<0>>, NONE}

\* The scopes at an item hold declarations that reach it, the outer ones earlier.
LEMMA ScopesAsWritten ==
  ASSUME body \in Bodies, NEW ps, NEW h, NEW s, Finished(body, ps, h, s),
         OfParameters(ps)
  PROVE  \A q \in 1..Len(body) : Visible(ps, s, q) /\ Rising(s, q)
  <1>1. Len(body) \in Nat /\ History(body, Len(body), ps, h, s)
    BY DEF Bodies, Finished
  <1>2. PICK T : T = {q \in 1..Len(body) : Visible(ps, s, q) /\ Rising(s, q)}
    OBVIOUS
  <1>3. ASSUME NEW q \in 1..Len(body), \A r \in 1..q - 1 : r \in T
        PROVE  Visible(ps, s, q) /\ Rising(s, q)
    <2>1. q \in 1..Len(body) + 1 /\ Len(s[q]) \in Nat /\ Len(s[q]) >= 1 /\ Top(s, q) \in Level
      <3>1. q \in 1..Len(body) + 1
        BY <1>1
      <3> QED
        BY <3>1, <1>1, HistoryTypes, ScopesDeep, TopTypes
    <2>2. \A n \in Names : Top(s, q)[n] # NONE =>
            \/ h[q] = <<>> /\ Top(s, q)[n] = ps[n]
            \/ \E c \in 1..q - 1 :
                 /\ Top(s, q)[n] = <<c>> /\ body[c].k = "decl" /\ body[c].x = n /\ h[c] = h[q] /\ Reaches(c, q)
                 /\ h[q] # <<>> => c > Inner(h, q)
      <3> SUFFICES ASSUME NEW n \in Names, Top(s, q)[n] # NONE, ~(h[q] = <<>> /\ Top(s, q)[n] = ps[n])
                   PROVE \E c \in 1..q - 1 :
                      /\ Top(s, q)[n] = <<c>> /\ body[c].k = "decl" /\ body[c].x = n /\ h[c] = h[q] /\ Reaches(c, q)
                      /\ h[q] # <<>> => c > Inner(h, q)
        OBVIOUS
      <3>1. PICK c \in 1..q - 1 : /\ Top(s, q)[n] = <<c>> /\ body[c].k = "decl" /\ body[c].x = n /\ h[c] = h[q]
                                  /\ h[q] # <<>> => c > Inner(h, q)
        BY TopIs
      <3>2. c \in 1..Len(body) /\ c < q
        BY <1>1
      <3>3. Around(c) = Around(q)
        <4>1. h[Len(body) + 1] = <<>>
          BY DEF Finished
        <4>2. Around(c) = {h[c][j] : j \in 1..Len(h[c])} /\ Around(q) = {h[q][j] : j \in 1..Len(h[q])}
          BY <1>1, <3>2, <4>1, AroundIs
        <4> QED
          BY <3>1, <4>2
      <3>4. Reaches(c, q)
        BY <3>1, <3>2, <3>3 DEF Reaches
      <3> QED
        BY <3>1, <3>4
    <2>3. CASE h[q] = <<>>
      <3>1. Len(s[q]) = 1
        BY <2>3, Blocks
      <3>2. \A l \in 1..Len(s[q]) : l = 1 /\ s[q][l] = Top(s, q)
        BY <3>1 DEF Top
      <3>3. Visible(ps, s, q)
        <4> SUFFICES ASSUME NEW l \in 1..Len(s[q]), NEW n \in Names, s[q][l][n] # NONE, ~(l = 1 /\ s[q][l][n] = ps[n])
                     PROVE \E c \in 1..q - 1 : /\ s[q][l][n] = <<c>> /\ body[c].k \in {"decl", "for"} /\ body[c].x = n
                                               /\ Reaches(c, q)
          BY DEF Visible
        <4>1. l = 1 /\ s[q][l] = Top(s, q)
          BY <3>2
        <4> QED
          BY <4>1, <2>2
      <3>4. Rising(s, q)
        <4>1. \A l, k \in 1..Len(s[q]) : ~(l < k)
          BY <3>1
        <4> QED
          BY <4>1 DEF Rising
      <3> QED
        BY <3>3, <3>4
    <2>4. CASE h[q] # <<>>
      <3>1. PICK d : d = Inner(h, q)
        OBVIOUS
      <3>2. /\ d \in 1..q - 1 /\ Opens(body[d]) /\ Around(q) = Around(d) \cup {d}
            /\ Within(body[d], d, h[q], h[d], s[q], s[d])
        BY <2>4, <3>1, Blocks
      <3>3. Visible(ps, s, d) /\ Rising(s, d) /\ d \in 1..Len(body) /\ d \in 1..Len(body) + 1
        <4>1. d \in 1..Len(body) /\ d \in 1..Len(body) + 1
          BY <1>1, <3>2
        <4> QED
          BY <1>2, <1>3, <3>2, <4>1
      <3>4. Len(s[d]) \in Nat /\ Len(s[d]) >= 1
        BY <1>1, <3>3, HistoryTypes, ScopesDeep
      <3>5. \A l \in 1..Len(s[q]) : \/ l \in 1..Len(s[d]) /\ s[q][l] = s[d][l]
                                    \/ l > Len(s[d]) /\ l < Len(s[q]) /\ body[d].k = "for" /\ s[q][l] = FirstPart(body[d].x, d)
                                    \/ l > Len(s[d]) /\ l = Len(s[q]) /\ s[q][l] = Top(s, q)
        <4>1. Len(s[q]) = Len(s[d]) + (IF body[d].k = "for" THEN 2 ELSE 1)
          BY <3>2 DEF Within
        <4>2. \A l \in 1..Len(s[q]) : l \in 1..Len(s[d]) \/ l = Len(s[q]) \/ (body[d].k = "for" /\ l = Len(s[d]) + 1)
          <5>1. CASE body[d].k = "for"
            <6>1. Len(s[q]) = Len(s[d]) + 2
              BY <5>1, <4>1
            <6> QED
              BY ONLY <5>1, <6>1, <3>4
          <5>2. CASE body[d].k # "for"
            <6>1. Len(s[q]) = Len(s[d]) + 1
              BY <5>2, <4>1
            <6> QED
              BY ONLY <6>1, <3>4
          <5> QED
            BY <5>1, <5>2
        <4>3. Len(s[q]) > Len(s[d]) /\ (body[d].k = "for" => Len(s[d]) + 1 < Len(s[q]) /\ Len(s[d]) + 1 > Len(s[d]))
          <5>1. Len(s[q]) = Len(s[d]) + 2 \/ (Len(s[q]) = Len(s[d]) + 1 /\ body[d].k # "for")
            BY <4>1
          <5> QED
            BY ONLY <5>1, <3>4
        <4>4. \A l \in 1..Len(s[d]) : s[q][l] = s[d][l]
          BY <3>2 DEF Within
        <4>5. body[d].k = "for" => s[q][Len(s[d]) + 1] = FirstPart(body[d].x, d)
          BY <3>2 DEF Within
        <4> QED
          BY ONLY <4>2, <4>3, <4>4, <4>5, <2>1, <3>4 DEF Top
      <3>6. body[d].k = "for" =>
              \A n \in Names : FirstPart(body[d].x, d)[n] = IF n = body[d].x THEN <<d>> ELSE NONE
        <4>1. body[d].k = "for" => body[d].x \in Names
          BY <3>3, ItemTypes
        <4>2. d \in Nat
          BY <3>3
        <4> QED
          BY ONLY <4>1, <4>2, ScopesTypes
      <3>7. \A n \in Names, c \in Nat : \A l \in 1..Len(s[d]) : s[d][l][n] = <<c>> => c < d
        <4> SUFFICES ASSUME NEW n \in Names, NEW c \in Nat, NEW l \in 1..Len(s[d]), s[d][l][n] = <<c>> PROVE c < d
          OBVIOUS
        <4>1. <<c>> # NONE
          BY NoneApart
        <4>2. CASE s[d][l][n] = ps[n]
          <5>1. ps[n] = <<0>>
            BY <4>1, <4>2 DEF OfParameters
          <5>2. c = 0
            BY <5>1, <4>2
          <5> QED
            BY <5>2, <3>2
        <4>3. CASE s[d][l][n] # ps[n]
          <5>1. PICK c1 \in 1..d - 1 : s[d][l][n] = <<c1>>
            BY <4>1, <4>3, <3>3 DEF Visible
          <5>2. c1 = c
            BY <5>1
          <5> QED
            BY <5>1, <5>2, <3>2
        <4> QED
          BY <4>2, <4>3
      <3>8. Visible(ps, s, q)
        <4> SUFFICES ASSUME NEW l \in 1..Len(s[q]), NEW n \in Names, s[q][l][n] # NONE, ~(l = 1 /\ s[q][l][n] = ps[n])
                     PROVE \E c \in 1..q - 1 : /\ s[q][l][n] = <<c>> /\ body[c].k \in {"decl", "for"} /\ body[c].x = n
                                               /\ Reaches(c, q)
          BY DEF Visible
        <4>1. CASE l \in 1..Len(s[d]) /\ s[q][l] = s[d][l]
          <5>1. PICK c \in 1..d - 1 : s[d][l][n] = <<c>> /\ body[c].k \in {"decl", "for"} /\ body[c].x = n /\ Reaches(c, d)
            BY <3>3, <4>1 DEF Visible
          <5>2. c < d /\ d < q /\ c \in Nat /\ d \in Nat /\ q \in Nat /\ c \in 1..q - 1
            BY <3>2, <5>1
          <5>3. Reaches(c, q)
            BY <3>2, <5>1, <5>2, ReachesIn
          <5> QED
            BY <4>1, <5>1, <5>2, <5>3
        <4>2. CASE body[d].k = "for" /\ s[q][l] = FirstPart(body[d].x, d)
          <5>1. body[d].x = n /\ s[q][l][n] = <<d>>
            <6>1. s[q][l][n] = IF n = body[d].x THEN <<d>> ELSE NONE
              BY <3>6, <4>2
            <6> QED
              BY <6>1
          <5>2. Reaches(d, q)
            BY <3>2, <4>2 DEF Reaches
          <5> QED
            BY <3>2, <4>2, <5>1, <5>2
        <4>3. CASE l > Len(s[d]) /\ s[q][l] = Top(s, q)
          BY <2>2, <2>4, <4>3
        <4> QED
          BY <3>5, <4>1, <4>2, <4>3
      <3>9. Rising(s, q)
        <4> SUFFICES ASSUME NEW l \in 1..Len(s[q]), NEW k \in 1..Len(s[q]), l < k, NEW n \in Names, NEW x \in Names,
                            NEW c \in Nat, NEW e \in Nat, s[q][l][n] = <<c>>, s[q][k][x] = <<e>>
                     PROVE c < e
          BY DEF Rising
        <4>1. CASE k \in 1..Len(s[d]) /\ s[q][k] = s[d][k]
          <5>1. l \in 1..Len(s[d]) /\ s[q][l] = s[d][l]
            BY ONLY <4>1, <3>5, <3>4, <2>1, l < k, l \in 1..Len(s[q]), k \in 1..Len(s[q])
          <5> QED
            BY <3>3, <4>1, <5>1 DEF Rising
        <4>2. CASE k > Len(s[d]) /\ k < Len(s[q]) /\ body[d].k = "for" /\ s[q][k] = FirstPart(body[d].x, d)
          <5>1. s[q][k][x] # NONE
            BY NoneApart
          <5>2. FirstPart(body[d].x, d)[x] = <<d>>
            BY <3>6, <4>2, <5>1
          <5>3. e = d
            BY <4>2, <5>2
          <5>4. l \in 1..Len(s[d]) /\ s[q][l] = s[d][l]
            <6>1. Len(s[q]) = Len(s[d]) + 2
              BY <3>2, <4>2 DEF Within
            <6>2. l \in 1..Len(s[d])
              BY ONLY <6>1, <4>2, <3>4, l < k, l \in 1..Len(s[q]), k \in 1..Len(s[q])
            <6> QED
              BY <3>2, <6>2 DEF Within
          <5> QED
            BY <3>7, <5>3, <5>4
        <4>3. CASE k > Len(s[d]) /\ k = Len(s[q]) /\ s[q][k] = Top(s, q)
          <5>1. Top(s, q)[x] = <<e>> /\ Top(s, q)[x] # NONE
            BY <4>3, NoneApart
          <5>2. PICK e1 \in 1..q - 1 : Top(s, q)[x] = <<e1>> /\ e1 > d
            BY <2>2, <2>4, <3>1, <5>1
          <5>3. e > d
            BY <5>1, <5>2
          <5>4. CASE l \in 1..Len(s[d]) /\ s[q][l] = s[d][l]
            <6>1. c < d
              BY <3>7, <5>4
            <6> QED
              BY <6>1, <5>3, <3>2
          <5>5. CASE body[d].k = "for" /\ s[q][l] = FirstPart(body[d].x, d)
            <6>1. FirstPart(body[d].x, d)[n] = <<c>> /\ <<c>> # NONE
              BY <5>5, NoneApart
            <6>2. FirstPart(body[d].x, d)[n] = <<d>>
              BY <3>6, <5>5, <6>1
            <6>3. c = d
              BY <6>1, <6>2
            <6> QED
              BY <5>3, <6>3
          <5>6. l < Len(s[q])
            BY <4>3
          <5> QED
            BY <3>5, <5>4, <5>5, <5>6, <2>1
        <4> QED
          BY <3>5, <4>1, <4>2, <4>3
      <3> QED
        BY <3>8, <3>9
    <2> QED
      BY <2>3, <2>4
  <1>4. \A q \in 1..Len(body) : (\A r \in 1..q - 1 : r \in T) => q \in T
    BY <1>2, <1>3
  <1>5. \A q \in 1..Len(body) : q \in T
    BY ONLY <1>1, <1>4, ByEarlier
  <1> QED
    BY <1>2, <1>5

\* What is declared is found for the rest of its block.
LEMMA DeclaredStays ==
  ASSUME body \in Bodies, NEW ps, NEW h, NEW s, Finished(body, ps, h, s),
         NEW c \in 1..Len(body), NEW q \in 1..Len(body), c < q, h[c] = h[q], body[c].k = "decl"
  PROVE  Top(s, q)[body[c].x] = <<c>>
  <1>1. Len(body) \in Nat /\ History(body, Len(body), ps, h, s)
    BY DEF Bodies, Finished
  <1>2. PICK n : n = body[c].x
    OBVIOUS
  <1>3. /\ n \in Names /\ c \in 1..Len(body) + 1 /\ q \in 1..Len(body) + 1 /\ <<c>> # NONE
    <2>1. c \in 1..Len(body) + 1 /\ q \in 1..Len(body) + 1 /\ c \in Nat
      BY <1>1
    <2> QED
      BY <1>2, <2>1, ItemTypes, NoneApart
  <1>4. s[c] \in Seq(Level) /\ Len(s[c]) \in Nat /\ Len(s[c]) >= 1
    BY <1>1, <1>3, HistoryTypes, ScopesDeep
  <1>5. Turned(body[c], c, h, s)
    BY <1>1, HistoryTurn
  <1>6. body[c].k # "end" /\ ~Opens(body[c])
    BY DEF Opens
  <1>7. h[c + 1] = h[c] /\ DeclaredIn(s[c + 1], s[c], n, c)
    BY <1>2, <1>5, <1>6 DEF Turned, Widened
  <1>8. Top(s, c + 1)[n] = <<c>>
    <2>1. Len(s[c + 1]) = Len(s[c]) /\ s[c + 1][Len(s[c])][n] = <<c>>
      BY <1>3, <1>4, <1>7 DEF DeclaredIn, Level
    <2> QED
      BY <2>1 DEF Top
  <1>9. c + 1 \in 1..q /\ h[c + 1] = h[q]
    BY <1>1, <1>7
  <1>10. Kept(body, h, s, c + 1, q, n)
    BY <1>1, <1>3, <1>9, SameBlockTop
  <1> QED
    BY <1>2, <1>3, <1>8, <1>10 DEF Kept

\* the declaration at c is in the scopes at p
InScope(s, c, p) == \E l \in 1..Len(s[p]) : s[p][l][body[c].x] = <<c>>

\* A declaration that reaches an item is in the scopes there.
LEMMA ReachedIsVisible ==
  ASSUME body \in Bodies, NEW ps, NEW h, NEW s, Finished(body, ps, h, s),
         NEW c \in 1..Len(body), body[c].k \in {"decl", "for"},
         NEW p \in 1..Len(body), c < p, Reaches(c, p)
  PROVE  InScope(s, c, p)
  <1>0. PICK n \in Names : n = body[c].x
    BY ItemTypes
  <1>1. Len(body) \in Nat /\ History(body, Len(body), ps, h, s) /\ h[Len(body) + 1] = <<>>
    BY DEF Bodies, Finished
  <1>2. PICK T : T = {q \in 1..Len(body) : c < q /\ Reaches(c, q) => \E l \in 1..Len(s[q]) : s[q][l][n] = <<c>>}
    OBVIOUS
  <1>3. ASSUME NEW q \in 1..Len(body), \A r \in 1..q - 1 : r \in T, c < q, Reaches(c, q)
        PROVE  \E l \in 1..Len(s[q]) : s[q][l][n] = <<c>>
    <2>1. /\ q \in 1..Len(body) + 1 /\ Len(s[q]) \in Nat /\ Len(s[q]) >= 1
          /\ c \in 1..Len(body) + 1 /\ Len(s[c]) \in Nat /\ Len(s[c]) >= 1 /\ s[c] \in Seq(Level)
      <3>1. q \in 1..Len(body) + 1 /\ c \in 1..Len(body) + 1
        BY <1>1
      <3> QED
        BY <3>1, <1>1, HistoryTypes, ScopesDeep
    <2>2. ASSUME h[c] = h[q], body[c].k = "decl" PROVE Top(s, q)[n] = <<c>>
      <3>1. Top(s, q)[body[c].x] = <<c>>
        BY ONLY body \in Bodies, Finished(body, ps, h, s), <1>3, <2>2, c \in 1..Len(body), q \in 1..Len(body), DeclaredStays
      <3> QED
        BY <1>0, <3>1
    <2>3. ASSUME h[c] = h[q], body[c].k = "decl" PROVE \E l \in 1..Len(s[q]) : s[q][l][n] = <<c>>
      <3>1. Len(s[q]) \in 1..Len(s[q])
        BY <2>1
      <3> QED
        BY <2>2, <2>3, <3>1 DEF Top
    <2>4. CASE h[q] = <<>>
      <3>1. Around(q) = {}
        BY <2>4, Blocks
      <3>2. body[c].k = "decl"
        BY <1>3, <3>1 DEF Reaches
      <3>3. Around(c) = Around(q)
        BY <1>3, <3>1, <3>2 DEF Reaches
      <3> QED
        BY <2>3, <3>2, <3>3, SameAround
    <2>5. CASE h[q] # <<>>
      <3>1. PICK d : d = Inner(h, q)
        OBVIOUS
      <3>2. /\ d \in 1..q - 1 /\ Opens(body[d]) /\ Around(q) = Around(d) \cup {d}
            /\ Within(body[d], d, h[q], h[d], s[q], s[d])
        BY <2>5, <3>1, Blocks
      <3>3. d \in 1..Len(body) /\ d \in 1..Len(body) + 1 /\ d \in T /\ Around(d) \subseteq 1..d - 1 /\ Around(c) \subseteq 1..c - 1
        BY <1>1, <1>3, <3>2 DEF Around
      <3>4. Len(s[d]) \in Nat /\ \A l \in 1..Len(s[d]) : s[q][l] = s[d][l] /\ l \in 1..Len(s[q])
        <4>1. Len(s[d]) \in Nat
          BY <1>1, <3>3, HistoryTypes
        <4>2. Len(s[q]) > Len(s[d]) /\ \A l \in 1..Len(s[d]) : s[q][l] = s[d][l]
          <5>1. Len(s[q]) = Len(s[d]) + 2 \/ Len(s[q]) = Len(s[d]) + 1
            BY <3>2 DEF Within
          <5>2. Len(s[q]) > Len(s[d])
            BY ONLY <5>1, <4>1
          <5> QED
            BY <3>2, <5>2 DEF Within
        <4> QED
          BY <4>1, <4>2, <2>1
      <3>5. ASSUME c < d, Reaches(c, d) PROVE \E l \in 1..Len(s[q]) : s[q][l][n] = <<c>>
        BY <1>2, <3>3, <3>4, <3>5
      <3>6. CASE body[c].k = "for"
        <4>1. c \in Around(q)
          BY <1>3, <3>6 DEF Reaches
        <4>2. CASE c = d
          <5>1. Len(s[q]) = Len(s[d]) + 2 /\ s[q][Len(s[d]) + 1] = FirstPart(n, d)
            BY <1>0, <3>2, <3>6, <4>2 DEF Within
          <5>3. Len(s[d]) + 1 \in 1..Len(s[q])
            BY ONLY <5>1, <3>4
          <5>2. FirstPart(n, d)[n] = <<c>>
            <6>1. d \in Nat /\ n \in Names
              BY <3>3
            <6> QED
              BY <4>2, <6>1, ScopesTypes
          <5> QED
            BY <5>1, <5>2, <5>3
        <4>3. CASE c # d
          <5>1. c \in Around(d) /\ c < d
            BY <3>2, <3>3, <4>1, <4>3
          <5>2. Reaches(c, d)
            BY <3>6, <5>1 DEF Reaches
          <5> QED
            BY <3>5, <5>1, <5>2
        <4> QED
          BY <4>2, <4>3
      <3>7. CASE body[c].k = "decl"
        <4>1. Around(c) \subseteq Around(q) /\ c # d
          BY <1>3, <3>2, <3>7 DEF Reaches, Opens
        <4>2. CASE c < d
          <5>1. d \notin Around(c)
            BY <3>2, <3>3, <4>2
          <5>2. Around(c) \subseteq Around(d)
            BY <3>2, <4>1, <5>1
          <5>3. Reaches(c, d)
            BY <3>7, <4>2, <5>2 DEF Reaches
          <5> QED
            BY <3>5, <4>2, <5>3
        <4>3. CASE d < c
          <5>1. c \in d + 1..q /\ d \in Around(q)
            BY <1>3, <3>2, <4>3
          <5>2. \A e \in Around(q) : e \in Around(c)
            <6> SUFFICES ASSUME NEW e \in Around(q) PROVE e \in Around(c)
              OBVIOUS
            <6>1. e \in Nat /\ e <= d
              BY <3>2, <3>3
            <6>2. c \in e + 1..q
              BY <3>2, <5>1, <6>1
            <6> QED
              BY <6>2, AroundBetween
          <5>3. Around(c) = Around(q)
            BY <4>1, <5>2
          <5> QED
            BY <2>3, <3>7, <5>3, SameAround
        <4> QED
          BY <3>2, <4>1, <4>2, <4>3
      <3> QED
        BY <3>6, <3>7
    <2> QED
      BY <2>4, <2>5
  <1>4. \A q \in 1..Len(body) : (\A r \in 1..q - 1 : r \in T) => q \in T
    BY <1>2, <1>3
  <1>5. \A q \in 1..Len(body) : q \in T
    BY ONLY <1>1, <1>4, ByEarlier
  <1>6. \E l \in 1..Len(s[p]) : s[p][l][n] = <<c>>
    BY <1>2, <1>5
  <1> QED
    BY <1>0, <1>6 DEF InScope

\* only declarations and the first parts of loops name something
OnlyDeclarations == \A d \in 1..Len(body) : body[d].x # NONE => body[d].k \in {"decl", "for"}

\* the declarations in the body that reach the use of the item at p
LocalDeclarations(p) == {d \in 1..p : Declares(d, body[p].use) /\ Reaches(d, p)}

\* Greatest numbers.
LEMMA GreatestIs ==
  ASSUME NEW S, S \subseteq Nat, NEW x \in S, \A y \in S : y <= x
  PROVE  Max(S) = x
  <1>1. \A y \in S : x >= y
    OBVIOUS
  <1>2. Max(S) \in S /\ \A y \in S : Max(S) >= y
    BY <1>1, Zenon DEF Max
  <1>3. Max(S) \in Nat /\ x \in Nat /\ Max(S) >= x /\ Max(S) <= x
    BY <1>2
  <1> QED
    BY <1>3

\* A set of positions that is not empty has a greatest.
LEMMA GreatestOf ==
  ASSUME NEW p \in Nat, NEW S, S \subseteq 1..p, S # {}
  PROVE  Max(S) \in Nat
  <1>1. PICK T : T = {k \in Nat : k <= p /\ p - k \in S}
    OBVIOUS
  <1>2. PICK y \in S : TRUE
    OBVIOUS
  <1>3. p - y \in Nat /\ p - (p - y) = y /\ p - y <= p
    BY <1>2
  <1>4. T \in SUBSET Nat /\ p - y \in T
    BY <1>1, <1>2, <1>3
  <1>5. PICK k \in T : \A j \in T : k <= j
    BY <1>4, LeastNat
  <1>6. k \in Nat /\ p - k \in S
    BY <1>1
  <1>7. ASSUME NEW z \in S PROVE z <= p - k
    <2>1. z \in 1..p
      OBVIOUS
    <2>2. p - z \in Nat /\ p - (p - z) = z /\ p - z <= p
      BY <2>1
    <2>3. p - z \in T
      BY <1>1, <2>2
    <2>4. k <= p - z
      BY <1>5, <2>3
    <2> QED
      BY <1>6, <2>1, <2>4
  <1>8. S \subseteq Nat
    OBVIOUS
  <1>9. Max(S) = p - k
    BY <1>6, <1>7, <1>8, GreatestIs
  <1> QED
    BY <1>6, <1>8, <1>9

\* A chain of scopes gives the nearest declaration, or the parameter.
LEMMA MeaningAsWritten ==
  ASSUME body \in Bodies, NEW h, NEW s, Finished(body, Params, h, s), OnlyDeclarations,
         NEW p \in 1..Len(body), NEW n \in Names, body[p].use = n
  PROVE  /\ LocalDeclarations(p) # {} => Innermost(Looked(body[p], p, s[p]), n) = <<Max(LocalDeclarations(p))>>
         /\ LocalDeclarations(p) = {} => Innermost(Looked(body[p], p, s[p]), n) = Params[n]
  <1>1. Len(body) \in Nat /\ History(body, Len(body), Params, h, s)
    BY DEF Bodies, Finished
  <1>2. /\ p \in 1..Len(body) + 1 /\ p \in Nat /\ s[p] \in Seq(Level) /\ Len(s[p]) \in Nat /\ Len(s[p]) >= 1
        /\ body[p] \in AnyItem /\ (body[p].k \in {"decl", "for"} => body[p].x \in Names)
    <2>1. p \in 1..Len(body) + 1 /\ p \in Nat
      BY <1>1
    <2> QED
      BY <2>1, <1>1, HistoryTypes, ScopesDeep, ItemTypes
  <1>3. PICK D, c, L : D = LocalDeclarations(p) /\ c = Looked(body[p], p, s[p]) /\ L = Len(s[p])
    OBVIOUS
  <1>4. c \in Seq(Level) /\ Len(c) \in Nat
    <2>1. c \in Seq(Level)
      BY <1>2, <1>3, LookedTypes
    <2> QED
      BY <2>1
  <1>5. /\ L \in Nat /\ L >= 1 /\ L <= Len(c) /\ \A l \in 1..L : c[l] = s[p][l]
        /\ body[p].k # "for" => Len(c) = L
        /\ body[p].k = "for" => Len(c) = L + 1 /\ c[L + 1][n] = IF n = body[p].x THEN <<p>> ELSE NONE
    <2>1. CASE body[p].k = "for"
      <3>1. c = Append(s[p], FirstPart(body[p].x, p))
        BY <1>3, <2>1 DEF Looked
      <3>2. Len(c) = L + 1 /\ c[L + 1] = FirstPart(body[p].x, p) /\ \A l \in 1..L : c[l] = s[p][l]
        BY <1>2, <1>3, <3>1
      <3>3. FirstPart(body[p].x, p)[n] = IF n = body[p].x THEN <<p>> ELSE NONE
        BY <1>2, <2>1, ScopesTypes
      <3> QED
        BY <1>2, <1>3, <2>1, <3>2, <3>3
    <2>2. CASE body[p].k # "for"
      <3>1. c = s[p]
        BY <1>3, <2>2 DEF Looked
      <3> QED
        BY <1>2, <1>3, <2>2, <3>1
    <2> QED
      BY <2>1, <2>2
  <1>6. /\ Visible(Params, s, p) /\ Rising(s, p)
        /\ \A x \in Names : Params[x] \in {<<0>>, NONE}
    BY ParamsTypes, ScopesAsWritten DEF OfParameters
  <1>7. D \subseteq 1..p /\ \A d \in D : body[d].x = n /\ body[d].k \in {"decl", "for"} /\ Reaches(d, p)
    <2>1. \A d \in D : d \in 1..p /\ body[d].x = n /\ Reaches(d, p)
      BY <1>3 DEF LocalDeclarations, Declares
    <2>2. n # NONE
      BY SymbolsApart
    <2>3. \A d \in 1..p : d \in 1..Len(body)
      BY <1>1
    <2> QED
      BY <2>1, <2>2, <2>3 DEF OnlyDeclarations
  <1>8. \A l \in 1..L : c[l][n] # NONE => \/ l = 1 /\ c[l][n] = Params[n]
                                          \/ \E d \in D : d < p /\ c[l][n] = <<d>>
    <2> SUFFICES ASSUME NEW l \in 1..L, c[l][n] # NONE, ~(l = 1 /\ c[l][n] = Params[n])
                 PROVE \E d \in D : d < p /\ c[l][n] = <<d>>
      OBVIOUS
    <2>1. PICK d \in 1..p - 1 : s[p][l][n] = <<d>> /\ body[d].x = n /\ Reaches(d, p)
      BY <1>3, <1>5, <1>6 DEF Visible
    <2>2. d \in 1..p /\ d < p
      BY <1>2
    <2>3. d \in D
      BY <1>3, <2>1, <2>2 DEF LocalDeclarations, Declares
    <2> QED
      BY <1>5, <2>1, <2>2, <2>3
  <1>9. body[p].k = "for" /\ c[L + 1][n] # NONE => c[L + 1][n] = <<p>> /\ p \in D
    <2> SUFFICES ASSUME body[p].k = "for", c[L + 1][n] # NONE PROVE c[L + 1][n] = <<p>> /\ p \in D
      OBVIOUS
    <2>1. n = body[p].x /\ c[L + 1][n] = <<p>>
      BY <1>5
    <2>2. p \in 1..p /\ Reaches(p, p)
      BY <1>2 DEF Reaches
    <2> QED
      BY <1>3, <2>1, <2>2 DEF LocalDeclarations, Declares
  <1>10. \A l \in 1..Len(c) : l \in 1..L \/ (body[p].k = "for" /\ l = L + 1)
    <2>1. CASE body[p].k = "for"
      BY <1>5, <2>1
    <2>2. CASE body[p].k # "for"
      BY <1>5, <2>2
    <2> QED
      BY <2>1, <2>2
  <1>11. \A l \in 1..Len(c) : c[l][n] # NONE => \/ l = 1 /\ c[l][n] = Params[n]
                                               \/ \E d \in D : c[l][n] = <<d>>
    BY <1>8, <1>9, <1>10
  <1>12. \A d \in D : \E l \in 1..Len(c) : c[l][n] = <<d>>
    <2> SUFFICES ASSUME NEW d \in D PROVE \E l \in 1..Len(c) : c[l][n] = <<d>>
      OBVIOUS
    <2>1. d \in 1..Len(body) /\ d \in 1..p /\ body[d].x = n /\ body[d].k \in {"decl", "for"} /\ Reaches(d, p)
      <3>1. d \in 1..p /\ body[d].x = n /\ body[d].k \in {"decl", "for"} /\ Reaches(d, p)
        BY <1>7
      <3> QED
        BY <1>1, <3>1
    <2>2. CASE d < p
      <3>1. PICK l \in 1..L : s[p][l][n] = <<d>>
        <4>1. PICK ps : ps = Params
          OBVIOUS
        <4>2. Finished(body, ps, h, s)
          BY <4>1
        <4>3. InScope(s, d, p)
          BY <2>1, <2>2, <4>2, ReachedIsVisible
        <4> QED
          BY <1>3, <2>1, <4>3 DEF InScope
      <3>2. c[l] = s[p][l] /\ l \in 1..Len(c)
        BY <1>4, <1>5
      <3> QED
        BY <3>1, <3>2
    <2>3. CASE d = p
      <3>1. body[p].k = "for"
        BY <1>2, <2>1, <2>3 DEF Reaches
      <3>2. Len(c) = L + 1 /\ c[L + 1][n] = <<d>>
        BY <1>5, <2>1, <2>3, <3>1
      <3>3. L + 1 \in 1..Len(c)
        BY <1>5, <3>2
      <3> QED
        BY <3>2, <3>3
    <2> QED
      BY <1>2, <2>1, <2>2, <2>3
  <1>13. \A l, k \in 1..Len(c) : \A d, e \in D : l < k /\ c[l][n] = <<d>> /\ c[k][n] = <<e>> => d < e
    <2> SUFFICES ASSUME NEW l \in 1..Len(c), NEW k \in 1..Len(c), NEW d \in D, NEW e \in D,
                        l < k, c[l][n] = <<d>>, c[k][n] = <<e>>
                 PROVE  d < e
      OBVIOUS
    <2>1. d \in Nat /\ e \in Nat /\ d >= 1 /\ e >= 1 /\ <<d>> # NONE /\ <<e>> # NONE
      <3>1. d \in Nat /\ e \in Nat /\ d >= 1 /\ e >= 1
        BY <1>7
      <3> QED
        BY <3>1, NoneApart
    <2>2. l \in 1..L
      BY <1>5, <1>10
    <2>3. CASE k \in 1..L
      <3>1. s[p][l][n] = <<d>> /\ s[p][k][n] = <<e>> /\ l \in 1..Len(s[p]) /\ k \in 1..Len(s[p])
        BY <1>3, <1>5, <2>2, <2>3
      <3> QED
        BY <1>6, <2>1, <3>1 DEF Rising
    <2>4. CASE body[p].k = "for" /\ k = L + 1
      <3>1. e = p
        <4>1. c[k][n] = <<p>>
          BY <1>9, <2>1, <2>4
        <4> QED
          BY <4>1
      <3>2. CASE c[l][n] = Params[n]
        <4>1. <<d>> = <<0>>
          BY <1>6, <2>1, <3>2
        <4>2. d = 0
          BY <4>1
        <4> QED
          BY <2>1, <4>2
      <3>3. CASE c[l][n] # Params[n]
        <4>1. PICK d1 \in D : d1 < p /\ c[l][n] = <<d1>>
          BY <1>8, <2>1, <2>2, <3>3
        <4>2. d1 = d
          BY <4>1
        <4> QED
          BY <3>1, <4>1, <4>2
      <3> QED
        BY <3>2, <3>3
    <2> QED
      BY <1>10, <2>3, <2>4
  <1>14. /\ (\A l \in 1..Len(c) : c[l][n] = NONE) => Innermost(c, n) = NONE
         /\ \A l \in 1..Len(c) : c[l][n] # NONE /\ (\A k \in l + 1..Len(c) : c[k][n] = NONE)
                                   => Innermost(c, n) = c[l][n]
         /\ \/ \A l \in 1..Len(c) : c[l][n] = NONE
            \/ \E l \in 1..Len(c) : c[l][n] # NONE /\ \A k \in l + 1..Len(c) : c[k][n] = NONE
    BY <1>4, InnermostIs
  <1>15. CASE \A l \in 1..Len(c) : c[l][n] = NONE
    <2>1. D = {}
      <3>1. \A d \in D : d \in Nat
        BY <1>7
      <3>2. \A d \in D : <<d>> # NONE
        BY <3>1, NoneApart
      <3> QED
        BY <1>12, <1>15, <3>2
    <2>2. Params[n] = NONE
      <3>1. 1 \in 1..L /\ 1 \in 1..Len(c)
        BY <1>4, <1>5
      <3>2. s[p][1][n] = NONE
        BY <1>5, <1>15, <3>1
      <3> QED
        BY <1>1, <1>2, <3>2, ParametersStay
    <2> QED
      BY <1>3, <1>14, <1>15, <2>1, <2>2
  <1>16. ASSUME NEW l \in 1..Len(c), c[l][n] # NONE, \A k \in l + 1..Len(c) : c[k][n] = NONE
         PROVE  /\ D # {} => Innermost(c, n) = <<Max(D)>>
                /\ D = {} => Innermost(c, n) = Params[n]
    <2>1. Innermost(c, n) = c[l][n]
      BY <1>14, <1>16
    <2>2. ASSUME NEW d \in D, NEW k \in 1..Len(c), c[k][n] = <<d>> PROVE k <= l /\ d \in Nat /\ d >= 1
      <3>1. d \in Nat /\ d >= 1
        BY <1>7
      <3>2. <<d>> # NONE
        BY <3>1, NoneApart
      <3>3. k \notin l + 1..Len(c)
        BY <1>16, <2>2, <3>2
      <3> QED
        BY <1>4, <3>1, <3>3
    <2>3. ASSUME NEW d0 \in D PROVE Innermost(c, n) = <<Max(D)>>
      <3>1. PICK e \in D : c[l][n] = <<e>>
        <4>1. CASE l = 1 /\ c[l][n] = Params[n]
          <5>1. PICK k \in 1..Len(c) : c[k][n] = <<d0>>
            BY <1>12, <2>3
          <5>2. k = l
            BY <2>2, <4>1, <5>1
          <5> QED
            BY <2>3, <5>1, <5>2
        <4> QED
          BY <1>11, <1>16, <4>1
      <3>2. ASSUME NEW d \in D PROVE d <= e
        <4>1. PICK k \in 1..Len(c) : c[k][n] = <<d>>
          BY <1>12
        <4>2. k <= l /\ d \in Nat /\ e \in Nat
          BY <2>2, <3>1, <4>1
        <4>3. CASE k = l
          <5>1. d = e
            BY <3>1, <4>1, <4>3
          <5> QED
            BY <4>2, <5>1
        <4>4. CASE k < l
          BY <1>13, <3>1, <4>1, <4>2, <4>4
        <4> QED
          BY <4>2, <4>3, <4>4
      <3>3. D \subseteq Nat
        BY <1>7
      <3>4. Max(D) = e
        BY <3>2, <3>3, GreatestIs
      <3> QED
        BY <2>1, <3>1, <3>4
    <2>4. D = {} => Innermost(c, n) = Params[n]
      BY <1>11, <1>16, <2>1
    <2> QED
      BY <2>3, <2>4
  <1> QED
    BY <1>3, <1>14, <1>15, <1>16

\* No scope of an accepted body declares a name twice.
LEMMA NoneTwice ==
  ASSUME body \in Bodies, NEW h, NEW s, Finished(body, Params, h, s)
  PROVE  ~Twice
  <1>1. Len(body) \in Nat /\ History(body, Len(body), Params, h, s) /\ DOMAIN body = 1..Len(body)
    BY DEF Bodies, Finished
  <1>2. SUFFICES ASSUME NEW d \in 1..Len(body), body[d].k = "decl",
                        \/ Around(d) = {} /\ body[d].x \in Range(program.params)
                        \/ \E c \in 1 .. d - 1 : body[c].k = "decl" /\ body[c].x = body[d].x /\ Around(c) = Around(d)
                 PROVE FALSE
    BY <1>1 DEF Twice
  <1>3. d \in 1..Len(body) + 1 /\ d \in Nat /\ body[d].x \in Names
    BY <1>1, <1>2, ItemTypes
  <1>4. Turned(body[d], d, h, s)
    BY <1>1, HistoryTurn
  <1>5. Top(s, d)[body[d].x] = NONE
    BY <1>2, <1>4 DEF Turned, Widened, DeclaredIn, Top
  <1>6. CASE Around(d) = {} /\ body[d].x \in Range(program.params)
    <2>1. h[d] = <<>>
      BY <1>6, Blocks
    <2>2. Top(s, d) = s[d][1]
      BY <2>1, Blocks DEF Top
    <2>3. Params[body[d].x] = <<0>> /\ <<0>> # NONE
      BY <1>3, <1>6, NoneApart DEF Params
    <2>4. s[d][1][body[d].x] = <<0>>
      <3>1. PICK x : x = body[d].x
        OBVIOUS
      <3>2. x \in Names /\ Params[x] # NONE
        BY <1>3, <2>3, <3>1
      <3>3. \A q \in 1..Len(body) + 1 : s[q][1][x] = Params[x]
        BY ONLY body \in Bodies, <1>1, <3>2, ParametersStay
      <3> QED
        BY <1>3, <2>3, <3>1, <3>3
    <2> QED
      BY <1>5, <2>2, <2>3, <2>4
  <1>7. ASSUME NEW c \in 1..d - 1, body[c].k = "decl", body[c].x = body[d].x, Around(c) = Around(d) PROVE FALSE
    <2>1. c \in 1..Len(body) /\ c < d /\ c \in Nat
      BY <1>1, <1>3
    <2>2. h[c] = h[d]
      BY <1>7, <2>1, SameAround
    <2>3. Top(s, d)[body[c].x] = <<c>>
      <3>1. PICK ps : ps = Params
        OBVIOUS
      <3>2. Finished(body, ps, h, s)
        BY <3>1
      <3> QED
        <4>1. c \in 1..Len(body) /\ c < d /\ body[c].k = "decl"
          BY <1>7, <2>1
        <4> QED
          BY <3>2, <4>1, <2>2, DeclaredStays
    <2>4. <<c>> # NONE
      BY <2>1, NoneApart
    <2> QED
      BY <1>5, <1>7, <2>3, <2>4
  <1> QED
    BY <1>2, <1>6, <1>7

\* what every body is, accepted or not
BodyInv ==
  /\ body \in Seq(AnyItem) /\ OnlyDeclarations
  /\ phase \in {"generate", "done"} => Depth(Len(body)) = 0

\* BodyInv is inductive.
LEMMA BodyInit == Init => BodyInv
  <1> SUFFICES ASSUME Init PROVE BodyInv
    OBVIOUS
  <1>1. body = <<>> /\ phase = "names"
    BY DEF Init
  <1>2. body \in Seq(AnyItem) /\ Len(body) = 0
    BY <1>1
  <1>3. OnlyDeclarations
    BY <1>2 DEF OnlyDeclarations
  <1> QED
    BY <1>1, <1>2, <1>3 DEF BodyInv

\* A new item is one of the items.
LEMMA BodyGrows ==
  ASSUME UnitInv, BodyInv, NEW it \in Items, body' = Append(body, it), phase' = "check"
  PROVE  BodyInv'
  <1>1. it \in AnyItem /\ (it.x # NONE => it.k \in {"decl", "for"})
    <2>1. it \in AnyItem
      BY ItemsTypes DEF UnitInv, UnitTypes
    <2> QED
      BY <2>1 DEF Items
  <1>2. body' \in Seq(AnyItem) /\ Len(body') = Len(body) + 1 /\ Len(body) \in Nat
        /\ body'[Len(body) + 1] = it /\ \A d \in 1..Len(body) : body'[d] = body[d]
    BY <1>1 DEF BodyInv
  <1>3. \A d \in 1..Len(body') : d \in 1..Len(body) \/ d = Len(body) + 1
    BY <1>2
  <1>4. OnlyDeclarations'
    BY <1>1, <1>2, <1>3 DEF OnlyDeclarations, BodyInv
  <1> QED
    BY <1>2, <1>4 DEF BodyInv

LEMMA BodyStays ==
  ASSUME BodyInv, body' = body, phase' \in {"generate", "done"} => Depth(Len(body)) = 0
  PROVE  BodyInv'
  <1>1. OnlyDeclarations'
    BY DEF BodyInv, OnlyDeclarations
  <1>2. Depth(Len(body))' = Depth(Len(body))
    BY DEF Depth
  <1> QED
    BY <1>1, <1>2 DEF BodyInv

LEMMA BodyStep == UnitInv /\ BodyInv /\ [Next]_vars => BodyInv'
  <1> SUFFICES ASSUME UnitInv, BodyInv, [Next]_vars PROVE BodyInv'
    OBVIOUS
  <1>1. CASE Signatures
    <2>1. body' = body
      BY <1>1 DEF Signatures, RegisterNames, ResolveImports, ResolveAlias, FollowAlias, BindAlias, NextUnit, bodyVars
    <2>2. CASE FollowAlias
      <3>1. phase' = phase
        BY <2>2 DEF FollowAlias
      <3> QED
        BY <2>1, <3>1, BodyStays DEF BodyInv
    <2>3. CASE RegisterNames \/ ResolveImports \/ ResolveAlias \/ BindAlias \/ NextUnit
      <3>1. phase' \notin {"generate", "done"}
        BY <2>3 DEF RegisterNames, ResolveImports, ResolveAlias, BindAlias, NextUnit
      <3> QED
        BY <2>1, <3>1, BodyStays
    <2> QED
      BY <1>1, <2>2, <2>3 DEF Signatures
  <1>2. CASE CheckBody
    <2>1. ASSUME NEW it \in Items, CheckItem(it) \/ LookUp(it) PROVE BodyInv'
      <3>1. body' = Append(body, it) /\ phase' = "check"
        BY <2>1 DEF CheckItem, LookUp
      <3> QED
        BY <3>1, BodyGrows
    <2>2. ASSUME BindUse PROVE BodyInv'
      <3>1. body' = body /\ phase' = phase
        BY <2>2 DEF BindUse
      <3> QED
        BY <3>1, BodyStays DEF BodyInv
    <2>3. ASSUME EndCheck PROVE BodyInv'
      <3>1. body' = body /\ Depth(Len(body)) = 0
        BY <2>3 DEF EndCheck, bodyVars
      <3> QED
        BY <3>1, BodyStays
    <2> QED
      BY <1>2, <2>1, <2>2, <2>3 DEF CheckBody
  <1>3. CASE Generate
    <2>1. phase = "generate" /\ body' = body
      <3>1. CASE EndFunction \/ LeaveBlock \/ RunDeferred
        BY <3>1 DEF EndFunction, LeaveBlock, RunDeferred, AtEnd, bodyVars
      <3>2. CASE SkipDead \/ GenerateUse \/ GenerateDeclaration \/ EnterBlock \/ RegisterDefer \/ GenerateReturn
        BY <3>2 DEF SkipDead, GenerateUse, GenerateDeclaration, EnterBlock, RegisterDefer, GenerateReturn,
                    Generating, bodyVars
      <3> QED
        BY <1>3, <3>1, <3>2 DEF Generate
    <2> QED
      BY <2>1, BodyStays DEF BodyInv
  <1>4. CASE UNCHANGED vars
    <2>1. body' = body /\ phase' = phase
      BY <1>4 DEF vars, bodyVars
    <2> QED
      BY <2>1, BodyStays DEF BodyInv
  <1> QED
    BY <1>1, <1>2, <1>3, <1>4 DEF Next

\* In an accepted program a name is declared once in each scope; a use that local
\* declarations reach is bound to the nearest, or to the parameter, and any other
\* to a variable that is visible in the body's unit.
LocalsAsWritten ==
  phase \in {"generate", "done"} /\ errors = {} =>
    /\ ~Twice
    /\ \A p \in Uses :
         IF LocalDeclarations(p) # {} \/ body[p].use \in Range(program.params)
         THEN DeclarationOf(bound[p]) = Written(p)
         ELSE bound[p] \in Pointers /\ Symbol(bound[p]) # NONE /\ Symbol(bound[p]).kind = "variable"

\* What has been checked has a history, and a history is as written.
LEMMA LocalsChecked ==
  ASSUME UnitInv, CheckInv, BodyInv
  PROVE  LocalsAsWritten
  <1> SUFFICES ASSUME phase \in {"generate", "done"}, errors = {}
               PROVE  /\ ~Twice
                      /\ \A p \in Uses :
                           IF LocalDeclarations(p) # {} \/ body[p].use \in Range(program.params)
                           THEN DeclarationOf(bound[p]) = Written(p)
                           ELSE bound[p] \in Pointers /\ Symbol(bound[p]) # NONE /\ Symbol(bound[p]).kind = "variable"
    BY DEF LocalsAsWritten
  <1>1. body \in Bodies /\ Len(body) = Len(bound) /\ Len(body) \in Nat /\ DOMAIN body = 1..Len(body)
    <2>1. body \in Bodies /\ Len(body) = Len(bound)
      BY DEF CheckInv, AwaitsLookup
    <2> QED
      BY <2>1 DEF Bodies
  <1>2. PICK h, s : CheckedAs(body, Len(body), Params, bound, scopes, scope, h, s)
    BY <1>1 DEF CheckInv
  <1>3. Finished(body, Params, h, s)
    <2>1. History(body, Len(body), Params, h, s)
      BY <1>2 DEF CheckedAs
    <2>2. Len(body) \in 0..Len(body) /\ Len(body) + 1 \in 1..Len(body) + 1
      BY <1>1
    <2>3. Depth(Len(body)) = Len(h[Len(body) + 1])
      BY <1>1, <2>1, <2>2, DepthIs
    <2>4. h[Len(body) + 1] = <<>>
      BY <1>1, <2>1, <2>2, <2>3, HistoryTypes DEF BodyInv
    <2> QED
      BY <2>1, <2>4 DEF Finished
  <1>4. ~Twice
    BY <1>1, <1>3, NoneTwice
  <1>5. ASSUME NEW p \in Uses
        PROVE  IF LocalDeclarations(p) # {} \/ body[p].use \in Range(program.params)
               THEN DeclarationOf(bound[p]) = Written(p)
               ELSE bound[p] \in Pointers /\ Symbol(bound[p]) # NONE /\ Symbol(bound[p]).kind = "variable"
    <2>1. PICK n : n = body[p].use
      OBVIOUS
    <2>2. p \in 1..Len(body) /\ n \in Names
      <3>1. p \in 1..Len(body) /\ n # NONE
        BY <1>1, <2>1 DEF Uses
      <3> QED
        BY <1>1, <2>1, <3>1, ItemTypes
    <2>3. PICK v : v = Innermost(Looked(body[p], p, s[p]), n)
      OBVIOUS
    <2>4. MeaningIn(scope, Looked(body[p], p, s[p]), n, bound[p])
      BY <1>2, <2>1, <2>2 DEF CheckedAs, Uses
    <2>5. OnlyDeclarations
      BY DEF BodyInv
    <2>6. /\ LocalDeclarations(p) # {} => v = <<Max(LocalDeclarations(p))>>
          /\ LocalDeclarations(p) = {} => v = Params[n]
      BY <1>1, <1>3, <2>1, <2>2, <2>3, <2>5, MeaningAsWritten
    <2>7. CASE LocalDeclarations(p) # {}
      <3>1. Written(p) = <<Max(LocalDeclarations(p))>>
        BY <2>7 DEF Written, LocalDeclarations
      <3>2. v # NONE
        <4>1. LocalDeclarations(p) \subseteq 1..p /\ p \in Nat
          BY <1>1, <2>2 DEF LocalDeclarations
        <4>2. Max(LocalDeclarations(p)) \in Nat
          BY <2>7, <4>1, GreatestOf
        <4> QED
          BY <2>6, <2>7, <4>2, NoneApart
      <3> QED
        <4>1. bound[p] = <<Max(LocalDeclarations(p))>>
          BY <2>3, <2>4, <2>6, <2>7, <3>2 DEF MeaningIn
        <4>2. Len(bound[p]) = 1
          BY <4>1
        <4> QED
          <5>1. DeclarationOf(bound[p]) = bound[p]
            BY <4>2 DEF DeclarationOf
          <5> QED
            BY <2>7, <3>1, <4>1, <5>1
    <2>8. CASE LocalDeclarations(p) = {} /\ n \in Range(program.params)
      <3>1. v = <<0>> /\ <<0>> # NONE
        BY <2>2, <2>6, <2>8, NoneApart DEF Params
      <3>2. Written(p) = <<0>>
        BY <2>1, <2>8 DEF Written, LocalDeclarations
      <3>3. bound[p] = <<0>>
        BY <2>3, <2>4, <3>1 DEF MeaningIn
      <3> QED
        BY <2>1, <2>8, <3>2, <3>3 DEF DeclarationOf
    <2>9. CASE LocalDeclarations(p) = {} /\ n \notin Range(program.params)
      <3>1. v = NONE
        BY <2>2, <2>6, <2>9 DEF Params
      <3> QED
        BY <2>1, <2>3, <2>4, <2>9, <3>1 DEF MeaningIn, Symbol
    <2> QED
      BY <2>7, <2>8, <2>9
  <1> QED
    BY <1>4, <1>5

\* An accepted body means what it says as far as it is local: no scope declares a name
\* twice, and every use has the nearest declaration that reaches it, shadowing included.
THEOREM LocalsBoundAsWritten == Spec => []LocalsAsWritten
  <1>1. Init => BodyInv
    BY BodyInit
  <1>2. NamesInv /\ BodyInv /\ [Next]_vars => BodyInv'
    BY BodyStep DEF NamesInv
  <1>3. NamesInv /\ BodyInv => LocalsAsWritten
    BY LocalsChecked DEF NamesInv
  <1> QED
    BY <1>1, <1>2, <1>3, NamesInvariant, PTL DEF Spec
=============================================================================
