---------------------------- MODULE Lexer_proofs ----------------------------
(***************************************************************************)
(* Proofs about Lexer, for any keyword table and any files.                *)
(***************************************************************************)
EXTENDS Lexer, LeastNumber, FiniteSetTheorems, TLAPS

-----------------------------------------------------------------------------
(* The cursor.                                                             *)

Breaks(text, p) == {i \in 1..p - 1 : text[i] = "\n"}

\* the cursor that has come to p
CursorAt(text, p) == [cur |-> p, line |-> Position(text, p)[1], col |-> Position(text, p)[2]]

Cursors(text) == [cur : 1..Len(text) + 1, line : Nat, col : Int]

\* The line breaks before a position are a finite set of positions.
LEMMA BreaksFinite ==
  ASSUME NEW text, NEW p \in Nat
  PROVE  /\ IsFiniteSet(Breaks(text, p)) /\ Breaks(text, p) \subseteq 1..p - 1
         /\ Cardinality(Breaks(text, p)) \in Nat
         /\ Breaks(text, p) # {} => Max(Breaks(text, p)) \in Breaks(text, p)
  <1>1. IsFiniteSet(1..p - 1) /\ Breaks(text, p) \in SUBSET (1..p - 1)
    BY FS_Interval DEF Breaks
  <1>2. IsFiniteSet(Breaks(text, p)) /\ Cardinality(Breaks(text, p)) \in Nat
    BY <1>1, FS_Subset, FS_CardinalityType
  <1>3. ASSUME Breaks(text, p) # {} PROVE Max(Breaks(text, p)) \in Breaks(text, p)
    <2>1. PICK m \in Breaks(text, p) : \A n \in Breaks(text, p) : m >= n
      <3>1. PICK D : D = {d \in Nat : p - d \in Breaks(text, p)}
        OBVIOUS
      <3>2. PICK n \in Breaks(text, p) : n \in 1..p - 1
        BY <1>1, <1>3
      <3>3. p - n \in D
        BY <3>1, <3>2
      <3>4. PICK d \in D : \A e \in D : d <= e
        BY <3>1, <3>3, LeastNat
      <3>5. ASSUME NEW k \in Breaks(text, p) PROVE p - d >= k
        <4>1. k \in 1..p - 1 /\ p - k \in Nat /\ p - (p - k) = k
          BY <1>1
        <4>2. p - k \in D
          BY <3>1, <4>1
        <4> QED
          BY <3>1, <3>4, <4>1, <4>2
      <3> QED
        BY <3>1, <3>4, <3>5
    <2> QED
      BY <2>1 DEF Max
  <1> QED
    BY <1>1, <1>2, <1>3

\* Where a text begins.
LEMMA PositionFirst ==
  ASSUME NEW text
  PROVE  Position(text, 1) = <<1, 1>>
  <1>1. Breaks(text, 1) = {}
    BY DEF Breaks
  <1> QED
    BY <1>1, FS_EmptySet DEF Position, Breaks

\* A position has a line and a column.
LEMMA PositionType ==
  ASSUME NEW text, NEW p \in Nat
  PROVE  Position(text, p) \in Nat \X Int /\ Position(text, p)[1] \in Nat /\ Position(text, p)[2] \in Int
  <1>1. Position(text, p)[1] = Cardinality(Breaks(text, p)) + 1
    BY DEF Position, Breaks
  <1>2. Position(text, p)[2] = IF Breaks(text, p) = {} THEN p ELSE p - Max(Breaks(text, p))
    BY DEF Position, Breaks
  <1>3. Position(text, p) = <<Position(text, p)[1], Position(text, p)[2]>>
    BY DEF Position, Breaks
  <1>4. Position(text, p)[1] \in Nat
    BY <1>1, BreaksFinite
  <1>5. Position(text, p)[2] \in Int
    <2>1. Breaks(text, p) # {} => Max(Breaks(text, p)) \in 1..p - 1
      BY BreaksFinite
    <2> QED
      BY <1>2, <2>1
  <1> QED
    BY <1>3, <1>4, <1>5

\* A line break starts a line, any other character takes one column.
LEMMA PositionNext ==
  ASSUME NEW text, NEW p \in Nat \ {0}
  PROVE  /\ Position(text, p + 1)[1] = Position(text, p)[1] + (IF text[p] = "\n" THEN 1 ELSE 0)
         /\ Position(text, p + 1)[2] = IF text[p] = "\n" THEN 1 ELSE Position(text, p)[2] + 1
  <1> DEFINE B == Breaks(text, p)
             C == Breaks(text, p + 1)
  <1>1. /\ Position(text, p)[1] = Cardinality(B) + 1
        /\ Position(text, p)[2] = IF B = {} THEN p ELSE p - Max(B)
        /\ Position(text, p + 1)[1] = Cardinality(C) + 1
        /\ Position(text, p + 1)[2] = IF C = {} THEN p + 1 ELSE (p + 1) - Max(C)
    BY DEF Position, Breaks
  <1>2. /\ IsFiniteSet(B) /\ B \subseteq 1..p - 1 /\ Cardinality(B) \in Nat
        /\ B # {} => Max(B) \in B
        /\ C \subseteq 1..(p + 1) - 1
    BY BreaksFinite
  <1>3. CASE text[p] = "\n"
    <2>1. C = B \cup {p} /\ p \notin B
      BY <1>3, <1>2 DEF Breaks
    <2>2. Cardinality(C) = Cardinality(B) + 1
      BY <2>1, <1>2, FS_AddElement
    <2>3. Max(C) = p
      <3>1. p \in C /\ \A y \in C : p >= y
        BY <2>1, <1>2
      <3>2. \A x \in C : (\A y \in C : x >= y) => x = p
        BY <3>1, <1>2
      <3> QED
        BY <3>1, <3>2 DEF Max
    <2>4. C # {}
      BY <2>1
    <2>5. (p + 1) - Max(C) = 1
      BY <2>3
    <2> QED
      BY <1>1, <1>2, <1>3, <2>2, <2>4, <2>5
  <1>4. CASE text[p] # "\n"
    <2>1. C = B
      BY <1>4 DEF Breaks
    <2>2. B # {} => Max(B) \in 1..p - 1
      BY <1>2
    <2>3. Position(text, p + 1)[2] = Position(text, p)[2] + 1
      BY <1>1, <2>1, <2>2
    <2> QED
      BY <1>1, <1>2, <1>4, <2>1, <2>3
  <1> QED
    BY <1>3, <1>4

\* A cursor is where its position says.
LEMMA CursorTyped ==
  ASSUME NEW text \in Seq(STRING), NEW p \in 1..Len(text) + 1
  PROVE  CursorAt(text, p) \in Cursors(text) /\ CursorAt(text, p).cur = p
  <1>1. Position(text, p)[1] \in Nat /\ Position(text, p)[2] \in Int
    BY PositionType
  <1> QED
    BY <1>1 DEF CursorAt, Cursors

\* lexer_advance takes the cursor to the next position.
LEMMA AdvanceOne ==
  ASSUME Text \in Seq(STRING), NEW p \in 1..TextLen
  PROVE  Advance(CursorAt(Text, p)) = CursorAt(Text, p + 1)
  <1>1. Position(Text, p)[1] \in Nat /\ Position(Text, p)[2] \in Int
    BY PositionType
  <1>2. TextLen = Len(Text) /\ TextLen \in Nat
    BY DEF TextLen
  <1>3. /\ Position(Text, p + 1)[1] = Position(Text, p)[1] + (IF Text[p] = "\n" THEN 1 ELSE 0)
        /\ Position(Text, p + 1)[2] = IF Text[p] = "\n" THEN 1 ELSE Position(Text, p)[2] + 1
    <2>1. p \in Nat \ {0}
      BY <1>2
    <2> QED
      BY <2>1, PositionNext
  <1>4. PICK a : a = CursorAt(Text, p)
    OBVIOUS
  <1>5. /\ a = [cur |-> p, line |-> Position(Text, p)[1], col |-> Position(Text, p)[2]]
        /\ a.cur = p /\ a.line = Position(Text, p)[1] /\ a.col = Position(Text, p)[2]
    BY <1>4 DEF CursorAt
  <1>6. ~(a.cur > TextLen)
    BY <1>5, <1>2
  <1>7. CASE Text[p] = "\n"
    <2>1. Advance(a) = [cur |-> p + 1, line |-> Position(Text, p)[1] + 1, col |-> 1]
      BY <1>5, <1>6, <1>7 DEF Advance
    <2> QED
      BY <2>1, <1>3, <1>4, <1>7 DEF CursorAt
  <1>8. CASE Text[p] # "\n"
    <2>1. Advance(a) = [a EXCEPT !.cur = @ + 1, !.col = @ + 1]
      BY <1>5, <1>6, <1>8 DEF Advance
    <2>2. Advance(a) = [cur |-> p + 1, line |-> Position(Text, p)[1], col |-> Position(Text, p)[2] + 1]
      BY <2>1, <1>5
    <2>3. Position(Text, p + 1)[1] = Position(Text, p)[1]
      BY <1>1, <1>3, <1>8
    <2> QED
      BY <2>2, <2>3, <1>3, <1>4, <1>8 DEF CursorAt
  <1> QED
    BY <1>7, <1>8

\* The loop of lexer_advance takes the cursor to any later position.
LEMMA AdvanceFar ==
  ASSUME Text \in Seq(STRING), NEW p \in 1..TextLen + 1, NEW q \in p..TextLen + 1
  PROVE  AdvanceTo(CursorAt(Text, p), q) = CursorAt(Text, q)
  <1>1. TextLen = Len(Text) /\ TextLen \in Nat
    BY DEF TextLen
  <1>2. PICK a : a = CursorAt(Text, p)
    OBVIOUS
  <1>3. a.cur = p /\ q - a.cur \in Nat
    BY <1>2 DEF CursorAt
  <1>4. PICK h : h = [n \in 0..q - p |-> IF n = 0 THEN a ELSE Advance(CursorAt(Text, p + (n - 1)))]
    OBVIOUS
  <1>5. ASSUME NEW n \in 0..q - p PROVE h[n] = CursorAt(Text, p + n)
    <2>1. CASE n = 0
      <3>1. p + 0 = p
        OBVIOUS
      <3> QED
        BY <1>2, <1>4, <2>1, <3>1
    <2>2. CASE n # 0
      <3>1. p + (n - 1) \in 1..TextLen /\ (p + (n - 1)) + 1 = p + n
        BY <1>1, <2>2
      <3>2. Advance(CursorAt(Text, p + (n - 1))) = CursorAt(Text, (p + (n - 1)) + 1)
        BY <3>1, AdvanceOne
      <3> QED
        BY <1>4, <2>2, <3>1, <3>2
    <2> QED
      BY <2>1, <2>2
  <1>6. h = [n \in 0..q - p |-> IF n = 0 THEN a ELSE Advance(h[n - 1])]
    <2>1. ASSUME NEW n \in 0..q - p, n # 0 PROVE CursorAt(Text, p + (n - 1)) = h[n - 1]
      BY <1>5, <2>1
    <2> QED
      BY <1>4, <2>1
  <1> DEFINE after == CHOOSE f : f = [n \in 0..q - a.cur |-> IF n = 0 THEN a ELSE Advance(f[n - 1])]
  <1>7. after = [n \in 0..q - p |-> IF n = 0 THEN a ELSE Advance(after[n - 1])]
    BY <1>3, <1>6
  <1>8. AdvanceTo(a, q) = after[q - p]
    BY <1>3 DEF AdvanceTo
  <1>9. PICK g : g = after
    OBVIOUS
  <1>10. PICK T : T = {n \in 0..q - p : g[n] = h[n]}
    OBVIOUS
  <1>11. 0 \in T
    <2>1. 0 \in 0..q - p
      BY <1>1
    <2>2. h[0] = a
      BY <2>1, <1>4
    <2>3. g = [n \in 0..q - p |-> IF n = 0 THEN a ELSE Advance(g[n - 1])]
      BY <1>7, <1>9
    <2>4. g[0] = a
      BY ONLY <2>1, <2>3
    <2> QED
      BY <2>1, <2>2, <2>4, <1>10
  <1>12. ASSUME NEW n \in 0..(q - p) - 1, n \in T PROVE n + 1 \in T
    <2>1. g[n + 1] = Advance(g[n]) /\ h[n + 1] = Advance(h[n])
      <3>1. n + 1 \in 0..q - p /\ n + 1 # 0 /\ (n + 1) - 1 = n
        OBVIOUS
      <3> QED
        BY ONLY <3>1, <1>6, <1>7, <1>9
    <2> QED
      BY <1>10, <1>12, <2>1
  <1>13. q - p \in T
    <2>1. 0 \in Int /\ q - p \in Int /\ q - p \in 0..q - p
      BY <1>1
    <2>2. \A n \in 0..q - p : n \in T
      BY ONLY <2>1, <1>11, <1>12, GoingUp
    <2> QED
      BY <2>1, <2>2
  <1> QED
    BY <1>2, <1>5, <1>8, <1>9, <1>10, <1>13

-----------------------------------------------------------------------------
(* Scanning.                                                               *)

\* Of the positions up to one that has come to a set, some is the first.
LEMMA FirstPosition ==
  ASSUME NEW T, NEW p \in Int, NEW e \in Int, p <= e, e \in T
  PROVE  \E q \in p..e : q \in T /\ \A r \in p..q - 1 : r \notin T
  <1>1. PICK D : D = {d \in Nat : p + d \in T /\ p + d <= e}
    OBVIOUS
  <1>2. e - p \in D
    BY <1>1
  <1>3. PICK d \in D : \A c \in D : d <= c
    BY <1>1, <1>2, LeastNat
  <1>4. d \in Nat /\ p + d \in T /\ p + d \in p..e
    BY <1>1
  <1>5. ASSUME NEW r \in p..(p + d) - 1 PROVE r \notin T
    <2>1. r - p \in Nat /\ r - p < d /\ p + (r - p) = r /\ r <= e
      BY <1>4
    <2>2. r - p \notin D
      BY <1>3, <1>4, <2>1
    <2> QED
      BY <1>1, <2>1, <2>2
  <1> QED
    BY <1>4, <1>5

\* Where a run of characters ends.
LEMMA PastAllWorks ==
  ASSUME Text \in Seq(STRING), NEW p \in 1..TextLen + 1, NEW S
  PROVE  /\ PastAll(p, S) \in p..TextLen + 1 /\ ~At(PastAll(p, S), S)
         /\ \A r \in p..PastAll(p, S) - 1 : At(r, S)
  <1>1. TextLen \in Nat
    BY DEF TextLen
  <1>2. PICK T : T = {q \in 1..TextLen + 1 : ~At(q, S)}
    OBVIOUS
  <1>3. TextLen + 1 \in T
    BY <1>1, <1>2 DEF At
  <1>4. \E q \in p..TextLen + 1 : q \in T /\ \A r \in p..q - 1 : r \notin T
    <2>1. p \in Int /\ TextLen + 1 \in Int /\ p <= TextLen + 1
      BY <1>1
    <2> QED
      BY ONLY <2>1, <1>3, FirstPosition
  <1>5. \E q \in p..TextLen + 1 : ~At(q, S) /\ \A r \in p..q - 1 : At(r, S)
    BY <1>1, <1>2, <1>4
  <1> QED
    BY <1>5 DEF PastAll

\* Where a character is found first.
LEMMA FirstInWorks ==
  ASSUME Text \in Seq(STRING), NEW p \in 1..TextLen + 1, NEW S
  PROVE  /\ FirstIn(p, S) \in p..TextLen + 1
         /\ FirstIn(p, S) > TextLen \/ At(FirstIn(p, S), S)
         /\ \A r \in p..FirstIn(p, S) - 1 : ~At(r, S)
  <1>1. TextLen \in Nat
    BY DEF TextLen
  <1>2. PICK T : T = {q \in 1..TextLen + 1 : q > TextLen \/ At(q, S)}
    OBVIOUS
  <1>3. TextLen + 1 \in T
    BY <1>1, <1>2
  <1>4. \E q \in p..TextLen + 1 : q \in T /\ \A r \in p..q - 1 : r \notin T
    <2>1. p \in Int /\ TextLen + 1 \in Int /\ p <= TextLen + 1
      BY <1>1
    <2> QED
      BY ONLY <2>1, <1>3, FirstPosition
  <1>5. \E q \in p..TextLen + 1 : (q > TextLen \/ At(q, S)) /\ \A r \in p..q - 1 : ~At(r, S)
    BY <1>1, <1>2, <1>4
  <1> QED
    BY <1>5 DEF FirstIn

\* the */ of a comment stands at q
Finish(q) == At(q, {"*"}) /\ At(q + 1, {"/"})

\* Where a block comment ends: past its first finish, if it has one.
LEMMA PastCommentWorks ==
  ASSUME Text \in Seq(STRING), NEW p \in 1..TextLen + 1
  PROVE  /\ PastComment(p) \in p..TextLen + 1
         /\ \/ /\ PastComment(p) = TextLen + 1 /\ \A q \in p..TextLen : ~Finish(q)
            \/ \E q \in p..TextLen - 1 : /\ Finish(q) /\ PastComment(p) = q + 2
                                         /\ \A r \in p..q - 1 : ~Finish(r)
  <1>1. TextLen \in Nat
    BY DEF TextLen
  <1>2. PICK ends : ends = {q \in p..TextLen : At(q, {"*"}) /\ At(q + 1, {"/"})}
    OBVIOUS
  <1>3. PastComment(p) = IF ends = {} THEN TextLen + 1 ELSE Min(ends) + 2
    BY <1>2 DEF PastComment
  <1>4. CASE ends = {}
    BY <1>1, <1>2, <1>3, <1>4 DEF Finish
  <1>5. CASE ends # {}
    <2>1. PICK q \in ends : \A r \in ends : q <= r
      <3>1. ends \in SUBSET Nat
        BY <1>1, <1>2
      <3> QED
        BY <3>1, <1>5, LeastNat
    <2>2. q \in p..TextLen - 1 /\ Finish(q)
      <3>1. q \in p..TextLen /\ Finish(q) /\ q + 1 <= TextLen
        BY <1>2 DEF Finish, At
      <3> QED
        BY <1>1, <3>1
    <2>3. Min(ends) = q
      <3>1. \A x \in ends : (\A y \in ends : x =< y) => x = q
        BY <2>1, <1>1, <1>2
      <3> QED
        BY <2>1, <3>1 DEF Min
    <2>4. \A r \in p..q - 1 : ~Finish(r)
      <3> SUFFICES ASSUME NEW r \in p..q - 1, Finish(r) PROVE FALSE
        OBVIOUS
      <3>1. r \in ends
        BY <1>1, <1>2, <2>2 DEF Finish
      <3> QED
        BY <1>1, <2>1, <2>2, <3>1
    <2> QED
      BY <1>1, <1>3, <1>5, <2>2, <2>3, <2>4
  <1> QED
    BY <1>4, <1>5

\* A turn of lexer_skip_whitespace goes on or stays.
LEMMA PastBlankGoes ==
  ASSUME Text \in Seq(STRING), NEW p \in 1..TextLen + 1
  PROVE  PastBlank(p) \in p..TextLen + 1
  <1>1. TextLen \in Nat
    BY DEF TextLen
  <1>2. CASE At(p, Blanks)
    BY <1>1, <1>2 DEF PastBlank, At
  <1>3. CASE ~At(p, Blanks) /\ At(p, {"/"}) /\ At(p + 1, {"/"})
    BY <1>1, <1>3, FirstInWorks DEF PastBlank
  <1>4. CASE ~At(p, Blanks) /\ ~(At(p, {"/"}) /\ At(p + 1, {"/"})) /\ At(p, {"/"}) /\ At(p + 1, {"*"})
    <2>1. p + 2 \in 1..TextLen + 1
      BY <1>1, <1>4 DEF At
    <2>2. PastComment(p + 2) \in p + 2..TextLen + 1
      BY <2>1, PastCommentWorks
    <2> QED
      BY <1>1, <1>4, <2>2 DEF PastBlank
  <1>5. CASE ~At(p, Blanks) /\ ~(At(p, {"/"}) /\ At(p + 1, {"/"})) /\ ~(At(p, {"/"}) /\ At(p + 1, {"*"}))
    BY <1>1, <1>5 DEF PastBlank
  <1> QED
    BY <1>2, <1>3, <1>4, <1>5

\* lexer_skip_whitespace goes on as long as a turn does.
LEMMA SkipWhitespaceTurn ==
  ASSUME Text \in Seq(STRING), NEW p \in 1..TextLen + 1
  PROVE  SkipWhitespace[p] = IF PastBlank(p) = p THEN p ELSE SkipWhitespace[PastBlank(p)]
  <1>1. TextLen \in Nat
    BY DEF TextLen
  <1>2. PICK N : N = TextLen + 1
    OBVIOUS
  <1>3. PICK stops : stops = {q \in 1..N : PastBlank(q) = q}
    OBVIOUS
  <1>4. PICK base : base = [q \in 1..N |-> q]
    OBVIOUS
  <1>5. PICK go : go = [q \in 1..N |-> PastBlank(q)]
    OBVIOUS
  <1>6. \A q \in 1..N : q \notin stops => go[q] \in q + 1..N
    <2> SUFFICES ASSUME NEW q \in 1..N, q \notin stops PROVE go[q] \in q + 1..N
      OBVIOUS
    <2>1. PastBlank(q) \in q..N /\ PastBlank(q) # q
      BY <1>2, <1>3, PastBlankGoes
    <2> QED
      BY <1>1, <1>2, <1>5, <2>1
  <1>7. PICK f : Climbs(f, 1, N, stops, base, go)
    <2>1. 1 \in Int /\ N \in Int
      BY <1>1, <1>2
    <2> QED
      BY ONLY <2>1, <1>6, ClimbingFunction
  <1>8. f = [q \in 1..TextLen + 1 |-> IF PastBlank(q) = q THEN q ELSE f[PastBlank(q)]]
    <2>1. f = [q \in 1..N |-> f[q]]
      BY <1>7 DEF Climbs
    <2>2. \A q \in 1..N : f[q] = IF q \in stops THEN base[q] ELSE f[go[q]]
      BY <1>7 DEF Climbs
    <2> QED
      BY ONLY <2>1, <2>2, <1>2, <1>3, <1>4, <1>5
  <1>9. SkipWhitespace = [q \in 1..TextLen + 1 |-> IF PastBlank(q) = q THEN q ELSE SkipWhitespace[PastBlank(q)]]
    BY <1>8 DEF SkipWhitespace
  <1>10. PICK g : g = SkipWhitespace
    OBVIOUS
  <1>11. g = [q \in 1..TextLen + 1 |-> IF PastBlank(q) = q THEN q ELSE g[PastBlank(q)]]
    BY ONLY <1>9, <1>10
  <1>12. g[p] = IF PastBlank(p) = p THEN p ELSE g[PastBlank(p)]
    BY ONLY <1>11, p \in 1..TextLen + 1
  <1> QED
    BY ONLY <1>10, <1>12

-----------------------------------------------------------------------------
(* What is skipped.                                                        *)

\* Part of a text, character by character.
LEMMA PartOfText ==
  ASSUME NEW text \in Seq(STRING), NEW a \in 1..Len(text) + 1, NEW b \in a..Len(text) + 1
  PROVE  /\ SubSeq(text, a, b - 1) \in Seq(STRING)
         /\ Len(SubSeq(text, a, b - 1)) = b - a
         /\ DOMAIN SubSeq(text, a, b - 1) = 1..b - a
         /\ \A i \in 1..b - a : SubSeq(text, a, b - 1)[i] = text[(a + i) - 1]
  <1>1. Len(text) \in Nat
    OBVIOUS
  <1>2. /\ SubSeq(text, a, b - 1) \in Seq(STRING)
        /\ Len(SubSeq(text, a, b - 1)) = b - a
    BY <1>1
  <1>3. ASSUME NEW i \in 1..b - a PROVE SubSeq(text, a, b - 1)[i] = text[(a + i) - 1]
    BY <1>1, <1>3
  <1> QED
    BY <1>2, <1>3

\* Part of a part of a text.
LEMMA PartOfPart ==
  ASSUME NEW text \in Seq(STRING), NEW a \in 1..Len(text) + 1, NEW b \in a..Len(text) + 1,
         NEW k \in 1..(b - a) + 1, NEW m \in k..(b - a) + 1
  PROVE  SubSeq(SubSeq(text, a, b - 1), k, m - 1) = SubSeq(text, (k + a) - 1, ((m + a) - 1) - 1)
  <1>1. PICK s : s = SubSeq(text, a, b - 1)
    OBVIOUS
  <1>2. s \in Seq(STRING) /\ Len(s) = b - a /\ \A i \in 1..b - a : s[i] = text[(a + i) - 1]
    BY <1>1, PartOfText
  <1>3. PICK x : x = SubSeq(s, k, m - 1)
    OBVIOUS
  <1>4. PICK y : y = SubSeq(text, (k + a) - 1, ((m + a) - 1) - 1)
    OBVIOUS
  <1>5. x \in Seq(STRING) /\ Len(x) = m - k /\ \A i \in 1..m - k : x[i] = s[(k + i) - 1]
    BY <1>2, <1>3, PartOfText
  <1>6. (k + a) - 1 \in 1..Len(text) + 1 /\ (m + a) - 1 \in (k + a) - 1..Len(text) + 1
    BY Len(text) \in Nat
  <1>7. y \in Seq(STRING) /\ Len(y) = m - k /\ \A i \in 1..m - k : y[i] = text[(((k + a) - 1) + i) - 1]
    <2>1. ((m + a) - 1) - ((k + a) - 1) = m - k
      OBVIOUS
    <2> QED
      BY <1>4, <1>6, <2>1, PartOfText
  <1>8. ASSUME NEW i \in 1..m - k PROVE x[i] = y[i]
    <2>1. (k + i) - 1 \in 1..b - a
      OBVIOUS
    <2>2. (a + ((k + i) - 1)) - 1 = (((k + a) - 1) + i) - 1
      OBVIOUS
    <2> QED
      BY <1>2, <1>5, <1>7, <2>1, <2>2
  <1> QED
    BY <1>1, <1>3, <1>4, <1>5, <1>7, <1>8

\* from a to b there is nothing but blanks and comments, cut at C
Cut(text, C, a, b) ==
  /\ C \subseteq a..b /\ {a, b} \subseteq C
  /\ \A k \in C \ {b} : \E m \in C : m > k /\ IsBlankPiece(SubSeq(text, k, m - 1))

\* Cuts of a text are cuts of the part.
LEMMA CutIsBlank ==
  ASSUME NEW text \in Seq(STRING), NEW a \in 1..Len(text) + 1, NEW b \in a..Len(text) + 1,
         NEW C, Cut(text, C, a, b)
  PROVE  IsBlank(SubSeq(text, a, b - 1))
  <1>1. PICK s : s = SubSeq(text, a, b - 1)
    OBVIOUS
  <1>2. Len(s) = b - a
    BY <1>1, PartOfText
  <1>3. PICK D : D = {k \in 1..(b - a) + 1 : (k + a) - 1 \in C}
    OBVIOUS
  <1>4. D \in SUBSET (1..Len(s) + 1) /\ {1, Len(s) + 1} \subseteq D
    BY <1>2, <1>3 DEF Cut
  <1>5. ASSUME NEW k \in D \ {Len(s) + 1}
        PROVE  \E m \in D : m > k /\ IsBlankPiece(SubSeq(s, k, m - 1))
    <2>1. k \in 1..b - a /\ (k + a) - 1 \in C \ {b}
      BY <1>2, <1>3
    <2>2. PICK n \in C : n > (k + a) - 1 /\ IsBlankPiece(SubSeq(text, (k + a) - 1, n - 1))
      BY <2>1 DEF Cut
    <2>3. n \in a..b
      BY DEF Cut
    <2>4. PICK m : m = (n - a) + 1
      OBVIOUS
    <2>5. m \in 1..(b - a) + 1 /\ (m + a) - 1 = n /\ m > k /\ m \in k..(b - a) + 1
      BY <2>1, <2>2, <2>3, <2>4
    <2>6. SubSeq(s, k, m - 1) = SubSeq(text, (k + a) - 1, n - 1)
      <3>1. k \in 1..(b - a) + 1
        BY <2>1
      <3>2. SubSeq(s, k, m - 1) = SubSeq(text, (k + a) - 1, ((m + a) - 1) - 1)
        BY <3>1, <2>5, <1>1, PartOfPart
      <3> QED
        BY <3>2, <2>5
    <2> QED
      BY <1>3, <2>2, <2>5, <2>6
  <1> QED
    BY <1>1, <1>4, <1>5 DEF IsBlank

\* Nothing is between a position and itself.
LEMMA CutNothing ==
  ASSUME NEW text, NEW a \in Int
  PROVE  Cut(text, {a}, a, a)
  BY DEF Cut

\* A piece in front of a cut part.
LEMMA CutMore ==
  ASSUME NEW text, NEW a \in Int, NEW k \in Int, NEW b \in Int, a < k, k <= b,
         IsBlankPiece(SubSeq(text, a, k - 1)), NEW C, Cut(text, C, k, b)
  PROVE  Cut(text, C \cup {a}, a, b)
  <1>1. C \cup {a} \subseteq a..b /\ {a, b} \subseteq C \cup {a}
    BY DEF Cut
  <1>2. ASSUME NEW j \in (C \cup {a}) \ {b}
        PROVE  \E m \in C \cup {a} : m > j /\ IsBlankPiece(SubSeq(text, j, m - 1))
    <2>1. CASE j = a
      <3>1. k \in C
        BY DEF Cut
      <3> QED
        BY <2>1, <3>1
    <2>2. CASE j \in C \ {b}
      BY <2>2 DEF Cut
    <2> QED
      BY <2>1, <2>2
  <1> QED
    BY <1>1, <1>2 DEF Cut

\* from p to e is whitespace and comments, the last of which the end may have cut short
Skipped(text, p, e) ==
  \/ \E C : Cut(text, C, p, e)
  \/ /\ e = Len(text) + 1
     /\ \E k \in p..Len(text) : (\E C : Cut(text, C, p, k)) /\ Unfinished(SubSeq(text, k, Len(text)))

\* A piece in front of a skipped part.
LEMMA SkippedMore ==
  ASSUME NEW text \in Seq(STRING), NEW p \in Nat, NEW k \in Nat, NEW e \in k..Len(text) + 1, p < k,
         IsBlankPiece(SubSeq(text, p, k - 1)), Skipped(text, k, e)
  PROVE  Skipped(text, p, e)
  <1>1. Len(text) \in Nat
    OBVIOUS
  <1>2. CASE \E C : Cut(text, C, k, e)
    <2>1. PICK C : Cut(text, C, k, e)
      BY <1>2
    <2>2. Cut(text, C \cup {p}, p, e)
      BY <1>1, <2>1, CutMore
    <2> QED
      BY <2>2 DEF Skipped
  <1>3. CASE /\ e = Len(text) + 1
             /\ \E j \in k..Len(text) : (\E C : Cut(text, C, k, j)) /\ Unfinished(SubSeq(text, j, Len(text)))
    <2>1. PICK j \in k..Len(text) : (\E C : Cut(text, C, k, j)) /\ Unfinished(SubSeq(text, j, Len(text)))
      BY <1>3
    <2>2. PICK C : Cut(text, C, k, j)
      BY <2>1
    <2>3. Cut(text, C \cup {p}, p, j)
      BY <1>1, <2>1, <2>2, CutMore
    <2>4. j \in p..Len(text)
      BY <1>1
    <2> QED
      BY <1>3, <2>1, <2>3, <2>4 DEF Skipped
  <1> QED
    BY <1>2, <1>3 DEF Skipped

\* What is skipped can be told from the part of the text alone.
LEMMA SkippedGap ==
  ASSUME NEW text \in Seq(STRING), NEW p \in 1..Len(text) + 1, NEW e \in p..Len(text) + 1,
         Skipped(text, p, e)
  PROVE  /\ e <= Len(text) => IsBlank(SubSeq(text, p, e - 1))
         /\ IsTail(SubSeq(text, p, e - 1))
  <1>1. Len(text) \in Nat
    OBVIOUS
  <1>2. CASE \E C : Cut(text, C, p, e)
    BY <1>2, CutIsBlank DEF IsTail
  <1>3. CASE /\ e = Len(text) + 1
             /\ \E k \in p..Len(text) : (\E C : Cut(text, C, p, k)) /\ Unfinished(SubSeq(text, k, Len(text)))
    <2>1. PICK k \in p..Len(text) : (\E C : Cut(text, C, p, k)) /\ Unfinished(SubSeq(text, k, Len(text)))
      BY <1>3
    <2>2. PICK s : s = SubSeq(text, p, e - 1)
      OBVIOUS
    <2>3. Len(s) = e - p /\ DOMAIN s = 1..e - p
      BY <2>2, PartOfText
    <2>4. PICK j : j = (k - p) + 1
      OBVIOUS
    <2>5. j \in DOMAIN s /\ (j + p) - 1 = k
      BY <1>1, <1>3, <2>3, <2>4
    <2>6. SubSeq(s, 1, j - 1) = SubSeq(text, p, k - 1)
      <3>1. 1 \in 1..(e - p) + 1 /\ j \in 1..(e - p) + 1
        BY <1>1, <1>3, <2>4
      <3>2. SubSeq(s, 1, j - 1) = SubSeq(text, (1 + p) - 1, ((j + p) - 1) - 1)
        BY <3>1, <2>2, PartOfPart
      <3>3. (1 + p) - 1 = p
        OBVIOUS
      <3> QED
        BY <3>2, <3>3, <2>5
    <2>7. From(s, j) = SubSeq(text, k, Len(text))
      <3>1. j \in 1..(e - p) + 1 /\ (e - p) + 1 \in j..(e - p) + 1
        BY <1>1, <1>3, <2>4
      <3>2. SubSeq(s, j, ((e - p) + 1) - 1) = SubSeq(text, (j + p) - 1, ((((e - p) + 1) + p) - 1) - 1)
        BY <3>1, <2>2, PartOfPart
      <3>3. ((e - p) + 1) - 1 = Len(s) /\ ((((e - p) + 1) + p) - 1) - 1 = Len(text)
        BY <1>1, <1>3, <2>3
      <3> QED
        BY <3>2, <3>3, <2>5 DEF From
    <2>8. k \in p..Len(text) + 1
      BY <1>1
    <2>9. IsBlank(SubSeq(s, 1, j - 1))
      BY <2>1, <2>6, <2>8, CutIsBlank
    <2>10. IsTail(s)
      BY <2>1, <2>5, <2>7, <2>9 DEF IsTail
    <2> QED
      BY <1>1, <1>3, <2>2, <2>10
  <1> QED
    BY <1>2, <1>3 DEF Skipped

\* A blank is a piece.
LEMMA BlankPiece ==
  ASSUME Text \in Seq(STRING), NEW p \in 1..TextLen, At(p, Blanks)
  PROVE  IsBlankPiece(SubSeq(Text, p, (p + 1) - 1))
  <1>1. TextLen = Len(Text) /\ TextLen \in Nat
    BY DEF TextLen
  <1>2. PICK s : s = SubSeq(Text, p, (p + 1) - 1)
    OBVIOUS
  <1>3. Len(s) = 1 /\ s[1] = Text[p]
    <2>1. Len(s) = (p + 1) - p /\ \A i \in 1..(p + 1) - p : s[i] = Text[(p + i) - 1]
      BY <1>1, <1>2, PartOfText
    <2>2. p \in Nat /\ (p + 1) - p = 1 /\ (p + 1) - 1 = p /\ 1 \in 1..1
      BY <1>1
    <2>3. Len(s) = 1 /\ \A i \in 1..1 : s[i] = Text[(p + i) - 1]
      BY ONLY <2>1, <2>2
    <2> QED
      BY ONLY <2>2, <2>3
  <1> QED
    BY <1>2, <1>3 DEF IsBlankPiece, At

\* A line comment and its line break are a piece.
LEMMA LinePiece ==
  ASSUME Text \in Seq(STRING), NEW p \in 1..TextLen, NEW q \in p..TextLen,
         At(p, {"/"}), At(p + 1, {"/"}), At(q, {"\n"}), \A r \in p..q - 1 : ~At(r, {"\n"})
  PROVE  IsBlankPiece(SubSeq(Text, p, (q + 1) - 1))
  <1>1. TextLen = Len(Text) /\ TextLen \in Nat
    BY DEF TextLen
  <1>2. q # p /\ q # p + 1
    BY DEF At
  <1>3. PICK s : s = SubSeq(Text, p, (q + 1) - 1)
    OBVIOUS
  <1>4. Len(s) = (q + 1) - p /\ \A i \in 1..(q + 1) - p : s[i] = Text[(p + i) - 1]
    <2>1. q + 1 \in p..Len(Text) + 1
      BY <1>1
    <2> QED
      BY <1>1, <1>3, <2>1, PartOfText
  <1>5. Len(s) \in Nat /\ Len(s) >= 3
    BY <1>1, <1>2, <1>4
  <1>6. Starts(s, "/", "/")
    BY <1>1, <1>4, <1>5 DEF Starts, At
  <1>7. ASSUME NEW i \in 1..Len(s) - 1 PROVE s[i] # "\n"
    <2>1. (p + i) - 1 \in p..q - 1 /\ (p + i) - 1 <= TextLen /\ i \in 1..(q + 1) - p
      BY <1>1, <1>4
    <2> QED
      BY <1>4, <2>1 DEF At
  <1>8. s[Len(s)] = "\n"
    BY <1>1, <1>4, <1>5 DEF At
  <1> QED
    BY <1>3, <1>6, <1>7, <1>8 DEF IsBlankPiece, LineComment

\* A block comment up to its first finish is a piece.
LEMMA BlockPiece ==
  ASSUME Text \in Seq(STRING), NEW p \in 1..TextLen, NEW q \in p + 2..TextLen - 1,
         At(p, {"/"}), At(p + 1, {"*"}), Finish(q), \A r \in p + 2..q - 1 : ~Finish(r)
  PROVE  IsBlankPiece(SubSeq(Text, p, (q + 2) - 1))
  <1>1. TextLen = Len(Text) /\ TextLen \in Nat
    BY DEF TextLen
  <1>2. PICK s : s = SubSeq(Text, p, (q + 2) - 1)
    OBVIOUS
  <1>3. Len(s) = (q + 2) - p /\ \A i \in 1..(q + 2) - p : s[i] = Text[(p + i) - 1]
    <2>1. q + 2 \in p..Len(Text) + 1
      BY <1>1
    <2> QED
      BY <1>1, <1>2, <2>1, PartOfText
  <1>4. Len(s) \in Nat /\ Len(s) >= 4
    BY <1>1, <1>3
  <1>5. Starts(s, "/", "*")
    BY <1>1, <1>3, <1>4 DEF Starts, At
  <1>6. ASSUME NEW i \in 3..Len(s) - 1
        PROVE  (s[i] = "*" /\ s[i + 1] = "/") <=> Finish((p + i) - 1)
    <2>1. i \in 1..(q + 2) - p /\ i + 1 \in 1..(q + 2) - p
      BY <1>3, <1>4
    <2>2. s[i] = Text[(p + i) - 1] /\ s[i + 1] = Text[((p + i) - 1) + 1]
      <3>1. (p + (i + 1)) - 1 = ((p + i) - 1) + 1
        OBVIOUS
      <3>2. s[i + 1] = Text[(p + (i + 1)) - 1]
        BY <1>3, <2>1
      <3> QED
        BY <1>3, <2>1, <3>1, <3>2
    <2>3. ((p + i) - 1) + 1 <= TextLen
      BY <1>1, <1>3
    <2> QED
      BY <1>1, <2>2, <2>3 DEF Finish, At
  <1>7. {i \in 3..Len(s) - 1 : s[i] = "*" /\ s[i + 1] = "/"} = {Len(s) - 1}
    <2>1. Len(s) - 1 \in 3..Len(s) - 1 /\ (p + (Len(s) - 1)) - 1 = q
      BY <1>1, <1>3, <1>4
    <2>2. s[Len(s) - 1] = "*" /\ s[(Len(s) - 1) + 1] = "/"
      BY <2>1, <1>6
    <2>3. ASSUME NEW i \in 3..Len(s) - 1, s[i] = "*" /\ s[i + 1] = "/" PROVE i = Len(s) - 1
      <3>1. Finish((p + i) - 1)
        BY <1>6, <2>3
      <3>2. (p + i) - 1 \in p + 2..q
        BY <1>1, <1>3
      <3>3. (p + i) - 1 = q
        BY <3>1, <3>2
      <3> QED
        BY <1>1, <1>3, <3>3
    <2> QED
      BY <2>1, <2>2, <2>3
  <1> QED
    BY <1>2, <1>4, <1>5, <1>7 DEF IsBlankPiece, BlockComment

\* A line comment without a line break is cut short by the end.
LEMMA LineUnfinished ==
  ASSUME Text \in Seq(STRING), NEW p \in 1..TextLen,
         At(p, {"/"}), At(p + 1, {"/"}), \A r \in p..TextLen : ~At(r, {"\n"})
  PROVE  Unfinished(SubSeq(Text, p, TextLen))
  <1>1. TextLen = Len(Text) /\ TextLen \in Nat
    BY DEF TextLen
  <1>2. PICK s : s = SubSeq(Text, p, (TextLen + 1) - 1)
    OBVIOUS
  <1>3. Len(s) = (TextLen + 1) - p /\ \A i \in 1..(TextLen + 1) - p : s[i] = Text[(p + i) - 1]
    <2>1. TextLen + 1 \in p..Len(Text) + 1
      BY <1>1
    <2> QED
      BY <1>1, <1>2, <2>1, PartOfText
  <1>4. Len(s) \in Nat /\ Len(s) >= 2
    BY <1>1, <1>3 DEF At
  <1>5. Starts(s, "/", "/")
    BY <1>1, <1>3, <1>4 DEF Starts, At
  <1>6. ASSUME NEW i \in 1..Len(s) PROVE s[i] # "\n"
    <2>1. (p + i) - 1 \in p..TextLen /\ i \in 1..(TextLen + 1) - p
      BY <1>1, <1>3
    <2> QED
      BY <1>3, <2>1 DEF At
  <1>7. Len(s) \in 1..Len(s) /\ 1..Len(s) - 1 \subseteq 1..Len(s)
    BY <1>4
  <1>8. (TextLen + 1) - 1 = TextLen
    BY <1>1
  <1>9. LineComment(s) /\ Last(s) # "\n"
    BY <1>5, <1>6, <1>7 DEF LineComment, Last
  <1> QED
    BY <1>2, <1>8, <1>9 DEF Unfinished

\* A block comment that is not finished is cut short by the end.
LEMMA BlockUnfinished ==
  ASSUME Text \in Seq(STRING), NEW p \in 1..TextLen,
         At(p, {"/"}), At(p + 1, {"*"}), \A r \in p + 2..TextLen : ~Finish(r)
  PROVE  Unfinished(SubSeq(Text, p, TextLen))
  <1>1. TextLen = Len(Text) /\ TextLen \in Nat
    BY DEF TextLen
  <1>2. PICK s : s = SubSeq(Text, p, (TextLen + 1) - 1)
    OBVIOUS
  <1>3. Len(s) = (TextLen + 1) - p /\ \A i \in 1..(TextLen + 1) - p : s[i] = Text[(p + i) - 1]
    <2>1. TextLen + 1 \in p..Len(Text) + 1
      BY <1>1
    <2> QED
      BY <1>1, <1>2, <2>1, PartOfText
  <1>4. Len(s) \in Nat /\ Len(s) >= 2
    BY <1>1, <1>3 DEF At
  <1>5. Starts(s, "/", "*")
    BY <1>1, <1>3, <1>4 DEF Starts, At
  <1>6. ASSUME NEW i \in 3..Len(s) - 1 PROVE ~(s[i] = "*" /\ s[i + 1] = "/")
    <2>1. (p + i) - 1 \in p + 2..TextLen /\ i \in 1..(TextLen + 1) - p /\ i + 1 \in 1..(TextLen + 1) - p
      BY <1>1, <1>3
    <2>2. s[i] = Text[(p + i) - 1] /\ s[i + 1] = Text[((p + i) - 1) + 1]
      <3>1. (p + (i + 1)) - 1 = ((p + i) - 1) + 1
        OBVIOUS
      <3>2. s[i + 1] = Text[(p + (i + 1)) - 1]
        BY <1>3, <2>1
      <3> QED
        BY <1>3, <2>1, <3>1, <3>2
    <2>3. ((p + i) - 1) + 1 <= TextLen /\ (p + i) - 1 <= TextLen
      BY <1>1, <1>3
    <2>4. ~Finish((p + i) - 1)
      BY <2>1
    <2> QED
      BY <2>2, <2>3, <2>4 DEF Finish, At
  <1>7. (TextLen + 1) - 1 = TextLen
    BY <1>1
  <1> QED
    BY <1>2, <1>5, <1>6, <1>7 DEF Unfinished

\* lexer_skip_whitespace skips whitespace and comments, as far as it goes.
LEMMA SkipWhitespaceWorks ==
  ASSUME Text \in Seq(STRING), NEW p \in 1..TextLen + 1
  PROVE  SkipWhitespace[p] \in p..TextLen + 1 /\ Skipped(Text, p, SkipWhitespace[p])
  <1>1. TextLen = Len(Text) /\ TextLen \in Nat
    BY DEF TextLen
  <1>2. PICK T : T = {q \in 1..TextLen + 1 :
                        SkipWhitespace[q] \in q..TextLen + 1 /\ Skipped(Text, q, SkipWhitespace[q])}
    OBVIOUS
  <1>3. ASSUME NEW n \in 1..TextLen + 1, \A m \in n + 1..TextLen + 1 : m \in T PROVE n \in T
    <2>1. CASE PastBlank(n) = n
      <3>1. SkipWhitespace[n] = n
        BY <2>1, SkipWhitespaceTurn
      <3>2. Skipped(Text, n, n)
        <4>1. Cut(Text, {n}, n, n)
          BY CutNothing
        <4> QED
          BY <4>1 DEF Skipped
      <3> QED
        BY <1>1, <1>2, <3>1, <3>2
    <2>2. CASE PastBlank(n) # n
      <3>1. PICK q : q = PastBlank(n)
        OBVIOUS
      <3>2. q \in n + 1..TextLen + 1 /\ n \in 1..TextLen
        <4>1. q \in n..TextLen + 1
          BY <3>1, PastBlankGoes
        <4> QED
          BY <1>1, <2>2, <3>1, <4>1
      <3>3. SkipWhitespace[n] = SkipWhitespace[q]
        BY <2>2, <3>1, SkipWhitespaceTurn
      <3>4. q \in T /\ SkipWhitespace[q] \in q..TextLen + 1 /\ Skipped(Text, q, SkipWhitespace[q])
        BY <1>2, <1>3, <3>2
      <3>5. SkipWhitespace[n] \in n..TextLen + 1
        BY <1>1, <3>2, <3>3, <3>4
      <3>6. CASE At(n, Blanks)
        <4>1. q = n + 1
          BY <3>1, <3>6 DEF PastBlank
        <4>2. IsBlankPiece(SubSeq(Text, n, q - 1))
          BY <3>2, <3>6, <4>1, BlankPiece
        <4>3. n \in Nat /\ q \in Nat /\ n < q
          BY <3>2
        <4>4. Skipped(Text, n, SkipWhitespace[q])
          BY <1>1, <3>4, <4>2, <4>3, SkippedMore
        <4> QED
          BY <1>2, <3>3, <3>5, <4>4
      <3>7. CASE ~At(n, Blanks) /\ At(n, {"/"}) /\ At(n + 1, {"/"})
        <4>1. q = FirstIn(n, {"\n"})
          BY <3>1, <3>7 DEF PastBlank
        <4>2. (q > TextLen \/ At(q, {"\n"})) /\ \A r \in n..q - 1 : ~At(r, {"\n"})
          BY <4>1, FirstInWorks
        <4>3. CASE q <= TextLen
          <5>1. At(q, {"\n"}) /\ q \in 1..TextLen
            BY <1>1, <3>2, <4>2, <4>3
          <5>2. PastBlank(q) = q + 1
            BY <5>1 DEF PastBlank, At, Blanks
          <5>3. SkipWhitespace[q] = SkipWhitespace[q + 1]
            <6>1. q \in 1..TextLen + 1 /\ PastBlank(q) # q
              BY <1>1, <5>1, <5>2
            <6> QED
              BY <5>2, <6>1, SkipWhitespaceTurn
          <5>4. q + 1 \in n + 1..TextLen + 1
            BY <1>1, <3>2, <4>3
          <5>5. q + 1 \in T /\ SkipWhitespace[q + 1] \in q + 1..TextLen + 1
                /\ Skipped(Text, q + 1, SkipWhitespace[q + 1])
            BY <1>2, <1>3, <5>4
          <5>6. IsBlankPiece(SubSeq(Text, n, (q + 1) - 1))
            <6>1. q \in n..TextLen
              BY <3>2, <4>3
            <6> QED
              BY <3>2, <3>7, <4>2, <5>1, <6>1, LinePiece
          <5>7. n \in Nat /\ q + 1 \in Nat /\ n < q + 1
            BY <3>2
          <5>8. Skipped(Text, n, SkipWhitespace[q + 1])
            BY <1>1, <5>5, <5>6, <5>7, SkippedMore
          <5> QED
            BY <1>2, <3>3, <3>5, <5>3, <5>8
        <4>4. CASE q > TextLen
          <5>1. q = TextLen + 1 /\ SkipWhitespace[q] = TextLen + 1
            BY <1>1, <3>2, <3>4, <4>4
          <5>2. \A r \in n..TextLen : ~At(r, {"\n"})
            BY <1>1, <4>2, <5>1
          <5>3. Unfinished(SubSeq(Text, n, TextLen))
            BY <3>2, <3>7, <5>2, LineUnfinished
          <5>4. n \in n..Len(Text) /\ Cut(Text, {n}, n, n)
            BY <1>1, <3>2, CutNothing
          <5>5. Skipped(Text, n, SkipWhitespace[q])
            BY <1>1, <5>1, <5>3, <5>4 DEF Skipped
          <5> QED
            BY <1>2, <3>3, <3>5, <5>5
        <4> QED
          BY <1>1, <3>2, <4>3, <4>4
      <3>8. CASE ~At(n, Blanks) /\ ~(At(n, {"/"}) /\ At(n + 1, {"/"})) /\ At(n, {"/"}) /\ At(n + 1, {"*"})
        <4>1. q = PastComment(n + 2) /\ n + 2 \in 1..TextLen + 1
          BY <1>1, <3>1, <3>8 DEF PastBlank, At
        <4>2. \/ q = TextLen + 1 /\ \A r \in n + 2..TextLen : ~Finish(r)
              \/ \E r \in n + 2..TextLen - 1 : /\ Finish(r) /\ q = r + 2
                                               /\ \A j \in n + 2..r - 1 : ~Finish(j)
          BY <4>1, PastCommentWorks
        <4>3. CASE q = TextLen + 1 /\ \A r \in n + 2..TextLen : ~Finish(r)
          <5>1. SkipWhitespace[q] = TextLen + 1
            BY <1>1, <3>4, <4>3
          <5>2. Unfinished(SubSeq(Text, n, TextLen))
            BY <3>2, <3>8, <4>3, BlockUnfinished
          <5>3. n \in n..Len(Text) /\ Cut(Text, {n}, n, n)
            BY <1>1, <3>2, CutNothing
          <5>4. Skipped(Text, n, SkipWhitespace[q])
            BY <1>1, <5>1, <5>2, <5>3 DEF Skipped
          <5> QED
            BY <1>2, <3>3, <3>5, <5>4
        <4>4. CASE \E r \in n + 2..TextLen - 1 : /\ Finish(r) /\ q = r + 2
                                                 /\ \A j \in n + 2..r - 1 : ~Finish(j)
          <5>1. IsBlankPiece(SubSeq(Text, n, q - 1))
            BY <3>2, <3>8, <4>4, BlockPiece
          <5>2. n \in Nat /\ q \in Nat /\ n < q
            BY <3>2
          <5>3. Skipped(Text, n, SkipWhitespace[q])
            BY <1>1, <3>4, <5>1, <5>2, SkippedMore
          <5> QED
            BY <1>2, <3>3, <3>5, <5>3
        <4> QED
          BY <4>2, <4>3, <4>4
      <3>9. CASE ~At(n, Blanks) /\ ~(At(n, {"/"}) /\ At(n + 1, {"/"})) /\ ~(At(n, {"/"}) /\ At(n + 1, {"*"}))
        <4>1. PastBlank(n) = n
          BY <3>9 DEF PastBlank
        <4> QED
          BY <2>2, <4>1
      <3> QED
        BY <3>6, <3>7, <3>8, <3>9
    <2> QED
      BY <2>1, <2>2
  <1>4. \A q \in 1..TextLen + 1 : q \in T
    <2>1. 1 \in Int /\ TextLen + 1 \in Int
      BY <1>1
    <2> QED
      BY ONLY <2>1, <1>3, GoingDown
  <1> QED
    BY <1>2, <1>4

-----------------------------------------------------------------------------
(* What is cut off.                                                        *)

\* the text from p on, up to and including q
Part(p, q) == SubSeq(Text, p, q)

\* x is the longest lexeme that starts at p, or none starts there
Longest(p, x) ==
  /\ x.end \in p + 1..TextLen + 1
  /\ \/ x.type = "UNKNOWN" /\ \A q \in p..TextLen : ~IsLexeme(Part(p, q))
     \/ /\ x.type \in Kinds /\ Is(x.type, Part(p, x.end - 1))
        /\ \A q \in x.end..TextLen : ~IsLexeme(Part(p, q))

\* A part that is not empty, character by character.
LEMMA PartWorks ==
  ASSUME Text \in Seq(STRING), NEW p \in 1..TextLen, NEW q \in p..TextLen
  PROVE  /\ Part(p, q) \in Seq(STRING) /\ Part(p, q) # <<>>
         /\ Len(Part(p, q)) = (q - p) + 1 /\ DOMAIN Part(p, q) = 1..(q - p) + 1
         /\ \A i \in 1..(q - p) + 1 : Part(p, q)[i] = Text[(p + i) - 1]
         /\ Part(p, q)[1] = Text[p]
  <1>1. TextLen = Len(Text) /\ TextLen \in Nat
    BY DEF TextLen
  <1>2. PICK s : s = SubSeq(Text, p, (q + 1) - 1)
    OBVIOUS
  <1>3. q + 1 \in p..Len(Text) + 1 /\ (q + 1) - 1 = q /\ (q + 1) - p = (q - p) + 1
    BY <1>1
  <1>4. /\ s \in Seq(STRING) /\ Len(s) = (q - p) + 1 /\ DOMAIN s = 1..(q - p) + 1
        /\ \A i \in 1..(q - p) + 1 : s[i] = Text[(p + i) - 1]
    BY <1>1, <1>2, <1>3, PartOfText
  <1>5. s # <<>> /\ s[1] = Text[p]
    <2>1. 1 \in 1..(q - p) + 1 /\ (p + 1) - 1 = p
      BY <1>1
    <2>2. s[1] = Text[(p + 1) - 1]
      BY <1>4, <2>1
    <2>3. Len(s) # 0
      BY <1>1, <1>4
    <2> QED
      BY <1>4, <2>1, <2>2, <2>3
  <1>6. s = Part(p, q)
    BY <1>2, <1>3 DEF Part
  <1> QED
    BY <1>4, <1>5, <1>6

\* An operator of two characters is one of one character and what may follow it.
LEMMA DoubleParts ==
  /\ \A s \in Doubles : \E c \in Singles : \E d \in Follows(c) : s = <<c, d>>
  /\ \A c : \A d \in Follows(c) : <<c, d>> \in Doubles
  <1>1. ASSUME NEW s \in Doubles PROVE \E c \in Singles : \E d \in Follows(c) : s = <<c, d>>
    <2>1. CASE \E c \in {"+", "-", "*", "/", "%", "=", "!", "<", ">"} : s = <<c, "=">>
      <3>1. PICK c \in {"+", "-", "*", "/", "%", "=", "!", "<", ">"} : s = <<c, "=">>
        BY <2>1
      <3>2. c \in Singles /\ "=" \in Follows(c)
        BY DEF Singles, Follows
      <3> QED
        BY <3>1, <3>2
    <2>2. CASE s \in {<<"+", "+">>, <<"-", "-">>, <<"&", "&">>, <<"|", "|">>, <<"-", ">">>}
      <3>1. /\ "+" \in Singles /\ "-" \in Singles /\ "&" \in Singles /\ "|" \in Singles
            /\ "+" \in Follows("+") /\ "-" \in Follows("-") /\ "&" \in Follows("&")
            /\ "|" \in Follows("|") /\ ">" \in Follows("-")
        BY DEF Singles, Follows
      <3> QED
        BY <2>2, <3>1
    <2> QED
      BY <2>1, <2>2 DEF Doubles
  <1>2. ASSUME NEW c, NEW d \in Follows(c) PROVE <<c, d>> \in Doubles
    <2>1. \/ c = "+" /\ d \in {"+", "="}
          \/ c = "-" /\ d \in {"-", "=", ">"}
          \/ c = "&" /\ d = "&"
          \/ c = "|" /\ d = "|"
          \/ c \in {"=", "!", "<", ">", "*", "/", "%"} /\ d = "="
      <3>1. CASE c \in {"+", "-", "&", "|"}
        <4>1. /\ Follows("+") = {"+", "="} /\ Follows("-") = {"-", "=", ">"}
              /\ Follows("&") = {"&"} /\ Follows("|") = {"|"}
          BY DEF Follows
        <4> QED
          BY <3>1, <4>1
      <3>2. CASE c \in {"=", "!", "<", ">", "*", "/", "%"}
        BY <3>2 DEF Follows
      <3>3. CASE c \notin {"+", "-", "&", "|"} \cup {"=", "!", "<", ">", "*", "/", "%"}
        <4>1. Follows(c) = {}
          BY <3>3 DEF Follows
        <4> QED
          BY <4>1
      <3> QED
        BY <3>1, <3>2, <3>3
    <2> QED
      BY <2>1 DEF Doubles
  <1> QED
    BY <1>1, <1>2

\* The first character of a lexeme tells its kind.
LEMMA FirstTells ==
  ASSUME NEW s \in Seq(STRING), IsLexeme(s)
  PROVE  \/ s[1] \in Alpha /\ IsWord(s)
         \/ s[1] \in Digits /\ (IsInteger(s) \/ IsFraction(s))
         \/ s[1] = Quote /\ IsString(s)
         \/ s[1] = "'" /\ IsCharacter(s)
         \/ s[1] \in Singles /\ IsOperator(s)
  <1>1. IsWord(s) \/ IsInteger(s) \/ IsFraction(s) \/ IsString(s) \/ IsCharacter(s) \/ IsOperator(s)
    BY DEF IsLexeme, Is, Kinds
  <1>2. CASE IsWord(s)
    BY <1>2 DEF IsWord
  <1>3. CASE IsInteger(s)
    <2>1. s[1] \in Digits
      BY <1>3 DEF IsInteger, Figures, Digits
    <2> QED
      BY <1>3, <2>1
  <1>4. CASE IsFraction(s)
    <2>1. PICK k \in 1..Len(s) : Figures(SubSeq(s, 1, k - 1))
      BY <1>4 DEF IsFraction
    <2>2. PICK f : f = SubSeq(s, 1, k - 1)
      OBVIOUS
    <2>3. /\ f \in Seq(STRING) /\ Len(f) = k - 1 /\ \A i \in 1..k - 1 : f[i] = s[(1 + i) - 1]
      <3>1. 1 \in 1..Len(s) + 1 /\ k \in 1..Len(s) + 1
        OBVIOUS
      <3> QED
        BY <2>2, <3>1, PartOfText
    <2>4. f # <<>> /\ f[1] \in Digits
      BY <2>1, <2>2 DEF Figures
    <2>5. k - 1 # 0
      BY <2>3, <2>4
    <2>6. 1 \in 1..k - 1 /\ (1 + 1) - 1 = 1
      BY <2>5
    <2>7. f[1] = s[(1 + 1) - 1]
      BY <2>3, <2>6
    <2> QED
      BY <1>4, <2>4, <2>6, <2>7
  <1>5. CASE IsString(s)
    BY <1>5 DEF IsString
  <1>6. CASE IsCharacter(s)
    BY <1>6 DEF IsCharacter
  <1>7. CASE IsOperator(s)
    <2>1. s[1] \in Singles
      <3>1. CASE s \in Doubles
        <4>1. PICK c, d : s = <<c, d>> /\ c \in Singles
          BY <3>1, DoubleParts
        <4> QED
          BY <4>1
      <3> QED
        BY <1>7, <3>1 DEF IsOperator
    <2> QED
      BY <1>7, <2>1
  <1> QED
    BY <1>1, <1>2, <1>3, <1>4, <1>5, <1>6, <1>7

\* The kinds of first characters have nothing in common.
LEMMA FirstsDiffer ==
  /\ Alpha \cap Digits = {} /\ Alpha \cap Singles = {} /\ Digits \cap Singles = {}
  /\ Quote \notin Alpha \cup Digits \cup Singles /\ "'" \notin Alpha \cup Digits \cup Singles
  /\ Quote # "'"
  BY DEF Alpha, Digits, Singles, Quote

\* A name or keyword is as long as letters and digits go.
LEMMA WordLongest ==
  ASSUME Text \in Seq(STRING), NEW p \in 1..TextLen, At(p, Alpha)
  PROVE  Longest(p, Lexeme("WORD", PastAll(p, Alpha \cup Digits)))
  <1>1. TextLen = Len(Text) /\ TextLen \in Nat
    BY DEF TextLen
  <1>2. PICK S : S = Alpha \cup Digits
    OBVIOUS
  <1>3. PICK e : e = PastAll(p, S)
    OBVIOUS
  <1>4. e \in p..TextLen + 1 /\ ~At(e, S) /\ \A r \in p..e - 1 : At(r, S)
    <2>1. p \in 1..TextLen + 1
      BY <1>1
    <2> QED
      BY <1>3, <2>1, PastAllWorks
  <1>5. e \in p + 1..TextLen + 1
    <2>1. e # p
      BY <1>2, <1>4 DEF At
    <2> QED
      BY <1>1, <1>4, <2>1
  <1>6. IsWord(Part(p, e - 1))
    <2>1. e - 1 \in p..TextLen
      BY <1>1, <1>5
    <2>2. PICK s : s = Part(p, e - 1)
      OBVIOUS
    <2>3. /\ s # <<>> /\ s[1] = Text[p] /\ DOMAIN s = 1..((e - 1) - p) + 1
          /\ \A i \in 1..((e - 1) - p) + 1 : s[i] = Text[(p + i) - 1]
      BY <2>1, <2>2, PartWorks
    <2>4. ASSUME NEW i \in DOMAIN s PROVE s[i] \in S
      <3>1. (p + i) - 1 \in p..e - 1
        BY <1>1, <1>5, <2>3
      <3> QED
        BY <1>4, <2>3, <3>1 DEF At
    <2> QED
      BY <1>2, <2>2, <2>3, <2>4 DEF IsWord, AllIn, At
  <1>7. ASSUME NEW q \in e..TextLen PROVE ~IsLexeme(Part(p, q))
    <2>1. q \in p..TextLen
      BY <1>1, <1>5
    <2>2. PICK s : s = Part(p, q)
      OBVIOUS
    <2>3. /\ s \in Seq(STRING) /\ s[1] = Text[p] /\ DOMAIN s = 1..(q - p) + 1
          /\ \A i \in 1..(q - p) + 1 : s[i] = Text[(p + i) - 1]
      BY <2>1, <2>2, PartWorks
    <2>4. (e - p) + 1 \in DOMAIN s /\ s[(e - p) + 1] \notin S
      <3>1. (e - p) + 1 \in 1..(q - p) + 1 /\ (p + ((e - p) + 1)) - 1 = e
        BY <1>1, <1>5
      <3>2. s[(e - p) + 1] = Text[e]
        BY <2>3, <3>1
      <3>3. e <= TextLen
        BY <1>1, <1>5
      <3> QED
        BY <1>4, <2>3, <3>1, <3>2, <3>3 DEF At
    <2>5. ~IsWord(s)
      BY <1>2, <2>4 DEF IsWord, AllIn
    <2>6. s[1] \in Alpha
      BY <2>3 DEF At
    <2> QED
      BY <2>2, <2>3, <2>5, <2>6, FirstTells, FirstsDiffer
  <1> QED
    BY <1>2, <1>3, <1>5, <1>6, <1>7 DEF Longest, Lexeme, Kinds, Is

\* An operator takes its second character if there is one that fits.
LEMMA OperatorLongest ==
  ASSUME Text \in Seq(STRING), NEW p \in 1..TextLen,
         ~At(p, Alpha), ~At(p, Digits), ~At(p, {Quote}), ~At(p, {"'"})
  PROVE  Longest(p, LexOperator(p))
  <1>1. TextLen = Len(Text) /\ TextLen \in Nat
    BY DEF TextLen
  <1>2. PICK c : c = Text[p]
    OBVIOUS
  <1>3. c \notin Alpha /\ c \notin Digits /\ c # Quote /\ c # "'"
    BY <1>2 DEF At
  <1>4. ASSUME NEW q \in p..TextLen, IsLexeme(Part(p, q))
        PROVE  c \in Singles /\ IsOperator(Part(p, q))
    BY <1>2, <1>3, <1>4, PartWorks, FirstTells
  <1>5. CASE c \notin Singles
    <2>1. LexOperator(p) = Lexeme("UNKNOWN", p + 1)
      BY <1>2, <1>5 DEF LexOperator, At
    <2>2. p + 1 \in p + 1..TextLen + 1
      BY <1>1
    <2> QED
      BY <1>4, <1>5, <2>1, <2>2 DEF Longest, Lexeme
  <1>6. CASE c \in Singles
    <2>1. PICK e : e = IF At(p + 1, Follows(c)) THEN p + 2 ELSE p + 1
      OBVIOUS
    <2>2. LexOperator(p) = Lexeme("OPERATOR", e)
      BY <1>1, <1>2, <1>6, <2>1 DEF LexOperator, At
    <2>3. e \in p + 1..TextLen + 1
      BY <1>1, <2>1 DEF At
    <2>4. IsOperator(Part(p, e - 1))
      <3>1. CASE At(p + 1, Follows(c))
        <4>1. p + 1 \in p..TextLen /\ e - 1 = p + 1
          BY <1>1, <2>1, <3>1 DEF At
        <4>2. PICK s : s = Part(p, p + 1)
          OBVIOUS
        <4>3. /\ s \in Seq(STRING) /\ Len(s) = ((p + 1) - p) + 1 /\ s[1] = Text[p]
              /\ \A i \in 1..((p + 1) - p) + 1 : s[i] = Text[(p + i) - 1]
          BY <4>1, <4>2, PartWorks
        <4>4. ((p + 1) - p) + 1 = 2 /\ (p + 2) - 1 = p + 1
          OBVIOUS
        <4>5. Len(s) = 2 /\ s[2] = Text[p + 1]
          <5>1. 2 \in 1..((p + 1) - p) + 1
            BY <4>4
          <5>2. s[2] = Text[(p + 2) - 1]
            BY <4>3, <5>1
          <5> QED
            BY <4>3, <4>4, <5>2
        <4>6. s = <<c, Text[p + 1]>>
          BY <1>2, <4>3, <4>5
        <4>7. s \in Doubles
          BY <3>1, <4>6, DoubleParts DEF At
        <4> QED
          BY <4>1, <4>2, <4>7 DEF IsOperator
      <3>2. CASE ~At(p + 1, Follows(c))
        <4>1. p \in p..TextLen /\ e - 1 = p /\ (p - p) + 1 = 1
          BY <1>1, <2>1, <3>2
        <4>2. Len(Part(p, p)) = 1 /\ Part(p, p)[1] = c
          BY <1>2, <4>1, PartWorks
        <4> QED
          BY <1>6, <4>1, <4>2 DEF IsOperator
      <3> QED
        BY <3>1, <3>2
    <2>5. ASSUME NEW q \in e..TextLen, IsLexeme(Part(p, q)) PROVE FALSE
      <3>1. q \in p..TextLen /\ q >= e
        BY <1>1, <2>3
      <3>2. PICK s : s = Part(p, q)
        OBVIOUS
      <3>3. /\ IsOperator(s) /\ Len(s) = (q - p) + 1 /\ s[1] = c
            /\ \A i \in 1..(q - p) + 1 : s[i] = Text[(p + i) - 1]
        BY <1>2, <1>4, <2>5, <3>1, <3>2, PartWorks
      <3>4. Len(s) >= 2
        BY <1>1, <2>1, <3>1, <3>3
      <3>5. s \in Doubles
        BY <3>3, <3>4 DEF IsOperator
      <3>6. PICK a, d : s = <<a, d>> /\ d \in Follows(a)
        BY <3>5, DoubleParts
      <3>7. Len(s) = 2 /\ s[1] = a /\ s[2] = d
        BY <3>6
      <3>8. q = p + 1
        <4>1. (q - p) + 1 = 2
          BY <3>3, <3>7
        <4> QED
          BY <1>1, <3>1, <4>1
      <3>9. s[2] = Text[p + 1]
        <4>1. 2 \in 1..(q - p) + 1 /\ (p + 2) - 1 = p + 1
          BY <1>1, <3>8
        <4>2. s[2] = Text[(p + 2) - 1]
          BY <3>3, <4>1
        <4> QED
          BY <4>1, <4>2
      <3>10. At(p + 1, Follows(c))
        <4>1. Text[p + 1] = d /\ d \in Follows(c) /\ p + 1 <= TextLen
          BY <3>1, <3>3, <3>6, <3>7, <3>8, <3>9
        <4> QED
          BY <4>1 DEF At
      <3> QED
        BY <1>1, <2>1, <3>1, <3>8, <3>10
    <2> QED
      BY <2>2, <2>3, <2>4, <2>5 DEF Longest, Lexeme, Kinds, Is
  <1> QED
    BY <1>5, <1>6

\* A character literal is three characters, or four with a backslash.
LEMMA CharacterLongest ==
  ASSUME Text \in Seq(STRING), NEW p \in 1..TextLen, At(p, {"'"})
  PROVE  Longest(p, LexChar(p))
  <1>1. TextLen = Len(Text) /\ TextLen \in Nat
    BY DEF TextLen
  <1>2. PICK q : q = IF At(p + 1, {"\\"}) THEN p + 2 ELSE p + 1
    OBVIOUS
  <1>3. LexChar(p) = IF q > TextLen THEN Lexeme("UNKNOWN", TextLen + 1)
                     ELSE IF ~At(q + 1, {"'"}) THEN Lexeme("UNKNOWN", q + 1) ELSE Lexeme("CHAR_LIT", q + 2)
    BY <1>2 DEF LexChar
  <1>4. q \in p + 1..p + 2
    BY <1>1, <1>2
  <1>5. ASSUME NEW m \in p..TextLen
        PROVE  IsCharacter(Part(p, m)) <=> m = q + 1 /\ Text[m] = "'"
    <2>1. PICK s : s = Part(p, m)
      OBVIOUS
    <2>2. /\ s # <<>> /\ Len(s) = (m - p) + 1 /\ s[1] = "'"
          /\ \A i \in 1..(m - p) + 1 : s[i] = Text[(p + i) - 1]
      BY <2>1, PartWorks DEF At
    <2>3. s[Len(s)] = Text[m]
      <3>1. (m - p) + 1 \in 1..(m - p) + 1 /\ (p + ((m - p) + 1)) - 1 = m
        BY <1>1
      <3> QED
        BY <2>2, <3>1
    <2>4. Len(s) > 1 => (s[2] = "\\" <=> q = p + 2)
      <3> SUFFICES ASSUME Len(s) > 1 PROVE s[2] = "\\" <=> q = p + 2
        OBVIOUS
      <3>1. 2 \in 1..(m - p) + 1 /\ (p + 2) - 1 = p + 1 /\ p + 1 <= TextLen
        BY <1>1, <2>2
      <3>2. s[2] = Text[p + 1]
        <4>1. s[2] = Text[(p + 2) - 1]
          BY <2>2, <3>1
        <4> QED
          BY <3>1, <4>1
      <3> QED
        BY <1>1, <1>2, <3>1, <3>2 DEF At
    <2>5. CASE Len(s) > 1
      <3>1. (IF Len(s) > 1 /\ s[2] = "\\" THEN 4 ELSE 3) = (q - p) + 2
        BY <1>1, <1>4, <2>4, <2>5
      <3>2. Len(s) = (q - p) + 2 <=> m = q + 1
        BY <1>1, <1>4, <2>2
      <3> QED
        BY <2>1, <2>2, <2>3, <3>1, <3>2 DEF IsCharacter
    <2>6. CASE ~(Len(s) > 1)
      <3>1. Len(s) # 3 /\ m # q + 1
        BY <1>1, <1>4, <2>2, <2>6
      <3> QED
        BY <2>1, <2>6, <3>1 DEF IsCharacter
    <2> QED
      BY <2>5, <2>6
  <1>6. ASSUME NEW m \in p..TextLen, IsLexeme(Part(p, m)) PROVE m = q + 1 /\ Text[m] = "'"
    <2>1. Part(p, m) \in Seq(STRING) /\ Part(p, m)[1] = "'"
      BY PartWorks DEF At
    <2>2. IsCharacter(Part(p, m))
      BY <1>6, <2>1, FirstTells, FirstsDiffer
    <2> QED
      BY <1>5, <2>2
  <1>7. CASE q > TextLen
    <2>1. TextLen + 1 \in p + 1..TextLen + 1
      BY <1>1
    <2>2. \A m \in p..TextLen : ~IsLexeme(Part(p, m))
      BY <1>1, <1>4, <1>6, <1>7
    <2> QED
      BY <1>3, <1>7, <2>1, <2>2 DEF Longest, Lexeme
  <1>8. CASE q <= TextLen /\ ~At(q + 1, {"'"})
    <2>1. q + 1 \in p + 1..TextLen + 1
      BY <1>1, <1>4, <1>8
    <2>2. \A m \in p..TextLen : ~IsLexeme(Part(p, m))
      <3> SUFFICES ASSUME NEW m \in p..TextLen, IsLexeme(Part(p, m)) PROVE FALSE
        OBVIOUS
      <3>1. m = q + 1 /\ Text[m] = "'"
        BY <1>6
      <3> QED
        BY <1>8, <3>1 DEF At
    <2>3. LexChar(p) = Lexeme("UNKNOWN", q + 1)
      BY <1>1, <1>3, <1>4, <1>8
    <2> QED
      BY <2>1, <2>2, <2>3 DEF Longest, Lexeme
  <1>9. CASE q <= TextLen /\ At(q + 1, {"'"})
    <2>1. q + 1 \in p..TextLen /\ Text[q + 1] = "'" /\ (q + 2) - 1 = q + 1
      BY <1>1, <1>4, <1>9 DEF At
    <2>2. IsCharacter(Part(p, (q + 2) - 1))
      BY <1>5, <2>1
    <2>3. \A m \in q + 2..TextLen : ~IsLexeme(Part(p, m))
      <3> SUFFICES ASSUME NEW m \in q + 2..TextLen, IsLexeme(Part(p, m)) PROVE FALSE
        OBVIOUS
      <3>1. m \in p..TextLen
        BY <1>1, <1>4
      <3>2. m = q + 1
        BY <1>6, <3>1
      <3> QED
        BY <1>1, <1>4, <3>2
    <2>4. LexChar(p) = Lexeme("CHAR_LIT", q + 2)
      BY <1>1, <1>3, <1>4, <1>9
    <2>5. q + 2 \in p + 1..TextLen + 1
      BY <1>1, <1>4, <2>1
    <2> QED
      BY <2>2, <2>3, <2>4, <2>5 DEF Longest, Lexeme, Kinds, Is
  <1> QED
    BY <1>1, <1>4, <1>7, <1>8, <1>9

-----------------------------------------------------------------------------
(* Numbers, position by position.                                          *)

DigitsOr == Digits \cup {"_"}

AllAt(a, b, S) == \A r \in a..b : At(r, S)
FiguresAt(a, b) == a <= b /\ At(a, Digits) /\ AllAt(a, b, DigitsOr)
RadixAt(a, b, letter, S) == a + 1 <= b /\ At(a, {"0"}) /\ At(a + 1, {letter}) /\ AllAt(a + 2, b, S)
IntegerAt(a, b) ==
  \/ FiguresAt(a, b)
  \/ RadixAt(a, b, "x", HexDigits \cup {"_"})
  \/ RadixAt(a, b, "b", {"0", "1", "_"})
ExponentAt(a, b) ==
  /\ a <= b /\ At(a, {"e"})
  /\ \/ AllAt(a + 1, b, DigitsOr)
     \/ a + 1 <= b /\ At(a + 1, {"+", "-"}) /\ AllAt(a + 2, b, DigitsOr)
FractionAt(a, b) ==
  \E d \in a..b :
    /\ At(d, {"."}) /\ FiguresAt(a, d - 1)
    /\ \E m \in d + 1..b : FiguresAt(d + 1, m) /\ (m = b \/ ExponentAt(m + 1, b))

\* All characters of a part.
LEMMA PartAll ==
  ASSUME Text \in Seq(STRING), NEW a \in 1..TextLen + 1, NEW b \in a - 1..TextLen, NEW S
  PROVE  /\ Part(a, b) \in Seq(STRING) /\ Len(Part(a, b)) = (b - a) + 1
         /\ Part(a, b) = <<>> <=> b = a - 1
         /\ \A i \in 1..(b - a) + 1 : Part(a, b)[i] = Text[(a + i) - 1]
         /\ AllIn(Part(a, b), S) <=> AllAt(a, b, S)
  <1>1. TextLen = Len(Text) /\ TextLen \in Nat
    BY DEF TextLen
  <1>2. PICK s : s = SubSeq(Text, a, (b + 1) - 1)
    OBVIOUS
  <1>3. b + 1 \in a..Len(Text) + 1 /\ (b + 1) - 1 = b /\ (b + 1) - a = (b - a) + 1
    BY <1>1
  <1>4. /\ s \in Seq(STRING) /\ Len(s) = (b - a) + 1 /\ DOMAIN s = 1..(b - a) + 1
        /\ \A i \in 1..(b - a) + 1 : s[i] = Text[(a + i) - 1]
    BY <1>1, <1>2, <1>3, PartOfText
  <1>5. s = Part(a, b)
    BY <1>2, <1>3 DEF Part
  <1>6. s = <<>> <=> b = a - 1
    <2>1. s = <<>> <=> Len(s) = 0
      BY <1>4
    <2> QED
      BY <1>1, <1>4, <2>1
  <1>7. ASSUME AllIn(s, S), NEW r \in a..b PROVE At(r, S)
    <2>1. (r - a) + 1 \in 1..(b - a) + 1 /\ (a + ((r - a) + 1)) - 1 = r /\ r <= TextLen
      BY <1>1
    <2>2. s[(r - a) + 1] = Text[r] /\ s[(r - a) + 1] \in S
      BY <1>4, <1>7, <2>1 DEF AllIn
    <2> QED
      BY <2>1, <2>2 DEF At
  <1>8. ASSUME AllAt(a, b, S), NEW i \in DOMAIN s PROVE s[i] \in S
    <2>1. (a + i) - 1 \in a..b
      BY <1>1, <1>4
    <2> QED
      BY <1>4, <1>8, <2>1 DEF AllAt, At
  <1> QED
    BY <1>4, <1>5, <1>6, <1>7, <1>8 DEF AllIn, AllAt

\* Parts of a part.
LEMMA PartPart ==
  ASSUME Text \in Seq(STRING), NEW p \in 1..TextLen, NEW q \in p..TextLen,
         NEW a \in p..q + 1, NEW b \in a - 1..q
  PROVE  SubSeq(Part(p, q), (a - p) + 1, (b - p) + 1) = Part(a, b)
  <1>1. TextLen = Len(Text) /\ TextLen \in Nat
    BY DEF TextLen
  <1>2. q + 1 \in p..Len(Text) + 1 /\ (q + 1) - 1 = q
    BY <1>1
  <1>3. /\ (a - p) + 1 \in 1..((q + 1) - p) + 1
        /\ (b - p) + 2 \in (a - p) + 1..((q + 1) - p) + 1
    BY <1>1
  <1>4. SubSeq(SubSeq(Text, p, (q + 1) - 1), (a - p) + 1, ((b - p) + 2) - 1)
          = SubSeq(Text, (((a - p) + 1) + p) - 1, ((((b - p) + 2) + p) - 1) - 1)
    BY <1>1, <1>2, <1>3, PartOfPart
  <1>5. /\ (((a - p) + 1) + p) - 1 = a /\ ((((b - p) + 2) + p) - 1) - 1 = b
        /\ ((b - p) + 2) - 1 = (b - p) + 1
    BY <1>1
  <1> QED
    BY <1>2, <1>4, <1>5 DEF Part

\* Figures are figures.
LEMMA FiguresWork ==
  ASSUME Text \in Seq(STRING), NEW a \in 1..TextLen + 1, NEW b \in a - 1..TextLen
  PROVE  Figures(Part(a, b)) <=> FiguresAt(a, b)
  <1>1. TextLen \in Nat
    BY DEF TextLen
  <1>2. /\ Part(a, b) = <<>> <=> b = a - 1
        /\ AllIn(Part(a, b), DigitsOr) <=> AllAt(a, b, DigitsOr)
        /\ \A i \in 1..(b - a) + 1 : Part(a, b)[i] = Text[(a + i) - 1]
    BY PartAll
  <1>3. CASE b = a - 1
    <2>1. Part(a, b) = <<>> /\ ~(a <= b)
      BY <1>1, <1>2, <1>3
    <2> QED
      BY <2>1 DEF Figures, FiguresAt
  <1>4. CASE b # a - 1
    <2>1. a <= b /\ 1 \in 1..(b - a) + 1 /\ (a + 1) - 1 = a /\ a <= TextLen
      BY <1>1, <1>4
    <2>2. Part(a, b)[1] = Text[(a + 1) - 1]
      BY <1>2, <2>1
    <2>3. Part(a, b)[1] \in Digits <=> At(a, Digits)
      BY <2>1, <2>2 DEF At
    <2> QED
      BY <1>2, <1>4, <2>1, <2>3 DEF Figures, FiguresAt, DigitsOr
  <1> QED
    BY <1>3, <1>4

\* Integers are integers.
LEMMA IntegerWorks ==
  ASSUME Text \in Seq(STRING), NEW p \in 1..TextLen, NEW q \in p..TextLen
  PROVE  IsInteger(Part(p, q)) <=> IntegerAt(p, q)
  <1>1. TextLen \in Nat
    BY DEF TextLen
  <1>2. PICK s : s = Part(p, q)
    OBVIOUS
  <1>3. /\ Len(s) = (q - p) + 1 /\ s[1] = Text[p]
        /\ \A i \in 1..(q - p) + 1 : s[i] = Text[(p + i) - 1]
    BY <1>2, PartWorks
  <1>4. Figures(s) <=> FiguresAt(p, q)
    <2>1. p \in 1..TextLen + 1 /\ q \in p - 1..TextLen
      BY <1>1
    <2> QED
      BY <1>2, <2>1, FiguresWork
  <1>5. ASSUME NEW letter, NEW S
        PROVE  (Len(s) >= 2 /\ s[1] = "0" /\ s[2] = letter /\ AllIn(From(s, 3), S))
                 <=> RadixAt(p, q, letter, S)
    <2>1. CASE p + 1 <= q
      <3>1. Len(s) >= 2 /\ 2 \in 1..(q - p) + 1 /\ (p + 2) - 1 = p + 1 /\ p + 1 <= TextLen
        BY <1>1, <1>3, <2>1
      <3>2. s[2] = Text[(p + 2) - 1]
        BY <1>3, <3>1
      <3>3. s[1] = "0" <=> At(p, {"0"})
        BY <1>1, <1>3 DEF At
      <3>4. s[2] = letter <=> At(p + 1, {letter})
        BY <3>1, <3>2 DEF At
      <3>5. From(s, 3) = Part(p + 2, q)
        <4>1. p + 2 \in p..q + 1 /\ q \in (p + 2) - 1..q
          BY <1>1, <2>1
        <4>2. SubSeq(Part(p, q), ((p + 2) - p) + 1, (q - p) + 1) = Part(p + 2, q)
          BY <4>1, PartPart
        <4>3. ((p + 2) - p) + 1 = 3
          OBVIOUS
        <4> QED
          BY <1>2, <1>3, <4>2, <4>3 DEF From
      <3>6. AllIn(From(s, 3), S) <=> AllAt(p + 2, q, S)
        <4>1. p + 2 \in 1..TextLen + 1 /\ q \in (p + 2) - 1..TextLen
          BY <1>1, <2>1
        <4> QED
          BY <3>5, <4>1, PartAll
      <3> QED
        BY <2>1, <3>1, <3>3, <3>4, <3>6 DEF RadixAt
    <2>2. CASE ~(p + 1 <= q)
      BY <1>1, <1>3, <2>2 DEF RadixAt
    <2> QED
      BY <2>1, <2>2
  <1> QED
    BY <1>2, <1>4, <1>5 DEF IsInteger, IntegerAt

\* Exponents are exponents.
LEMMA ExponentWorks ==
  ASSUME Text \in Seq(STRING), NEW a \in 1..TextLen, NEW b \in a..TextLen
  PROVE  IsExponent(Part(a, b)) <=> ExponentAt(a, b)
  <1>1. TextLen \in Nat
    BY DEF TextLen
  <1>2. PICK s : s = Part(a, b)
    OBVIOUS
  <1>3. /\ s # <<>> /\ Len(s) = (b - a) + 1 /\ s[1] = Text[a]
        /\ \A i \in 1..(b - a) + 1 : s[i] = Text[(a + i) - 1]
    BY <1>2, PartWorks
  <1>4. s[1] = "e" <=> At(a, {"e"})
    BY <1>1, <1>3 DEF At
  <1>5. AllIn(From(s, 2), DigitsOr) <=> AllAt(a + 1, b, DigitsOr)
    <2>1. a + 1 \in a..b + 1 /\ b \in (a + 1) - 1..b /\ ((a + 1) - a) + 1 = 2
      BY <1>1
    <2>2. From(s, 2) = Part(a + 1, b)
      <3>1. SubSeq(Part(a, b), ((a + 1) - a) + 1, (b - a) + 1) = Part(a + 1, b)
        BY <2>1, PartPart
      <3> QED
        BY <1>2, <1>3, <2>1, <3>1 DEF From
    <2>3. a + 1 \in 1..TextLen + 1 /\ b \in (a + 1) - 1..TextLen
      BY <1>1
    <2> QED
      BY <2>2, <2>3, PartAll
  <1>6. (Len(s) >= 2 /\ s[2] \in {"+", "-"} /\ AllIn(From(s, 3), DigitsOr))
          <=> (a + 1 <= b /\ At(a + 1, {"+", "-"}) /\ AllAt(a + 2, b, DigitsOr))
    <2>1. CASE a + 1 <= b
      <3>1. Len(s) >= 2 /\ 2 \in 1..(b - a) + 1 /\ (a + 2) - 1 = a + 1 /\ a + 1 <= TextLen
        BY <1>1, <1>3, <2>1
      <3>2. s[2] = Text[(a + 2) - 1]
        BY <1>3, <3>1
      <3>3. s[2] \in {"+", "-"} <=> At(a + 1, {"+", "-"})
        BY <3>1, <3>2 DEF At
      <3>4. From(s, 3) = Part(a + 2, b)
        <4>1. a + 2 \in a..b + 1 /\ b \in (a + 2) - 1..b
          BY <1>1, <2>1
        <4>2. SubSeq(Part(a, b), ((a + 2) - a) + 1, (b - a) + 1) = Part(a + 2, b)
          BY <4>1, PartPart
        <4>3. ((a + 2) - a) + 1 = 3
          OBVIOUS
        <4> QED
          BY <1>2, <1>3, <4>2, <4>3 DEF From
      <3>5. AllIn(From(s, 3), DigitsOr) <=> AllAt(a + 2, b, DigitsOr)
        <4>1. a + 2 \in 1..TextLen + 1 /\ b \in (a + 2) - 1..TextLen
          BY <1>1, <2>1
        <4> QED
          BY <3>4, <4>1, PartAll
      <3> QED
        BY <2>1, <3>1, <3>3, <3>5
    <2>2. CASE ~(a + 1 <= b)
      BY <1>1, <1>3, <2>2
    <2> QED
      BY <2>1, <2>2
  <1> QED
    <2>1. IsExponent(s) <=> /\ s[1] = "e"
                            /\ \/ AllIn(From(s, 2), DigitsOr)
                               \/ Len(s) >= 2 /\ s[2] \in {"+", "-"} /\ AllIn(From(s, 3), DigitsOr)
      BY <1>3 DEF IsExponent, DigitsOr
    <2>2. a <= b
      OBVIOUS
    <2> QED
      BY <1>2, <1>4, <1>5, <1>6, <2>1, <2>2 DEF ExponentAt

\* Fractions are fractions.
LEMMA FractionWorks ==
  ASSUME Text \in Seq(STRING), NEW p \in 1..TextLen, NEW q \in p..TextLen
  PROVE  IsFraction(Part(p, q)) <=> FractionAt(p, q)
  <1>1. TextLen \in Nat
    BY DEF TextLen
  <1>2. PICK s : s = Part(p, q)
    OBVIOUS
  <1>3. /\ Len(s) = (q - p) + 1
        /\ \A i \in 1..(q - p) + 1 : s[i] = Text[(p + i) - 1]
    BY <1>2, PartWorks
  <1>4. ASSUME NEW d \in p..q
        PROVE  /\ s[(d - p) + 1] = "." <=> At(d, {"."})
               /\ Figures(SubSeq(s, 1, ((d - p) + 1) - 1)) <=> FiguresAt(p, d - 1)
    <2>1. (d - p) + 1 \in 1..(q - p) + 1 /\ (p + ((d - p) + 1)) - 1 = d /\ d <= TextLen
      BY <1>1
    <2>2. s[(d - p) + 1] = Text[d]
      BY <1>3, <2>1
    <2>3. SubSeq(s, 1, ((d - p) + 1) - 1) = Part(p, d - 1)
      <3>1. p \in p..q + 1 /\ d - 1 \in p - 1..q
        BY <1>1
      <3>2. SubSeq(Part(p, q), (p - p) + 1, ((d - 1) - p) + 1) = Part(p, d - 1)
        BY <3>1, PartPart
      <3>3. (p - p) + 1 = 1 /\ ((d - 1) - p) + 1 = ((d - p) + 1) - 1
        OBVIOUS
      <3> QED
        BY <1>2, <3>2, <3>3
    <2>4. p \in 1..TextLen + 1 /\ d - 1 \in p - 1..TextLen
      BY <1>1
    <2> QED
      BY <2>1, <2>2, <2>3, <2>4, FiguresWork DEF At
  <1>5. ASSUME NEW d \in p..q, NEW m \in d + 1..q
        PROVE  /\ Figures(SubSeq(s, ((d - p) + 1) + 1, (m - p) + 1)) <=> FiguresAt(d + 1, m)
               /\ (m - p) + 1 = Len(s) <=> m = q
               /\ m # q => (IsExponent(From(s, ((m - p) + 1) + 1)) <=> ExponentAt(m + 1, q))
    <2>1. SubSeq(s, ((d - p) + 1) + 1, (m - p) + 1) = Part(d + 1, m)
      <3>1. d + 1 \in p..q + 1 /\ m \in (d + 1) - 1..q
        BY <1>1
      <3>2. SubSeq(Part(p, q), ((d + 1) - p) + 1, (m - p) + 1) = Part(d + 1, m)
        BY <3>1, PartPart
      <3>3. ((d + 1) - p) + 1 = ((d - p) + 1) + 1
        OBVIOUS
      <3> QED
        BY <1>2, <3>2, <3>3
    <2>2. d + 1 \in 1..TextLen + 1 /\ m \in (d + 1) - 1..TextLen
      BY <1>1
    <2>3. Figures(SubSeq(s, ((d - p) + 1) + 1, (m - p) + 1)) <=> FiguresAt(d + 1, m)
      BY <2>1, <2>2, FiguresWork
    <2>4. ASSUME m # q PROVE From(s, ((m - p) + 1) + 1) = Part(m + 1, q)
      <3>1. m + 1 \in p..q + 1 /\ q \in (m + 1) - 1..q
        BY <1>1
      <3>2. SubSeq(Part(p, q), ((m + 1) - p) + 1, (q - p) + 1) = Part(m + 1, q)
        BY <3>1, PartPart
      <3>3. ((m + 1) - p) + 1 = ((m - p) + 1) + 1
        OBVIOUS
      <3> QED
        BY <1>2, <1>3, <3>2, <3>3 DEF From
    <2>5. ASSUME m # q PROVE IsExponent(Part(m + 1, q)) <=> ExponentAt(m + 1, q)
      <3>1. m + 1 \in 1..TextLen /\ q \in m + 1..TextLen
        BY <1>1, <2>5
      <3> QED
        BY <3>1, ExponentWorks
    <2> QED
      BY <1>1, <1>3, <2>3, <2>4, <2>5
  <1>6. ASSUME FractionAt(p, q) PROVE IsFraction(s)
    <2>1. PICK d \in p..q :
            /\ At(d, {"."}) /\ FiguresAt(p, d - 1)
            /\ \E m \in d + 1..q : FiguresAt(d + 1, m) /\ (m = q \/ ExponentAt(m + 1, q))
      BY <1>6 DEF FractionAt
    <2>2. PICK m \in d + 1..q : FiguresAt(d + 1, m) /\ (m = q \/ ExponentAt(m + 1, q))
      BY <2>1
    <2>3. PICK k : k = (d - p) + 1
      OBVIOUS
    <2>4. PICK j : j = (m - p) + 1
      OBVIOUS
    <2>5. k \in 1..Len(s) /\ j \in k + 1..Len(s)
      <3>1. k \in 1..(q - p) + 1
        BY <1>1, <2>3
      <3>2. j \in k + 1..(q - p) + 1
        BY <1>1, <2>3, <2>4
      <3> QED
        BY <1>3, <3>1, <3>2
    <2>6. s[k] = "." /\ Figures(SubSeq(s, 1, k - 1))
      BY <1>4, <2>1, <2>3
    <2>7. Figures(SubSeq(s, k + 1, j)) /\ (j = Len(s) \/ IsExponent(From(s, j + 1)))
      BY <1>5, <2>2, <2>3, <2>4
    <2> QED
      BY <2>5, <2>6, <2>7 DEF IsFraction
  <1>7. ASSUME IsFraction(s) PROVE FractionAt(p, q)
    <2>1. PICK k \in 1..Len(s) :
            /\ s[k] = "." /\ Figures(SubSeq(s, 1, k - 1))
            /\ \E j \in k + 1..Len(s) :
                 Figures(SubSeq(s, k + 1, j)) /\ (j = Len(s) \/ IsExponent(From(s, j + 1)))
      BY <1>7 DEF IsFraction
    <2>2. PICK j \in k + 1..Len(s) :
            Figures(SubSeq(s, k + 1, j)) /\ (j = Len(s) \/ IsExponent(From(s, j + 1)))
      BY <2>1
    <2>3. PICK d : d = (p + k) - 1
      OBVIOUS
    <2>4. PICK m : m = (p + j) - 1
      OBVIOUS
    <2>5. k = (d - p) + 1 /\ j = (m - p) + 1 /\ d \in p..q /\ m \in d + 1..q
      BY <1>1, <1>3, <2>3, <2>4
    <2>6. At(d, {"."}) /\ FiguresAt(p, d - 1)
      BY <1>4, <2>1, <2>5
    <2>7. FiguresAt(d + 1, m) /\ (m = q \/ ExponentAt(m + 1, q))
      BY <1>5, <2>2, <2>5
    <2> QED
      BY <2>5, <2>6, <2>7 DEF FractionAt
  <1> QED
    BY <1>2, <1>6, <1>7

\* A lexeme that starts with a digit is a number.
LEMMA NumberTells ==
  ASSUME Text \in Seq(STRING), NEW p \in 1..TextLen, At(p, Digits), NEW q \in p..TextLen,
         IsLexeme(Part(p, q))
  PROVE  IntegerAt(p, q) \/ FractionAt(p, q)
  <1>1. Part(p, q) \in Seq(STRING) /\ Part(p, q)[1] \in Digits
    BY PartWorks DEF At
  <1>2. IsInteger(Part(p, q)) \/ IsFraction(Part(p, q))
    BY <1>1, FirstTells, FirstsDiffer
  <1> QED
    BY <1>2, IntegerWorks, FractionWorks

\* A character is not two things at once.
LEMMA OneCharacter ==
  ASSUME NEW p, NEW S, NEW T, At(p, S), At(p, T), S \cap T = {}
  PROVE  FALSE
  BY DEF At

\* the digits a radix has
IsRadix(letter, S) == <<letter, S>> \in {<<"x", HexDigits \cup {"_"}>>, <<"b", {"0", "1", "_"}>>}

\* A number with a radix is as long as its digits go.
LEMMA RadixLongest ==
  ASSUME Text \in Seq(STRING), NEW p \in 1..TextLen, At(p, {"0"}), NEW letter, At(p + 1, {letter}), NEW S,
         IsRadix(letter, S)
  PROVE  Longest(p, Lexeme("INT_LIT", PastAll(p + 2, S)))
  <1>1. TextLen \in Nat
    BY DEF TextLen
  <1>2. p + 2 \in 1..TextLen + 1 /\ p + 1 <= TextLen
    BY <1>1 DEF At
  <1>3. PICK e : e = PastAll(p + 2, S)
    OBVIOUS
  <1>4. e \in p + 2..TextLen + 1 /\ ~At(e, S) /\ \A r \in p + 2..e - 1 : At(r, S)
    BY <1>2, <1>3, PastAllWorks
  <1>5. At(p, Digits)
    BY DEF At, Digits
  <1>6. letter \notin DigitsOr /\ letter # "." /\ {"0"} \cap {"."} = {}
    BY DEF DigitsOr, Digits, IsRadix
  <1>7. Is("INT_LIT", Part(p, e - 1))
    <2>1. RadixAt(p, e - 1, letter, S)
      BY <1>1, <1>4 DEF RadixAt, AllAt
    <2>2. IntegerAt(p, e - 1)
      BY <2>1 DEF IntegerAt, IsRadix
    <2>3. e - 1 \in p..TextLen
      BY <1>1, <1>4
    <2> QED
      BY <2>2, <2>3, IntegerWorks DEF Is
  <1>8. ASSUME NEW q \in e..TextLen, IsLexeme(Part(p, q)) PROVE FALSE
    <2>1. q \in p..TextLen /\ p + 1 \in p..q /\ e \in p + 2..q
      BY <1>1, <1>4
    <2>2. ~FiguresAt(p, q)
      <3> SUFFICES ASSUME FiguresAt(p, q) PROVE FALSE
        OBVIOUS
      <3>1. At(p + 1, DigitsOr)
        BY <2>1 DEF FiguresAt, AllAt
      <3> QED
        BY <1>6, <3>1 DEF At
    <2>3. ~IntegerAt(p, q)
      <3>1. ASSUME NEW l, NEW R, RadixAt(p, q, l, R), IsRadix(l, R) PROVE FALSE
        <4>0. l = letter
          BY <3>1 DEF RadixAt, At
        <4>1. l = letter /\ R = S
          BY <3>1, <4>0 DEF IsRadix
        <4>2. At(e, S)
          BY <2>1, <3>1, <4>1 DEF RadixAt, AllAt
        <4> QED
          BY <1>4, <4>2
      <3>2. ~RadixAt(p, q, "x", HexDigits \cup {"_"}) /\ ~RadixAt(p, q, "b", {"0", "1", "_"})
        BY <3>1 DEF IsRadix
      <3> QED
        BY <2>2, <3>2 DEF IntegerAt
    <2>4. ~FractionAt(p, q)
      <3> SUFFICES ASSUME FractionAt(p, q) PROVE FALSE
        OBVIOUS
      <3>1. PICK d \in p..q : At(d, {"."}) /\ FiguresAt(p, d - 1)
        BY DEF FractionAt
      <3>2. d # p /\ d # p + 1
        BY <1>6, <3>1 DEF At
      <3>3. p + 1 \in p..d - 1
        BY <3>2
      <3>4. At(p + 1, DigitsOr)
        BY <3>1, <3>3 DEF FiguresAt, AllAt
      <3> QED
        BY <1>6, <3>4 DEF At
    <2> QED
      BY <1>5, <1>8, <2>1, <2>3, <2>4, NumberTells
  <1>9. e \in p + 1..TextLen + 1
    BY <1>1, <1>4
  <1> QED
    BY <1>3, <1>7, <1>8, <1>9 DEF Longest, Lexeme, Kinds

\* A decimal number takes a fraction that has a digit, and an exponent after it.
LEMMA DecimalLongest ==
  ASSUME Text \in Seq(STRING), NEW p \in 1..TextLen, At(p, Digits),
         ~(At(p, {"0"}) /\ At(p + 1, {"x"})), ~(At(p, {"0"}) /\ At(p + 1, {"b"}))
  PROVE  Longest(p, LexNumber(p))
  <1>1. TextLen \in Nat
    BY DEF TextLen
  <1>2. PICK d : d = Mantissa(p)
    OBVIOUS
  <1>3. d \in p..TextLen + 1 /\ ~At(d, DigitsOr) /\ \A r \in p..d - 1 : At(r, DigitsOr)
    <2>1. p \in 1..TextLen + 1
      BY <1>1
    <2> QED
      BY <1>2, <2>1, PastAllWorks DEF Mantissa, DigitsOr
  <1>4. d \in p + 1..TextLen + 1
    <2>1. d # p
      BY <1>3 DEF At, DigitsOr
    <2> QED
      BY <1>1, <1>3, <2>1
  <1>5. \A S : S \cap DigitsOr = {} /\ At(d, S) => d \in p + 1..TextLen
    BY <1>1, <1>4 DEF At
  <1>6. /\ "." \notin DigitsOr /\ "e" \notin DigitsOr
        /\ {"."} \cap DigitsOr = {} /\ {"e"} \cap DigitsOr = {} /\ {"+", "-"} \cap DigitsOr = {}
    BY DEF DigitsOr, Digits
  <1>7. FiguresAt(p, d - 1)
    BY <1>1, <1>3, <1>4 DEF FiguresAt, AllAt
  <1>8. ASSUME NEW q \in p..TextLen, IntegerAt(p, q) PROVE q < d
    <2>1. FiguresAt(p, q)
      BY <1>8 DEF IntegerAt, RadixAt
    <2>2. d \notin p..q
      BY <1>3, <2>1 DEF FiguresAt, AllAt
    <2> QED
      BY <1>1, <1>3, <2>2
  <1>9. ASSUME NEW q \in p..TextLen, FractionAt(p, q)
        PROVE  /\ At(d, {"."}) /\ At(d + 1, Digits) /\ d < q
               /\ \E m \in d + 1..q : FiguresAt(d + 1, m) /\ (m = q \/ ExponentAt(m + 1, q))
    <2>1. PICK c \in p..q :
            /\ At(c, {"."}) /\ FiguresAt(p, c - 1)
            /\ \E m \in c + 1..q : FiguresAt(c + 1, m) /\ (m = q \/ ExponentAt(m + 1, q))
      BY <1>9 DEF FractionAt
    <2>2. ~At(c, DigitsOr)
      BY <1>6, <2>1, OneCharacter
    <2>3. c \notin p..d - 1
      BY <1>3, <2>2
    <2>4. d \notin p..c - 1
      BY <1>3, <2>1 DEF FiguresAt, AllAt
    <2>5. c = d
      BY <1>1, <1>3, <2>3, <2>4
    <2>6. At(d + 1, Digits) /\ d < q
      BY <1>1, <2>1, <2>5 DEF FiguresAt
    <2> QED
      BY <2>1, <2>5, <2>6
  <1>10. CASE ~(At(d, {"."}) /\ At(d + 1, Digits))
    <2>1. LexNumber(p) = Lexeme("INT_LIT", d)
      BY <1>2, <1>10 DEF LexNumber
    <2>2. IntegerAt(p, d - 1) /\ d - 1 \in p..TextLen
      <3>1. IntegerAt(p, d - 1)
        BY <1>7 DEF IntegerAt
      <3> QED
        BY <1>1, <1>4, <3>1
    <2>3. Is("INT_LIT", Part(p, d - 1))
      BY <2>2, IntegerWorks DEF Is
    <2>4. ASSUME NEW q \in d..TextLen, IsLexeme(Part(p, q)) PROVE FALSE
      <3>1. q \in p..TextLen
        BY <1>1, <1>4
      <3>2. IntegerAt(p, q) \/ FractionAt(p, q)
        BY <2>4, <3>1, NumberTells
      <3>3. CASE IntegerAt(p, q)
        BY <1>1, <1>4, <1>8, <3>1, <3>3
      <3>4. CASE FractionAt(p, q)
        BY <1>9, <1>10, <3>1, <3>4
      <3> QED
        BY <3>2, <3>3, <3>4
    <2> QED
      BY <1>4, <2>1, <2>3, <2>4 DEF Longest, Lexeme, Kinds
  <1>11. CASE At(d, {"."}) /\ At(d + 1, Digits)
    <2>1. d \in p + 1..TextLen - 1 /\ d + 1 \in 1..TextLen + 1
      BY <1>1, <1>4, <1>11 DEF At
    <2>2. PICK m : m = Mantissa(d + 1)
      OBVIOUS
    <2>3. m \in d + 1..TextLen + 1 /\ ~At(m, DigitsOr) /\ \A r \in d + 1..m - 1 : At(r, DigitsOr)
      BY <2>1, <2>2, PastAllWorks DEF Mantissa, DigitsOr
    <2>4. m \in d + 2..TextLen + 1
      <3>1. m # d + 1
        BY <1>11, <2>3 DEF At, DigitsOr
      <3> QED
        BY <1>1, <2>1, <2>3, <3>1
    <2>5. PICK e : e = Exponent(m)
      OBVIOUS
    <2>6. LexNumber(p) = Lexeme("FLOAT_LIT", e)
      BY <1>2, <1>11, <2>2, <2>5 DEF LexNumber
    <2>7. FiguresAt(d + 1, m - 1)
      BY <1>1, <1>11, <2>1, <2>3, <2>4 DEF FiguresAt, AllAt
    <2>8. ASSUME NEW q \in m..TextLen, FractionAt(p, q) PROVE ExponentAt(m, q)
      <3>1. q \in p..TextLen
        BY <1>1, <2>1, <2>4
      <3>2. PICK j \in d + 1..q : FiguresAt(d + 1, j) /\ (j = q \/ ExponentAt(j + 1, q))
        BY <1>9, <2>8, <3>1
      <3>3. m \notin d + 1..j
        BY <2>3, <3>2 DEF FiguresAt, AllAt
      <3>4. j < m
        BY <1>1, <2>1, <2>3, <3>3
      <3>5. ExponentAt(j + 1, q)
        BY <1>1, <2>1, <2>3, <3>2, <3>4
      <3>6. ~At(j + 1, DigitsOr)
        BY <1>6, <3>5, OneCharacter DEF ExponentAt
      <3>7. j + 1 \notin d + 1..m - 1
        BY <2>3, <3>6
      <3>8. j + 1 = m
        BY <1>1, <2>1, <2>3, <3>4, <3>7
      <3> QED
        BY <3>5, <3>8
    <2>9. ASSUME NEW q \in d + 1..TextLen, m - 1 <= q, m - 1 = q \/ ExponentAt(m, q)
          PROVE  FractionAt(p, q)
      <3>1. d \in p..q /\ m - 1 \in d + 1..q /\ (m - 1) + 1 = m
        BY <1>1, <2>1, <2>4, <2>9
      <3> QED
        BY <1>7, <1>11, <2>7, <2>9, <3>1 DEF FractionAt
    <2>10. e \in m..TextLen + 1 /\ (e = m \/ ExponentAt(m, e - 1)) /\ \A q \in e..TextLen : ~ExponentAt(m, q)
      <3>1. CASE ~At(m, {"e"})
        <4>1. e = m
          BY <2>5, <3>1 DEF Exponent
        <4> QED
          BY <1>1, <2>3, <3>1, <4>1 DEF ExponentAt
      <3>2. CASE At(m, {"e"}) /\ At(m + 1, {"+", "-"})
        <4>1. e = PastAll(m + 2, DigitsOr) /\ m + 2 \in 1..TextLen + 1
          <5>1. e = PastAll(m + 2, DigitsOr)
            BY <2>5, <3>2 DEF Exponent, Mantissa, DigitsOr
          <5>2. m \in 1..TextLen /\ m + 1 \in 1..TextLen + 1 /\ m + 1 <= TextLen
            BY <1>1, <2>1, <2>4, <3>2 DEF At
          <5> QED
            BY <1>1, <5>1, <5>2
        <4>2. e \in m + 2..TextLen + 1 /\ ~At(e, DigitsOr) /\ \A r \in m + 2..e - 1 : At(r, DigitsOr)
          BY <4>1, PastAllWorks
        <4>3. ExponentAt(m, e - 1)
          BY <1>1, <2>1, <2>4, <3>2, <4>2 DEF ExponentAt, AllAt
        <4>4. ASSUME NEW q \in e..TextLen, ExponentAt(m, q) PROVE FALSE
          <5>1. m + 1 \in m + 1..q /\ e \in m + 2..q
            BY <1>1, <2>1, <2>4, <4>2
          <5>2. ~At(m + 1, DigitsOr)
            BY <1>6, <3>2, OneCharacter
          <5> QED
            BY <4>2, <4>4, <5>1, <5>2 DEF ExponentAt, AllAt
        <4>5. e \in m..TextLen + 1
          BY <1>1, <2>1, <2>4, <4>2
        <4> QED
          BY <4>3, <4>4, <4>5
      <3>3. CASE At(m, {"e"}) /\ ~At(m + 1, {"+", "-"})
        <4>1. e = PastAll(m + 1, DigitsOr) /\ m + 1 \in 1..TextLen + 1
          <5>1. e = PastAll(m + 1, DigitsOr)
            BY <2>5, <3>3 DEF Exponent, Mantissa, DigitsOr
          <5>2. m \in 1..TextLen /\ m + 1 \in 1..TextLen + 1
            BY <1>1, <2>1, <2>4, <3>3 DEF At
          <5> QED
            BY <1>1, <5>1, <5>2
        <4>2. e \in m + 1..TextLen + 1 /\ ~At(e, DigitsOr) /\ \A r \in m + 1..e - 1 : At(r, DigitsOr)
          BY <4>1, PastAllWorks
        <4>3. ExponentAt(m, e - 1)
          BY <1>1, <2>1, <2>4, <3>3, <4>2 DEF ExponentAt, AllAt
        <4>4. ASSUME NEW q \in e..TextLen, ExponentAt(m, q) PROVE FALSE
          <5>1. e \in m + 1..q
            BY <1>1, <2>1, <2>4, <4>2
          <5> QED
            BY <3>3, <4>2, <4>4, <5>1 DEF ExponentAt, AllAt
        <4>5. e \in m..TextLen + 1
          BY <1>1, <2>1, <2>4, <4>2
        <4> QED
          BY <4>3, <4>4, <4>5
      <3> QED
        BY <3>1, <3>2, <3>3
    <2>11. e \in p + 1..TextLen + 1
      BY <1>1, <2>1, <2>4, <2>10
    <2>12. Is("FLOAT_LIT", Part(p, e - 1))
      <3>1. e - 1 \in d + 1..TextLen /\ m - 1 <= e - 1 /\ e - 1 \in p..TextLen
        BY <1>1, <2>1, <2>4, <2>10
      <3>2. m - 1 = e - 1 \/ ExponentAt(m, e - 1)
        BY <2>10
      <3>3. FractionAt(p, e - 1)
        BY <2>9, <3>1, <3>2
      <3> QED
        BY <3>1, <3>3, FractionWorks DEF Is
    <2>13. ASSUME NEW q \in e..TextLen, IsLexeme(Part(p, q)) PROVE FALSE
      <3>1. q \in p..TextLen /\ q \in m..TextLen /\ ~(q < d)
        BY <1>1, <2>1, <2>4, <2>10
      <3>2. IntegerAt(p, q) \/ FractionAt(p, q)
        BY <2>13, <3>1, NumberTells
      <3>3. FractionAt(p, q)
        BY <1>8, <3>1, <3>2
      <3>4. ExponentAt(m, q)
        BY <2>8, <3>1, <3>3
      <3> QED
        BY <2>10, <3>4
    <2> QED
      BY <2>6, <2>11, <2>12, <2>13 DEF Longest, Lexeme, Kinds
  <1> QED
    BY <1>10, <1>11

\* A number is as long as it can be.
LEMMA NumberLongest ==
  ASSUME Text \in Seq(STRING), NEW p \in 1..TextLen, At(p, Digits)
  PROVE  Longest(p, LexNumber(p))
  <1>1. CASE At(p, {"0"}) /\ At(p + 1, {"x"})
    <2>1. IsRadix("x", HexDigits \cup {"_"})
      BY DEF IsRadix
    <2>2. LexNumber(p) = Lexeme("INT_LIT", PastAll(p + 2, HexDigits \cup {"_"}))
      BY <1>1 DEF LexNumber
    <2> QED
      BY <1>1, <2>1, <2>2, RadixLongest
  <1>2. CASE ~(At(p, {"0"}) /\ At(p + 1, {"x"})) /\ At(p, {"0"}) /\ At(p + 1, {"b"})
    <2>1. IsRadix("b", {"0", "1", "_"})
      BY DEF IsRadix
    <2>2. LexNumber(p) = Lexeme("INT_LIT", PastAll(p + 2, {"0", "1", "_"}))
      BY <1>2 DEF LexNumber
    <2> QED
      BY <1>2, <2>1, <2>2, RadixLongest
  <1>3. CASE ~(At(p, {"0"}) /\ At(p + 1, {"x"})) /\ ~(At(p, {"0"}) /\ At(p + 1, {"b"}))
    BY <1>3, DecimalLongest
  <1> QED
    BY <1>1, <1>2, <1>3

-----------------------------------------------------------------------------
(* Strings.                                                                *)

\* The first character of a text is not escaped.
LEMMA EscapedFirst ==
  ASSUME NEW s
  PROVE  ~Escaped(s, 1)
  BY DEF Escaped

\* A character is escaped by a backslash before it that is not escaped itself.
LEMMA EscapedNext ==
  ASSUME NEW s, NEW i \in Nat, i >= 2
  PROVE  Escaped(s, i) <=> s[i - 1] = "\\" /\ ~Escaped(s, i - 1)
  <1>1. PICK B : B = {j \in 1..i - 1 : s[j] = "\\"}
    OBVIOUS
  <1>2. ASSUME NEW n \in {i - 1, i}
        PROVE  Escaped(s, n) <=> \E k \in 0..n - 1 : /\ k % 2 = 1 /\ n - k..n - 1 \subseteq B
                                                     /\ (n - k = 1 \/ n - k - 1 \notin B)
    <2>1. ASSUME NEW k \in 0..n - 1
          PROVE  /\ (\A j \in n - k..n - 1 : s[j] = "\\") <=> n - k..n - 1 \subseteq B
                 /\ n - k # 1 => (s[n - k - 1] # "\\" <=> n - k - 1 \notin B)
      <3>1. \A j \in n - k..n - 1 : j \in 1..i - 1
        OBVIOUS
      <3>2. n - k # 1 => n - k - 1 \in 1..i - 1
        OBVIOUS
      <3> QED
        BY <1>1, <3>1, <3>2
    <2> QED
      BY <2>1 DEF Escaped
  <1>3. ASSUME Escaped(s, i) PROVE i - 1 \in B /\ ~Escaped(s, i - 1)
    <2>1. PICK k \in 0..i - 1 : /\ k % 2 = 1 /\ i - k..i - 1 \subseteq B
                                /\ (i - k = 1 \/ i - k - 1 \notin B)
      BY <1>2, <1>3
    <2>2. i - 1 \in i - k..i - 1
      BY <2>1
    <2>3. ASSUME Escaped(s, i - 1) PROVE FALSE
      <3>1. PICK m \in 0..(i - 1) - 1 : /\ m % 2 = 1 /\ (i - 1) - m..(i - 1) - 1 \subseteq B
                                        /\ ((i - 1) - m = 1 \/ (i - 1) - m - 1 \notin B)
        BY <1>2, <2>3
      <3>2. k = m + 1
        <4>1. CASE k < m + 1
          <5>1. i - k # 1 /\ i - k - 1 \in (i - 1) - m..(i - 1) - 1
            BY <2>1, <4>1
          <5> QED
            BY <2>1, <3>1, <5>1
        <4>2. CASE k > m + 1
          <5>1. (i - 1) - m # 1 /\ (i - 1) - m - 1 \in i - k..i - 1
            BY <4>2
          <5> QED
            BY <2>1, <3>1, <5>1
        <4> QED
          BY <4>1, <4>2
      <3> QED
        BY <2>1, <3>1, <3>2
    <2> QED
      BY <2>1, <2>2, <2>3
  <1>4. ASSUME i - 1 \in B, ~Escaped(s, i - 1) PROVE Escaped(s, i)
    <2>1. PICK T : T = {a \in 1..i - 1 : a..i - 1 \subseteq B}
      OBVIOUS
    <2>2. i - 1 \in T
      BY <1>4, <2>1
    <2>3. PICK a \in T : \A x \in T : a <= x
      <3>1. T \subseteq Nat
        <4> SUFFICES ASSUME NEW x \in T PROVE x \in Nat
          OBVIOUS
        <4>1. x \in 1..i - 1
          BY <2>1
        <4> QED
          BY <4>1
      <3> QED
        BY <2>2, <3>1, LeastNat
    <2>4. a \in 1..i - 1 /\ a..i - 1 \subseteq B
      BY <2>1, <2>3
    <2>5. a = 1 \/ a - 1 \notin B
      <3> SUFFICES ASSUME a # 1, a - 1 \in B PROVE FALSE
        OBVIOUS
      <3>1. a - 1 \in 1..i - 1 /\ \A x \in a - 1..i - 1 : x = a - 1 \/ x \in a..i - 1
        BY <2>4
      <3>2. a - 1 \in T
        BY <2>1, <2>4, <3>1
      <3> QED
        BY <2>3, <2>4, <3>2
    <2>6. PICK k : k = i - a
      OBVIOUS
    <2>7. k \in 1..i - 1 /\ i - k = a /\ (i - 1) - (k - 1) = a
      BY <2>4, <2>6
    <2>8. k % 2 = 1
      <3> SUFFICES ASSUME k % 2 # 1 PROVE FALSE
        OBVIOUS
      <3>1. (k - 1) % 2 = 1 /\ k - 1 \in 0..(i - 1) - 1
        BY <2>7
      <3>2. (i - 1) - (k - 1)..(i - 1) - 1 \subseteq B
        BY <2>4, <2>7
      <3>3. (i - 1) - (k - 1) = 1 \/ (i - 1) - (k - 1) - 1 \notin B
        BY <2>5, <2>7
      <3> QED
        BY <1>2, <1>4, <3>1, <3>2, <3>3
    <2>9. k \in 0..i - 1 /\ i - k..i - 1 \subseteq B /\ (i - k = 1 \/ i - k - 1 \notin B)
      BY <2>4, <2>5, <2>7
    <2> QED
      BY <1>2, <2>8, <2>9
  <1>5. i - 1 \in B <=> s[i - 1] = "\\"
    BY <1>1
  <1> QED
    BY <1>3, <1>4, <1>5

\* The loop of lex_string goes on to the next character until a quote.
LEMMA ClosingTurn ==
  ASSUME Text \in Seq(STRING), NEW p \in 1..TextLen + 1
  PROVE  Closing[p] = IF p > TextLen \/ At(p, {Quote}) THEN p ELSE Closing[PastCharacter(p)]
  <1>1. TextLen \in Nat
    BY DEF TextLen
  <1>2. PICK N : N = TextLen + 1
    OBVIOUS
  <1>3. PICK stops : stops = {q \in 1..N : q > TextLen \/ At(q, {Quote})}
    OBVIOUS
  <1>4. PICK base : base = [q \in 1..N |-> q]
    OBVIOUS
  <1>5. PICK go : go = [q \in 1..N |-> PastCharacter(q)]
    OBVIOUS
  <1>6. \A q \in 1..N : q \notin stops => go[q] \in q + 1..N
    <2> SUFFICES ASSUME NEW q \in 1..N, q \notin stops PROVE go[q] \in q + 1..N
      OBVIOUS
    <2>1. q <= TextLen
      BY <1>1, <1>2, <1>3
    <2>2. PastCharacter(q) \in q + 1..N
      BY <1>1, <1>2, <2>1 DEF PastCharacter
    <2> QED
      BY <1>5, <2>2
  <1>7. PICK f : Climbs(f, 1, N, stops, base, go)
    <2>1. 1 \in Int /\ N \in Int
      BY <1>1, <1>2
    <2> QED
      BY ONLY <2>1, <1>6, ClimbingFunction
  <1>8. f = [q \in 1..TextLen + 1 |-> IF q > TextLen \/ At(q, {Quote}) THEN q ELSE f[PastCharacter(q)]]
    <2>1. f = [q \in 1..N |-> f[q]]
      BY <1>7 DEF Climbs
    <2>2. \A q \in 1..N : f[q] = IF q \in stops THEN base[q] ELSE f[go[q]]
      BY <1>7 DEF Climbs
    <2> QED
      BY ONLY <2>1, <2>2, <1>2, <1>3, <1>4, <1>5
  <1>9. Closing = [q \in 1..TextLen + 1 |->
                     IF q > TextLen \/ At(q, {Quote}) THEN q ELSE Closing[PastCharacter(q)]]
    BY <1>8 DEF Closing
  <1>10. PICK g : g = Closing
    OBVIOUS
  <1>11. g = [q \in 1..TextLen + 1 |-> IF q > TextLen \/ At(q, {Quote}) THEN q ELSE g[PastCharacter(q)]]
    BY ONLY <1>9, <1>10
  <1>12. g[p] = IF p > TextLen \/ At(p, {Quote}) THEN p ELSE g[PastCharacter(p)]
    BY ONLY <1>11, p \in 1..TextLen + 1
  <1> QED
    BY ONLY <1>10, <1>12

\* c is the first quote from p on that is not escaped, or the end
Closes(p, c) ==
  /\ c \in p..TextLen + 1
  /\ c <= TextLen => At(c, {Quote}) /\ ~Escaped(Text, c)
  /\ \A r \in p..c - 1 : At(r, {Quote}) => Escaped(Text, r)

\* lex_string stops at the first quote that is not escaped.
LEMMA ClosingWorks ==
  ASSUME Text \in Seq(STRING), NEW p \in 1..TextLen + 1, p <= TextLen => ~Escaped(Text, p)
  PROVE  Closes(p, Closing[p])
  <1>1. TextLen \in Nat
    BY DEF TextLen
  <1>2. PICK T : T = {q \in 1..TextLen + 1 : (q <= TextLen => ~Escaped(Text, q)) => Closes(q, Closing[q])}
    OBVIOUS
  <1>3. ASSUME NEW n \in 1..TextLen + 1, \A m \in n + 1..TextLen + 1 : m \in T PROVE n \in T
    <2> SUFFICES ASSUME n <= TextLen => ~Escaped(Text, n) PROVE Closes(n, Closing[n])
      BY <1>2
    <2>1. CASE n > TextLen \/ At(n, {Quote})
      <3>1. Closing[n] = n
        BY <2>1, ClosingTurn
      <3>2. n <= TextLen => At(n, {Quote})
        BY <1>1, <2>1
      <3> QED
        BY <1>1, <3>1, <3>2 DEF Closes
    <2>2. CASE ~(n > TextLen \/ At(n, {Quote}))
      <3>1. PICK q : q = PastCharacter(n)
        OBVIOUS
      <3>2. n \in 1..TextLen
        BY <1>1, <2>2
      <3>3. q \in n + 1..TextLen + 1
        BY <1>1, <3>1, <3>2 DEF PastCharacter
      <3>4. Closing[n] = Closing[q]
        BY <2>2, <3>1, ClosingTurn
      <3>5. ~Escaped(Text, n)
        BY <1>1, <3>2
      <3>6. Escaped(Text, n + 1) <=> Text[n] = "\\"
        <4>1. n + 1 \in Nat /\ n + 1 >= 2 /\ (n + 1) - 1 = n
          BY <1>1, <3>2
        <4>2. Escaped(Text, n + 1) <=> Text[(n + 1) - 1] = "\\" /\ ~Escaped(Text, (n + 1) - 1)
          BY <4>1, EscapedNext
        <4> QED
          BY <3>5, <4>1, <4>2
      <3>7. q <= TextLen => ~Escaped(Text, q)
        <4>1. CASE Text[n] = "\\" /\ n < TextLen
          <5>1. q = n + 2
            BY <1>1, <3>1, <3>2, <4>1 DEF PastCharacter, At
          <5>2. n + 2 \in Nat /\ n + 2 >= 2 /\ (n + 2) - 1 = n + 1
            BY <1>1, <3>2
          <5>3. Escaped(Text, n + 2) <=> Text[(n + 2) - 1] = "\\" /\ ~Escaped(Text, (n + 2) - 1)
            BY <5>2, EscapedNext
          <5> QED
            BY <3>6, <4>1, <5>1, <5>2, <5>3
        <4>2. CASE ~(Text[n] = "\\" /\ n < TextLen)
          <5>1. q = n + 1
            BY <1>1, <3>1, <3>2, <4>2 DEF PastCharacter, At
          <5>2. q <= TextLen => Text[n] # "\\"
            BY <1>1, <3>2, <4>2, <5>1
          <5> QED
            BY <3>6, <5>1, <5>2
        <4> QED
          BY <4>1, <4>2
      <3>8. Closes(q, Closing[q])
        BY <1>2, <1>3, <3>3, <3>7
      <3>9. ASSUME NEW r \in n..q - 1, At(r, {Quote}) PROVE Escaped(Text, r)
        <4>1. r # n
          BY <2>2, <3>9
        <4>2. q = n + 2 /\ r = n + 1 /\ Text[n] = "\\"
          BY <1>1, <3>1, <3>2, <4>1 DEF PastCharacter, At
        <4> QED
          BY <3>6, <4>2
      <3>10. PICK c : c = Closing[q]
        OBVIOUS
      <3>11. c \in n..TextLen + 1 /\ \A r \in n..c - 1 : r \in n..q - 1 \/ r \in q..c - 1
        BY <1>1, <3>3, <3>8, <3>10 DEF Closes
      <3> QED
        BY <3>4, <3>8, <3>9, <3>10, <3>11 DEF Closes
    <2> QED
      BY <2>1, <2>2
  <1>4. \A n \in 1..TextLen + 1 : n \in T
    <2>1. 1 \in Int /\ TextLen + 1 \in Int
      BY <1>1
    <2> QED
      BY ONLY <2>1, <1>3, GoingDown
  <1> QED
    BY <1>2, <1>4

\* A part that starts with a quote is a string when its last character closes it.
LEMMA StringWorks ==
  ASSUME Text \in Seq(STRING), NEW p \in 1..TextLen, At(p, {Quote}), NEW q \in p..TextLen
  PROVE  IsString(Part(p, q)) <=>
           /\ q \in p + 1..TextLen /\ At(q, {Quote}) /\ ~Escaped(Text, q)
           /\ \A r \in p + 1..q - 1 : At(r, {Quote}) => Escaped(Text, r)
  <1>1. TextLen \in Nat
    BY DEF TextLen
  <1>2. PICK s : s = Part(p, q)
    OBVIOUS
  <1>3. /\ Len(s) = (q - p) + 1 /\ s[1] = Quote
        /\ \A i \in 1..(q - p) + 1 : s[i] = Text[(p + i) - 1]
    BY <1>2, PartWorks DEF At
  <1>4. Quote # "\\"
    BY DEF Quote
  <1>5. \A r \in p + 1..q : Escaped(s, (r - p) + 1) <=> Escaped(Text, r)
    <2>1. PICK T : T = {r \in Int : Escaped(s, (r - p) + 1) <=> Escaped(Text, r)}
      OBVIOUS
    <2>2. p + 1 \in T
      <3>1. 2 \in Nat /\ 2 >= 2 /\ 2 - 1 = 1 /\ ((p + 1) - p) + 1 = 2
        OBVIOUS
      <3>2. p + 1 \in Nat /\ p + 1 >= 2 /\ (p + 1) - 1 = p
        BY <1>1
      <3>3. Escaped(s, 2) <=> s[2 - 1] = "\\" /\ ~Escaped(s, 2 - 1)
        BY ONLY <3>1, EscapedNext
      <3>4. Escaped(Text, p + 1) <=> Text[(p + 1) - 1] = "\\" /\ ~Escaped(Text, (p + 1) - 1)
        BY ONLY <3>2, EscapedNext
      <3>5. s[2 - 1] # "\\" /\ Text[(p + 1) - 1] # "\\"
        BY <1>3, <1>4, <3>1, <3>2 DEF At
      <3> QED
        BY <2>1, <3>1, <3>2, <3>3, <3>4, <3>5
    <2>3. ASSUME NEW r \in p + 1..q - 1, r \in T PROVE r + 1 \in T
      <3>1. PICK i : i = (r - p) + 2
        OBVIOUS
      <3>2. i \in Nat /\ i >= 2 /\ i - 1 = (r - p) + 1 /\ i = ((r + 1) - p) + 1
        BY <3>1
      <3>3. r + 1 \in Nat /\ r + 1 >= 2 /\ (r + 1) - 1 = r /\ r + 1 \in Int
        BY <1>1
      <3>4. Escaped(s, i) <=> s[i - 1] = "\\" /\ ~Escaped(s, i - 1)
        BY ONLY <3>2, EscapedNext
      <3>5. Escaped(Text, r + 1) <=> Text[(r + 1) - 1] = "\\" /\ ~Escaped(Text, (r + 1) - 1)
        BY ONLY <3>3, EscapedNext
      <3>6. s[i - 1] = Text[(r + 1) - 1]
        <4>1. i - 1 \in 1..(q - p) + 1 /\ (p + (i - 1)) - 1 = (r + 1) - 1
          BY <3>1
        <4> QED
          BY <1>3, <4>1
      <3>7. Escaped(s, (r - p) + 1) <=> Escaped(Text, r)
        BY <2>1, <2>3
      <3>8. Escaped(s, ((r + 1) - p) + 1) <=> Escaped(Text, r + 1)
        BY <3>2, <3>3, <3>4, <3>5, <3>6, <3>7
      <3> QED
        BY <2>1, <3>3, <3>8
    <2>4. \A r \in p + 1..q : r \in T
      <3>1. p + 1 \in Int /\ q \in Int
        BY <1>1
      <3> QED
        BY ONLY <3>1, <2>2, <2>3, GoingUp
    <2> QED
      BY <2>1, <2>4
  <1>6. CASE q = p
    <2>1. ~(Len(s) >= 2) /\ q \notin p + 1..TextLen
      BY <1>1, <1>3, <1>6
    <2> QED
      BY <1>2, <2>1 DEF IsString
  <1>7. CASE q # p
    <2>1. q \in p + 1..TextLen /\ Len(s) >= 2 /\ Len(s) = (q - p) + 1 /\ q <= TextLen
      BY <1>1, <1>3, <1>7
    <2>2. s[Len(s)] = Quote <=> At(q, {Quote})
      <3>1. (q - p) + 1 \in 1..(q - p) + 1 /\ (p + ((q - p) + 1)) - 1 = q
        BY <1>1
      <3>2. s[(q - p) + 1] = Text[q]
        BY <1>3, <3>1
      <3> QED
        BY <2>1, <3>2 DEF At
    <2>3. Escaped(s, Len(s)) <=> Escaped(Text, q)
      <3>1. q \in p + 1..q
        BY <2>1
      <3> QED
        BY <1>5, <2>1, <3>1
    <2>4. ASSUME NEW i \in 2..Len(s) - 1, NEW r, r = (p + i) - 1
          PROVE  /\ r \in p + 1..q - 1 /\ i = (r - p) + 1
                 /\ s[i] = Quote <=> At(r, {Quote})
                 /\ Escaped(s, i) <=> Escaped(Text, r)
      <3>1. r \in p + 1..q - 1 /\ i = (r - p) + 1 /\ r \in p + 1..q /\ r <= TextLen /\ i \in 1..(q - p) + 1
        BY <1>1, <2>1, <2>4
      <3>2. s[i] = Text[r]
        BY <1>3, <2>4, <3>1
      <3> QED
        BY <1>5, <3>1, <3>2 DEF At
    <2>5. (\A i \in 2..Len(s) - 1 : s[i] = Quote => Escaped(s, i))
            <=> \A r \in p + 1..q - 1 : At(r, {Quote}) => Escaped(Text, r)
      <3>1. ASSUME \A i \in 2..Len(s) - 1 : s[i] = Quote => Escaped(s, i),
                   NEW r \in p + 1..q - 1, At(r, {Quote})
            PROVE  Escaped(Text, r)
        <4>1. PICK i : i = (r - p) + 1
          OBVIOUS
        <4>2. i \in 2..Len(s) - 1 /\ r = (p + i) - 1
          BY <1>1, <2>1, <4>1
        <4> QED
          BY <2>4, <3>1, <4>2
      <3>2. ASSUME \A r \in p + 1..q - 1 : At(r, {Quote}) => Escaped(Text, r),
                   NEW i \in 2..Len(s) - 1, s[i] = Quote
            PROVE  Escaped(s, i)
        <4>1. PICK r : r = (p + i) - 1
          OBVIOUS
        <4> QED
          BY <2>4, <3>2, <4>1
      <3> QED
        BY <3>1, <3>2
    <2> QED
      BY <1>2, <1>3, <2>1, <2>2, <2>3, <2>5 DEF IsString
  <1> QED
    BY <1>6, <1>7

\* A string ends with the quote that closes it; without one nothing starts.
LEMMA StringLongest ==
  ASSUME Text \in Seq(STRING), NEW p \in 1..TextLen, At(p, {Quote})
  PROVE  Longest(p, LexString(p))
  <1>1. TextLen \in Nat
    BY DEF TextLen
  <1>2. PICK c : c = Closing[p + 1]
    OBVIOUS
  <1>3. p + 1 \in 1..TextLen + 1 /\ ~Escaped(Text, p + 1)
    <2>1. p + 1 \in Nat /\ p + 1 >= 2 /\ (p + 1) - 1 = p
      BY <1>1
    <2>2. Escaped(Text, p + 1) <=> Text[(p + 1) - 1] = "\\" /\ ~Escaped(Text, (p + 1) - 1)
      BY ONLY <2>1, EscapedNext
    <2>3. Text[p] # "\\"
      BY DEF At, Quote
    <2> QED
      BY <1>1, <2>1, <2>2, <2>3
  <1>4. Closes(p + 1, c)
    BY <1>2, <1>3, ClosingWorks
  <1>5. c \in p + 1..TextLen + 1
    BY <1>4 DEF Closes
  <1>6. ASSUME NEW q \in p..TextLen, IsLexeme(Part(p, q)) PROVE q = c
    <2>1. Part(p, q) \in Seq(STRING) /\ Part(p, q)[1] = Quote
      BY PartWorks DEF At
    <2>2. IsString(Part(p, q))
      BY <1>6, <2>1, FirstTells, FirstsDiffer
    <2>3. /\ q \in p + 1..TextLen /\ At(q, {Quote}) /\ ~Escaped(Text, q)
          /\ \A r \in p + 1..q - 1 : At(r, {Quote}) => Escaped(Text, r)
      BY <2>2, StringWorks
    <2>4. ~(q < c)
      <3>1. q < c => q \in p + 1..c - 1
        BY <1>1, <1>5, <2>3
      <3> QED
        BY <1>4, <2>3, <3>1 DEF Closes
    <2>5. ~(c < q)
      <3>1. c < q => c \in p + 1..q - 1 /\ c <= TextLen
        BY <1>1, <1>5, <2>3
      <3> QED
        BY <1>4, <2>3, <3>1 DEF Closes
    <2> QED
      BY <1>5, <2>3, <2>4, <2>5
  <1>7. CASE c > TextLen
    <2>1. LexString(p) = Lexeme("UNKNOWN", TextLen + 1)
      BY <1>2, <1>7 DEF LexString
    <2>2. TextLen + 1 \in p + 1..TextLen + 1
      BY <1>1
    <2>3. \A q \in p..TextLen : ~IsLexeme(Part(p, q))
      BY <1>1, <1>6, <1>7
    <2> QED
      BY <2>1, <2>2, <2>3 DEF Longest, Lexeme
  <1>8. CASE ~(c > TextLen)
    <2>1. LexString(p) = Lexeme("STRING_LIT", c + 1)
      BY <1>2, <1>8 DEF LexString
    <2>2. c \in p + 1..TextLen /\ c \in p..TextLen /\ (c + 1) - 1 = c /\ c + 1 \in p + 1..TextLen + 1
      BY <1>1, <1>5, <1>8
    <2>3. Is("STRING_LIT", Part(p, c))
      <3>1. IsString(Part(p, c))
        <4>1. /\ At(c, {Quote}) /\ ~Escaped(Text, c)
              /\ \A r \in p + 1..c - 1 : At(r, {Quote}) => Escaped(Text, r)
          <5>1. c <= TextLen
            BY <1>1, <2>2
          <5> QED
            BY <1>4, <5>1 DEF Closes
        <4> QED
          BY <2>2, <4>1, StringWorks
      <3> QED
        BY <3>1 DEF Is
    <2>4. \A q \in c + 1..TextLen : ~IsLexeme(Part(p, q))
      <3> SUFFICES ASSUME NEW q \in c + 1..TextLen, IsLexeme(Part(p, q)) PROVE FALSE
        OBVIOUS
      <3>1. q \in p..TextLen /\ q # c
        BY <1>1, <2>2
      <3> QED
        BY <1>6, <3>1
    <2> QED
      BY <2>1, <2>2, <2>3, <2>4 DEF Longest, Lexeme, Kinds
  <1> QED
    BY <1>7, <1>8

\* lex cuts off the longest lexeme.
LEMMA LexLongest ==
  ASSUME Text \in Seq(STRING), NEW p \in 1..TextLen
  PROVE  Longest(p, Lex(p))
  <1>1. TextLen \in Nat /\ ~(p > TextLen)
    BY DEF TextLen
  <1>2. CASE At(p, Alpha)
    <2>1. Lex(p) = Lexeme("WORD", PastAll(p, Alpha \cup Digits))
      BY <1>1, <1>2 DEF Lex
    <2> QED
      BY <1>2, <2>1, WordLongest
  <1>3. CASE ~At(p, Alpha) /\ At(p, Digits)
    <2>1. Lex(p) = LexNumber(p)
      BY <1>1, <1>3 DEF Lex
    <2> QED
      BY <1>3, <2>1, NumberLongest
  <1>4. CASE ~At(p, Alpha) /\ ~At(p, Digits) /\ At(p, {Quote})
    <2>1. Lex(p) = LexString(p)
      BY <1>1, <1>4 DEF Lex
    <2> QED
      BY <1>4, <2>1, StringLongest
  <1>5. CASE ~At(p, Alpha) /\ ~At(p, Digits) /\ ~At(p, {Quote}) /\ At(p, {"'"})
    <2>1. Lex(p) = LexChar(p)
      BY <1>1, <1>5 DEF Lex
    <2> QED
      BY <1>5, <2>1, CharacterLongest
  <1>6. CASE ~At(p, Alpha) /\ ~At(p, Digits) /\ ~At(p, {Quote}) /\ ~At(p, {"'"})
    <2>1. Lex(p) = LexOperator(p)
      BY <1>1, <1>6 DEF Lex
    <2> QED
      BY <1>6, <2>1, OperatorLongest
  <1> QED
    BY <1>2, <1>3, <1>4, <1>5, <1>6

-----------------------------------------------------------------------------
(* Interners.                                                              *)

Tables == UNION {[D -> Records] : D \in SUBSET Seq(STRING)}

Interners ==
  [known : Tables, capacity : Nat \ {0}, dense : [items : Seq(Records), capacity : Nat], made : Nat]

\* Tables are what their name says.
LEMMA TableWorks ==
  ASSUME NEW K
  PROVE  K \in Tables <=> /\ K = [x \in DOMAIN K |-> K[x]] /\ DOMAIN K \subseteq Seq(STRING)
                          /\ \A x \in DOMAIN K : K[x] \in Records
  <1>1. ASSUME K \in Tables
        PROVE  /\ K = [x \in DOMAIN K |-> K[x]] /\ DOMAIN K \subseteq Seq(STRING)
               /\ \A x \in DOMAIN K : K[x] \in Records
    <2>1. PICK D \in SUBSET Seq(STRING) : K \in [D -> Records]
      BY <1>1 DEF Tables
    <2> QED
      BY <2>1
  <1>2. ASSUME K = [x \in DOMAIN K |-> K[x]], DOMAIN K \subseteq Seq(STRING),
               \A x \in DOMAIN K : K[x] \in Records
        PROVE  K \in Tables
    <2>1. PICK D : D = DOMAIN K
      OBVIOUS
    <2>2. K \in [D -> Records] /\ D \in SUBSET Seq(STRING)
      BY <1>2, <2>1
    <2> QED
      BY <2>2 DEF Tables
  <1> QED
    BY <1>1, <1>2

\* The table with one more entry.
LEMMA PutWorks ==
  ASSUME NEW K \in Tables, NEW s \in Seq(STRING), NEW r \in Records
  PROVE  /\ Put(K, s, r) \in Tables
         /\ DOMAIN Put(K, s, r) = {s} \cup DOMAIN K /\ Put(K, s, r)[s] = r
         /\ \A x \in DOMAIN K : x # s => Put(K, s, r)[x] = K[x]
  <1>1. PICK P : P = Put(K, s, r)
    OBVIOUS
  <1>2. P = [x \in {s} \cup DOMAIN K |-> IF x = s THEN r ELSE K[x]]
    BY <1>1 DEF Put
  <1>4. DOMAIN K \subseteq Seq(STRING) /\ \A x \in DOMAIN K : K[x] \in Records
    BY TableWorks
  <1>5. P \in Tables
    <2>1. P = [x \in DOMAIN P |-> P[x]] /\ DOMAIN P \subseteq Seq(STRING)
      BY <1>2, <1>4
    <2>2. \A x \in DOMAIN P : P[x] \in Records
      BY <1>2, <1>4
    <2> QED
      BY <2>1, <2>2, TableWorks
  <1> QED
    BY <1>1, <1>2, <1>5

\* What a put does.
LEMMA RegisteredWorks ==
  ASSUME NEW I \in Interners, NEW s \in Seq(STRING), NEW r \in Records, NEW lacking,
         NEW J, J = Registered(I, s, r, lacking)
  PROVE  /\ J \in Interners /\ J.made = I.made /\ J.dense = I.dense
         /\ J.known = I.known \/ J.known = Put(I.known, s, r)
  <1>1. PICK E : E = Enlarged(I, lacking)
    OBVIOUS
  <1>2. I.capacity \in Nat \ {0} /\ 2 * I.capacity \in Nat \ {0}
    <2>1. I.capacity \in Nat \ {0}
      BY DEF Interners
    <2> QED
      BY <2>1
  <1>3. E \in Interners /\ E.made = I.made /\ E.dense = I.dense /\ E.known = I.known
    <2>1. E = I \/ E = [I EXCEPT !.capacity = 2 * I.capacity]
      BY <1>1 DEF Enlarged
    <2> QED
      BY <1>2, <2>1 DEF Interners
  <1>4. PICK P : P = Put(E.known, s, r)
    OBVIOUS
  <1>5. E.known \in Tables
    BY <1>3 DEF Interners
  <1>6. P \in Tables
    BY <1>4, <1>5, PutWorks
  <1>7. J = E \/ J = [E EXCEPT !.known = P]
    BY <1>1, <1>4 DEF Registered
  <1> QED
    BY <1>3, <1>4, <1>6, <1>7 DEF Interners

\* t is s and then x
IsAppended(t, s, x) == t = Append(s, x)

\* An appended element comes last and moves no other.
LEMMA AppendedWorks ==
  ASSUME NEW S, NEW s \in Seq(S), NEW x \in S, NEW t, IsAppended(t, s, x)
  PROVE  /\ t \in Seq(S) /\ Len(t) = Len(s) + 1 /\ t[Len(s) + 1] = x
         /\ \A i \in 1..Len(s) : t[i] = s[i]
  BY DEF IsAppended

\* A push adds one item.
LEMMA PushedWorks ==
  ASSUME NEW S, NEW a, a.items \in Seq(S), a.capacity \in Nat, NEW x \in S, NEW c, c = Pushed(a, x)
  PROVE  /\ c = [items |-> c.items, capacity |-> c.capacity]
         /\ IsAppended(c.items, a.items, x) /\ c.items \in Seq(S) /\ c.capacity \in Nat
  <1>1. ArrayCapacity0 \in Nat
    BY InternerAssumption
  <1>2. PICK n : n = IF ~Full(a) THEN a.capacity ELSE IF a.capacity = 0 THEN ArrayCapacity0 ELSE 2 * a.capacity
    OBVIOUS
  <1>3. n \in Nat
    BY <1>1, <1>2
  <1>4. PICK i : i = Append(a.items, x)
    OBVIOUS
  <1>5. i \in Seq(S)
    BY <1>4
  <1>6. c = [items |-> i, capacity |-> n]
    BY <1>2, <1>4 DEF Pushed
  <1> QED
    BY <1>3, <1>4, <1>5, <1>6 DEF IsAppended

\* What interning a new string does.
LEMMA InternNew ==
  ASSUME NEW I \in Interners, NEW s \in Seq(STRING), s # <<>>, Peek(I, s) = NULL,
         NEW meta \in STRING \cup {NULL}, NEW lacking, "record" \notin lacking,
         NEW r, r = [key |-> s, index |-> Len(I.dense.items), meta |-> meta, id |-> I.made + 1],
         NEW out, out = Intern(I, s, meta, lacking)
  PROVE  /\ r \in Records /\ out.interner \in Interners /\ out.interner.made = I.made + 1
         /\ out.interner.known = Registered(I, s, r, lacking).known
         /\ out.interner.capacity = Registered(I, s, r, lacking).capacity
         /\ out.interner.known = I.known \/ out.interner.known = Put(I.known, s, r)
         /\ \/ out.interner.dense.items = I.dense.items /\ out.record = NULL /\ "array" \in lacking
            \/ IsAppended(out.interner.dense.items, I.dense.items, r) /\ out.record = r
  <1>1. I.made \in Nat /\ I.dense \in [items : Seq(Records), capacity : Nat]
    BY DEF Interners
  <1>2. I.made + 1 \in Nat /\ Len(I.dense.items) \in Nat
    BY <1>1
  <1>3. r \in Records
    BY <1>2 DEF Records
  <1>4. PICK K : K = Registered(I, s, r, lacking)
    OBVIOUS
  <1>5. /\ K \in Interners /\ K.made = I.made /\ K.dense = I.dense
        /\ K.known = I.known \/ K.known = Put(I.known, s, r)
    BY <1>3, <1>4, RegisteredWorks
  <1>6. PICK J : J = [K EXCEPT !.made = K.made + 1]
    OBVIOUS
  <1>7. /\ J \in Interners /\ J.made = I.made + 1 /\ J.dense = I.dense /\ J.known = K.known
        /\ J.capacity = K.capacity
    BY <1>2, <1>5, <1>6 DEF Interners
  <1>8. out = IF CanPush(J.dense, "array" \notin lacking)
              THEN [interner |-> [J EXCEPT !.dense = Pushed(J.dense, r)], record |-> r]
              ELSE [interner |-> J, record |-> NULL]
    BY <1>4, <1>6 DEF Intern
  <1>9. CASE CanPush(J.dense, "array" \notin lacking)
    <2>1. PICK d : d = Pushed(J.dense, r)
      OBVIOUS
    <2>2. d \in [items : Seq(Records), capacity : Nat] /\ IsAppended(d.items, I.dense.items, r)
      <3>1. PICK R : R = Records
        OBVIOUS
      <3>2. PICK a : a = J.dense
        OBVIOUS
      <3>3. a.items \in Seq(R) /\ a.capacity \in Nat /\ r \in R /\ d = Pushed(a, r)
        BY <1>1, <1>3, <1>7, <2>1, <3>1, <3>2
      <3>4. /\ d = [items |-> d.items, capacity |-> d.capacity]
            /\ IsAppended(d.items, a.items, r) /\ d.items \in Seq(R) /\ d.capacity \in Nat
        BY ONLY <3>3, PushedWorks
      <3> QED
        BY <1>7, <3>1, <3>2, <3>4
    <2>3. out = [interner |-> [J EXCEPT !.dense = d], record |-> r]
      BY <1>8, <1>9, <2>1
    <2>4. PICK O : O = [J EXCEPT !.dense = d]
      OBVIOUS
    <2>5. O \in Interners /\ O.made = J.made /\ O.known = J.known /\ O.dense = d /\ O.capacity = J.capacity
      BY <1>7, <2>2, <2>4 DEF Interners
    <2>6. out.interner = O /\ out.record = r
      BY <2>3, <2>4
    <2>7. IsAppended(out.interner.dense.items, I.dense.items, r)
      BY <2>2, <2>5, <2>6
    <2> QED
      BY <1>3, <1>4, <1>5, <1>7, <2>5, <2>6, <2>7
  <1>10. CASE ~CanPush(J.dense, "array" \notin lacking)
    <2>1. "array" \in lacking
      BY <1>10 DEF CanPush
    <2>2. out.interner = J /\ out.record = NULL
      BY <1>8, <1>10
    <2> QED
      BY <1>3, <1>4, <1>5, <1>7, <2>1, <2>2
  <1> QED
    BY <1>9, <1>10

\* Interning leaves an interner an interner.
LEMMA InternTyped ==
  ASSUME NEW I \in Interners, NEW s \in Seq(STRING), NEW meta \in STRING \cup {NULL}, NEW lacking,
         NEW out, out = Intern(I, s, meta, lacking)
  PROVE  out.interner \in Interners /\ out.record \in Records \cup {NULL}
  <1>1. I.known \in Tables
    BY DEF Interners
  <1>2. Peek(I, s) \in Records \cup {NULL}
    BY <1>1, TableWorks DEF Peek
  <1>3. CASE s = <<>> \/ Peek(I, s) # NULL \/ "record" \in lacking
    <2>1. out.interner = I /\ out.record \in {NULL, Peek(I, s)}
      BY <1>3 DEF Intern
    <2> QED
      BY <1>2, <2>1
  <1>4. CASE ~(s = <<>> \/ Peek(I, s) # NULL \/ "record" \in lacking)
    <2>1. PICK r : r = [key |-> s, index |-> Len(I.dense.items), meta |-> meta, id |-> I.made + 1]
      OBVIOUS
    <2> QED
      BY <1>4, <2>1, InternNew
  <1> QED
    BY <1>3, <1>4

\* the records G have been made by I, or are in its table
Consistent(I, G) ==
  /\ I \in Interners /\ G \subseteq Records
  /\ IsFiniteSet(DOMAIN I.known) /\ Size(I) \in 0..I.made /\ Len(I.dense.items) <= I.made
  /\ \A r \in G : r.id \in 1..I.made
  /\ \A r, u \in G : r.id = u.id => r = u
  /\ \A s \in DOMAIN I.known : I.known[s] \in G /\ I.known[s].key = s
  /\ EveryStringKept(I) => \A r \in G : r.key \in DOMAIN I.known /\ I.known[r.key] = r
  /\ EveryRecordPushed(I) =>
       \A r \in G : r.index < Len(I.dense.items) /\ I.dense.items[r.index + 1] = r

\* A new interner has made nothing.
LEMMA NewConsistent == Consistent(NewInterner, {})
  <1>1. PICK I : I = NewInterner
    OBVIOUS
  <1>2. PICK empty : empty = <<>>
    OBVIOUS
  <1>3. /\ I.known = empty /\ I.capacity = MapCapacity0 /\ I.made = 0
        /\ I.dense = [items |-> empty, capacity |-> 0]
        /\ I = [known |-> I.known, capacity |-> I.capacity, dense |-> I.dense, made |-> I.made]
    BY <1>1, <1>2 DEF NewInterner, EmptyArray
  <1>4. DOMAIN empty = {} /\ empty \in Seq(Records) /\ empty = [x \in DOMAIN empty |-> empty[x]] /\ Len(empty) = 0
    BY <1>2
  <1>5. empty \in Tables
    BY <1>4, TableWorks
  <1>6. MapCapacity0 \in Nat \ {0}
    BY InternerAssumption
  <1>7. I \in Interners
    <2>1. I.dense \in [items : Seq(Records), capacity : Nat]
      BY <1>3, <1>4
    <2>2. I.known \in Tables /\ I.capacity \in Nat \ {0} /\ I.made \in Nat
      BY <1>3, <1>5, <1>6
    <2> QED
      BY <1>3, <2>1, <2>2 DEF Interners
  <1>8. IsFiniteSet(DOMAIN I.known) /\ Size(I) = 0
    BY <1>3, <1>4, FS_EmptySet DEF Size
  <1>9. Len(I.dense.items) = 0
    BY <1>3, <1>4
  <1>10. Size(I) \in 0..I.made /\ Len(I.dense.items) <= I.made
    BY <1>3, <1>8, <1>9
  <1> QED
    BY <1>1, <1>3, <1>4, <1>7, <1>8, <1>10 DEF Consistent

\* Interning gives a string the record it has, or one unlike any other.
LEMMA InternConsistent ==
  ASSUME NEW I, NEW G, Consistent(I, G), NEW s \in Seq(STRING), NEW meta \in STRING \cup {NULL},
         NEW lacking, NEW out, out = Intern(I, s, meta, lacking)
  PROVE  /\ \E H : /\ G \subseteq H /\ Consistent(out.interner, H)
                   /\ out.record # NULL => out.record \in H /\ out.record.key = s
         /\ out.record = NULL /\ s # <<>> => "record" \in lacking \/ "array" \in lacking
  <1>1. I \in Interners /\ G \subseteq Records
    BY DEF Consistent
  <1>2. \A s1 \in DOMAIN I.known : I.known[s1] \in G /\ I.known[s1].key = s1
    BY DEF Consistent
  <1>3. CASE s = <<>>
    <2>1. out.interner = I /\ out.record = NULL
      BY <1>3 DEF Intern
    <2> QED
      BY <1>3, <2>1
  <1>4. CASE s # <<>> /\ Peek(I, s) # NULL
    <2>1. out.interner = I /\ out.record = Peek(I, s)
      BY <1>4 DEF Intern
    <2>2. s \in DOMAIN I.known /\ Peek(I, s) = I.known[s]
      BY <1>4 DEF Peek
    <2> QED
      BY <1>2, <1>4, <2>1, <2>2
  <1>5. CASE s # <<>> /\ Peek(I, s) = NULL /\ "record" \in lacking
    <2>1. out.interner = I /\ out.record = NULL
      BY <1>5 DEF Intern
    <2> QED
      BY <1>5, <2>1
  <1>6. CASE s # <<>> /\ Peek(I, s) = NULL /\ "record" \notin lacking
    <2>1. PICK r : r = [key |-> s, index |-> Len(I.dense.items), meta |-> meta, id |-> I.made + 1]
      OBVIOUS
    <2>2. PICK O : O = out.interner
      OBVIOUS
    <2>3. /\ r \in Records /\ O \in Interners /\ O.made = I.made + 1
          /\ O.known = I.known \/ O.known = Put(I.known, s, r)
          /\ \/ O.dense.items = I.dense.items /\ out.record = NULL /\ "array" \in lacking
             \/ IsAppended(O.dense.items, I.dense.items, r) /\ out.record = r
      BY <1>1, <1>6, <2>1, <2>2, InternNew
    <2>4. /\ r.key = s /\ r.index = Len(I.dense.items) /\ r.id = I.made + 1 /\ r # NULL
      BY <2>1, <2>3, InternerAssumption
    <2>5. s \notin DOMAIN I.known
      <3>1. s \in DOMAIN I.known => I.known[s] \in Records /\ Peek(I, s) = I.known[s]
        BY <1>1, <1>2 DEF Peek
      <3> QED
        BY <1>6, <3>1, InternerAssumption
    <2>6. /\ I.made \in Nat /\ I.known \in Tables /\ I.dense.items \in Seq(Records)
          /\ O.dense.items \in Seq(Records)
      BY <1>1, <2>3 DEF Interners
    <2>7. /\ DOMAIN Put(I.known, s, r) = {s} \cup DOMAIN I.known /\ Put(I.known, s, r)[s] = r
          /\ \A x \in DOMAIN I.known : x # s => Put(I.known, s, r)[x] = I.known[x]
      <3>1. r \in Records /\ I.known \in Tables
        BY <2>3, <2>6
      <3> QED
        BY ONLY <3>1, s \in Seq(STRING), PutWorks
    <2>8. /\ IsFiniteSet(DOMAIN I.known) /\ Cardinality(DOMAIN I.known) \in 0..I.made
          /\ Len(I.dense.items) <= I.made
      BY DEF Consistent, Size
    <2>9. /\ IsFiniteSet({s} \cup DOMAIN I.known)
          /\ Cardinality({s} \cup DOMAIN I.known) = Cardinality(DOMAIN I.known) + 1
      <3>1. PICK D : D = DOMAIN I.known
        OBVIOUS
      <3>2. IsFiniteSet(D \cup {s}) /\ Cardinality(D \cup {s}) = Cardinality(D) + 1
        BY <2>5, <2>8, <3>1, FS_AddElement
      <3>3. D \cup {s} = {s} \cup D
        OBVIOUS
      <3> QED
        BY <3>1, <3>2, <3>3
    <2>10. PICK H : H = G \cup {r}
      OBVIOUS
    <2>11. H \subseteq Records /\ G \subseteq H /\ r \in H
      BY <1>1, <2>3, <2>10
    <2>12. \A u \in G : u.id \in 1..I.made /\ u.id \in Nat
      BY <2>6 DEF Consistent
    <2>13. \A u \in H : u.id \in 1..O.made
      <3>1. \A u \in G : u.id \in 1..O.made
        BY <2>3, <2>6, <2>12
      <3>2. r.id \in 1..O.made
        BY <2>3, <2>4, <2>6
      <3> QED
        BY <2>10, <3>1, <3>2
    <2>14. ASSUME NEW u \in H, NEW v \in H, u.id = v.id PROVE u = v
      <3>1. \A w \in G : w.id # r.id
        BY <2>4, <2>6, <2>12
      <3>2. \A w, x \in G : w.id = x.id => w = x
        BY DEF Consistent
      <3> QED
        BY <2>10, <2>14, <3>1, <3>2
    <2>15. \A x \in DOMAIN O.known : O.known[x] \in H /\ O.known[x].key = x
      <3>1. CASE O.known = I.known
        BY <1>2, <2>11, <3>1
      <3>2. CASE O.known = Put(I.known, s, r)
        BY <1>2, <2>4, <2>7, <2>11, <3>2
      <3> QED
        BY <2>3, <3>1, <3>2
    <2>16. IsFiniteSet(DOMAIN O.known) /\ Size(O) \in 0..O.made
      <3>1. CASE O.known = I.known
        BY <2>3, <2>6, <2>8, <3>1 DEF Size
      <3>2. CASE O.known = Put(I.known, s, r)
        BY <2>3, <2>6, <2>7, <2>8, <2>9, <3>2 DEF Size
      <3> QED
        BY <2>3, <3>1, <3>2
    <2>17. /\ Len(O.dense.items) <= O.made
           /\ Len(O.dense.items) = O.made =>
                /\ Len(I.dense.items) = I.made /\ Len(O.dense.items) = Len(I.dense.items) + 1
                /\ O.dense.items[Len(I.dense.items) + 1] = r
                /\ \A i \in 1..Len(I.dense.items) : O.dense.items[i] = I.dense.items[i]
      <3>1. CASE O.dense.items = I.dense.items
        BY <2>3, <2>6, <2>8, <3>1
      <3>2. CASE IsAppended(O.dense.items, I.dense.items, r)
        <4>1. /\ Len(O.dense.items) = Len(I.dense.items) + 1 /\ O.dense.items[Len(I.dense.items) + 1] = r
              /\ \A i \in 1..Len(I.dense.items) : O.dense.items[i] = I.dense.items[i]
          <5>1. PICK b : b = I.dense.items
            OBVIOUS
          <5>2. PICK c : c = O.dense.items
            OBVIOUS
          <5>3. b \in Seq(Records) /\ r \in Records /\ IsAppended(c, b, r)
            BY <2>3, <2>6, <3>2, <5>1, <5>2
          <5>4. Len(c) = Len(b) + 1 /\ c[Len(b) + 1] = r /\ \A i \in 1..Len(b) : c[i] = b[i]
            BY ONLY <5>3, AppendedWorks
          <5> QED
            BY <5>1, <5>2, <5>4
        <4> QED
          BY <2>3, <2>6, <2>8, <4>1
      <3> QED
        BY <2>3, <3>1, <3>2
    <2>18. ASSUME EveryStringKept(O), NEW u \in H PROVE u.key \in DOMAIN O.known /\ O.known[u.key] = u
      <3>1. Cardinality(DOMAIN O.known) = I.made + 1
        BY <2>3, <2>18 DEF EveryStringKept, Size
      <3>2. O.known = Put(I.known, s, r) /\ Cardinality(DOMAIN I.known) = I.made
        <4>1. O.known # I.known
          BY <2>6, <2>8, <3>1
        <4> QED
          BY <2>3, <2>6, <2>7, <2>8, <2>9, <3>1, <4>1
      <3>3. \A v \in G : v.key \in DOMAIN I.known /\ I.known[v.key] = v
        BY <3>2 DEF Consistent, EveryStringKept, Size
      <3> QED
        BY <2>4, <2>5, <2>7, <2>10, <3>2, <3>3
    <2>19. ASSUME EveryRecordPushed(O), NEW u \in H
           PROVE  u.index < Len(O.dense.items) /\ O.dense.items[u.index + 1] = u
      <3>1. /\ Len(I.dense.items) = I.made /\ Len(O.dense.items) = Len(I.dense.items) + 1
            /\ O.dense.items[Len(I.dense.items) + 1] = r
            /\ \A i \in 1..Len(I.dense.items) : O.dense.items[i] = I.dense.items[i]
        BY <2>17, <2>19 DEF EveryRecordPushed
      <3>2. CASE u = r
        BY <2>4, <2>6, <3>1, <3>2
      <3>3. CASE u \in G
        <4>1. u.index < Len(I.dense.items) /\ I.dense.items[u.index + 1] = u
          BY <3>1, <3>3 DEF Consistent, EveryRecordPushed
        <4>2. u.index \in Nat
          BY <1>1, <3>3 DEF Records
        <4>3. u.index + 1 \in 1..Len(I.dense.items)
          BY <2>6, <4>1, <4>2
        <4> QED
          <5>1. O.dense.items[u.index + 1] = I.dense.items[u.index + 1]
            BY <3>1, <4>3
          <5>2. Len(I.dense.items) \in Nat
            BY <2>6
          <5>3. u.index < Len(O.dense.items)
            BY <3>1, <4>1, <4>2, <5>2
          <5> QED
            BY <4>1, <5>1, <5>3
      <3> QED
        BY <2>10, <3>2, <3>3
    <2>20. Consistent(O, H)
      BY <2>3, <2>11, <2>13, <2>14, <2>15, <2>16, <2>17, <2>18, <2>19 DEF Consistent
    <2> QED
      BY <1>6, <2>2, <2>3, <2>4, <2>11, <2>20
  <1> QED
    BY <1>3, <1>4, <1>5, <1>6

\* The rows of the keyword table.
LEMMA KeywordRows ==
  /\ Len(Keywords) \in Nat /\ DOMAIN Keywords = 1..Len(Keywords)
  /\ \A n \in DOMAIN Keywords :
       /\ Keywords[n].word \in Seq(STRING) /\ IsWord(Keywords[n].word)
       /\ Keywords[n].type \in STRING /\ Keywords[n].type \notin OtherTypes \cup Kinds
  /\ \A i, j \in DOMAIN Keywords : Keywords[i].word = Keywords[j].word => i = j
  <1>1. PICK Rows : Rows = [word : Seq(STRING), type : STRING \ OtherTypes]
    OBVIOUS
  <1>2. PICK K : K = Keywords
    OBVIOUS
  <1>3. K \in Seq(Rows)
    BY <1>1, <1>2, LexerAssumption
  <1>4. /\ \A n \in DOMAIN K : IsWord(K[n].word) /\ K[n].type \notin Kinds
        /\ \A i, j \in DOMAIN K : K[i].word = K[j].word => i = j
    BY ONLY <1>2, LexerAssumption
  <1>5. Len(K) \in Nat /\ DOMAIN K = 1..Len(K) /\ \A n \in DOMAIN K : K[n] \in Rows
    BY ONLY <1>3
  <1>6. \A x \in Rows : x.word \in Seq(STRING) /\ x.type \in STRING /\ x.type \notin OtherTypes
    BY ONLY <1>1
  <1> QED
    BY ONLY <1>2, <1>4, <1>5, <1>6

\* lexer_populate_default_keywords interns the words one after the other.
LEMMA KeywordTableTurns ==
  \E f \in [0..Len(Keywords) -> Interners] :
    /\ f[0] = NewInterner /\ f[Len(Keywords)] = KeywordTable
    /\ \A n \in 1..Len(Keywords) :
         f[n] = Intern(f[n - 1], Keywords[n].word, Keywords[n].type, {}).interner
  <1>1. PICK N : N = Len(Keywords)
    OBVIOUS
  <1>2. N \in Nat
    BY <1>1, KeywordRows
  <1>3. PICK step : step = [n \in 1..N |-> [I \in Interners |->
                              Intern(I, Keywords[n].word, Keywords[n].type, {}).interner]]
    OBVIOUS
  <1>4. \A n \in 1..N : \A I \in Interners : step[n][I] \in Interners
    <2> SUFFICES ASSUME NEW n \in 1..N, NEW I \in Interners PROVE step[n][I] \in Interners
      OBVIOUS
    <2>1. Keywords[n].word \in Seq(STRING) /\ Keywords[n].type \in STRING \cup {NULL}
      BY <1>1, KeywordRows
    <2>2. PICK out : out = Intern(I, Keywords[n].word, Keywords[n].type, {})
      OBVIOUS
    <2>3. out.interner \in Interners
      BY ONLY <2>1, <2>2, InternTyped
    <2> QED
      BY <1>3, <2>2, <2>3
  <1>5. PICK start : start = NewInterner
    OBVIOUS
  <1>6. start \in Interners
    BY <1>5, NewConsistent DEF Consistent
  <1>7. PICK f \in [0..N -> Interners] : Iterates(f, N, start, step)
    BY ONLY <1>2, <1>4, <1>6, SteppingFunction
  <1>8. ASSUME NEW n \in 0..N
        PROVE  f[n] = IF n = 0 THEN NewInterner
                      ELSE Intern(f[n - 1], Keywords[n].word, Keywords[n].type, {}).interner
    <2>1. f[n] = IF n = 0 THEN start ELSE step[n][f[n - 1]]
      BY <1>7 DEF Iterates
    <2>2. CASE n = 0
      BY <1>5, <2>1, <2>2
    <2>3. CASE n # 0
      <3>1. n \in 1..N /\ n - 1 \in 0..N
        BY <1>2, <2>3
      <3>2. f[n - 1] \in Interners
        BY <1>7, <3>1
      <3> QED
        BY <1>3, <2>1, <2>3, <3>1, <3>2
    <2> QED
      BY <2>2, <2>3
  <1>9. f = [n \in 0..Len(Keywords) |->
               IF n = 0 THEN NewInterner
               ELSE Intern(f[n - 1], Keywords[n].word, Keywords[n].type, {}).interner]
    <2>1. f = [n \in 0..Len(Keywords) |-> f[n]]
      BY <1>1, <1>7
    <2> QED
      BY ONLY <1>1, <1>8, <2>1
  <1> DEFINE after == CHOOSE g : g = [n \in 0..Len(Keywords) |->
                                        IF n = 0 THEN NewInterner
                                        ELSE Intern(g[n - 1], Keywords[n].word, Keywords[n].type, {}).interner]
  <1>10. after = [n \in 0..Len(Keywords) |->
                    IF n = 0 THEN NewInterner
                    ELSE Intern(after[n - 1], Keywords[n].word, Keywords[n].type, {}).interner]
    BY ONLY <1>9
  <1>11. KeywordTable = after[Len(Keywords)]
    BY DEF KeywordTable
  <1>12. PICK g : g = after
    OBVIOUS
  <1>13. g = [n \in 0..N |-> IF n = 0 THEN NewInterner
                             ELSE Intern(g[n - 1], Keywords[n].word, Keywords[n].type, {}).interner]
    BY ONLY <1>1, <1>10, <1>12
  <1>14. PICK T : T = {n \in 0..N : g[n] = f[n]}
    OBVIOUS
  <1>15. 0 \in T
    <2>1. 0 \in 0..N
      BY <1>2
    <2>2. g[0] = NewInterner
      BY ONLY <1>13, <2>1
    <2> QED
      BY <1>8, <1>14, <2>1, <2>2
  <1>16. ASSUME NEW n \in 0..N - 1, n \in T PROVE n + 1 \in T
    <2>1. n + 1 \in 0..N /\ n + 1 # 0 /\ (n + 1) - 1 = n
      BY <1>2
    <2>2. g[n + 1] = Intern(g[n], Keywords[n + 1].word, Keywords[n + 1].type, {}).interner
      BY ONLY <1>13, <2>1
    <2>3. f[n + 1] = Intern(f[n], Keywords[n + 1].word, Keywords[n + 1].type, {}).interner
      BY ONLY <1>8, <2>1
    <2> QED
      BY <1>14, <1>16, <2>1, <2>2, <2>3
  <1>17. N \in T
    <2>1. 0 \in Int /\ N \in Int /\ N \in 0..N
      BY <1>2
    <2>2. \A n \in 0..N : n \in T
      BY ONLY <2>1, <1>15, <1>16, GoingUp
    <2> QED
      BY <2>1, <2>2
  <1>18. f[Len(Keywords)] = KeywordTable
    BY <1>1, <1>11, <1>12, <1>14, <1>17
  <1>19. f[0] = NewInterner
    BY <1>2, <1>8
  <1>20. \A n \in 1..N : f[n] = Intern(f[n - 1], Keywords[n].word, Keywords[n].type, {}).interner
    BY <1>8
  <1> QED
    BY <1>1, <1>7, <1>18, <1>19, <1>20

\* the first n words of the table and no others have a record, with their types
Filled(I, n) ==
  /\ I \in Interners /\ IsFiniteSet(DOMAIN I.known) /\ Size(I) \in 0..I.capacity
  /\ \A s \in DOMAIN I.known :
       \E i \in 1..n : Keywords[i].word = s /\ I.known[s].meta = Keywords[i].type
  /\ \A i \in 1..n : Keywords[i].word \in DOMAIN I.known

\* A table that is enlarged in time refuses no word.
LEMMA FilledMore ==
  ASSUME NEW n \in 1..Len(Keywords), NEW I, Filled(I, n - 1),
         NEW O, O = Intern(I, Keywords[n].word, Keywords[n].type, {}).interner
  PROVE  Filled(O, n)
  <1>1. PICK s : s = Keywords[n].word
    OBVIOUS
  <1>2. PICK meta : meta = Keywords[n].type
    OBVIOUS
  <1>3. /\ s \in Seq(STRING) /\ s # <<>> /\ meta \in STRING \cup {NULL}
        /\ n \in Nat /\ \A i \in 1..n - 1 : Keywords[i].word # s
    <2>1. n \in DOMAIN Keywords /\ \A i \in 1..n - 1 : i \in DOMAIN Keywords /\ i # n
      BY KeywordRows
    <2>2. s \in Seq(STRING) /\ meta \in STRING
      BY <1>1, <1>2, <2>1, KeywordRows
    <2>3. IsWord(s) /\ \A i \in 1..n - 1 : Keywords[i].word # s
      BY <1>1, <2>1, KeywordRows
    <2>4. n \in Nat
      BY KeywordRows
    <2> QED
      BY <2>2, <2>3, <2>4 DEF IsWord
  <1>4. s \notin DOMAIN I.known
    BY <1>3 DEF Filled
  <1>5. Peek(I, s) = NULL
    BY <1>4 DEF Peek
  <1>6. I \in Interners
    BY DEF Filled
  <1>7. PICK r : r = [key |-> s, index |-> Len(I.dense.items), meta |-> meta, id |-> I.made + 1]
    OBVIOUS
  <1>8. PICK out : out = Intern(I, s, meta, {})
    OBVIOUS
  <1>9. PICK K : K = Registered(I, s, r, {})
    OBVIOUS
  <1>10. r \in Records /\ O \in Interners /\ O.known = K.known /\ O.capacity = K.capacity
    <2>1. "record" \notin {}
      OBVIOUS
    <2>2. /\ r \in Records /\ out.interner \in Interners
          /\ out.interner.known = Registered(I, s, r, {}).known
          /\ out.interner.capacity = Registered(I, s, r, {}).capacity
      BY ONLY <1>3, <1>5, <1>6, <1>7, <1>8, <2>1, InternNew
    <2> QED
      BY <1>1, <1>2, <1>8, <1>9, <2>2
  <1>11. PICK E : E = Enlarged(I, {})
    OBVIOUS
  <1>12. PICK c : c = I.capacity
    OBVIOUS
  <1>13. PICK z : z = Cardinality(DOMAIN I.known)
    OBVIOUS
  <1>14. c \in Nat \ {0} /\ z \in 0..c /\ I.known \in Tables
    BY <1>6, <1>12, <1>13 DEF Filled, Size, Interners
  <1>15. E.known = I.known /\ E.capacity \in Nat /\ z < E.capacity
    <2>1. CASE z >= (c * 3) \div 4
      <3>1. E = [I EXCEPT !.capacity = 2 * c]
        BY <1>11, <1>12, <1>13, <2>1 DEF Enlarged, Size
      <3>2. E.known = I.known /\ E.capacity = 2 * c
        BY <1>6, <3>1 DEF Interners
      <3> QED
        BY <1>14, <3>2
    <2>2. CASE ~(z >= (c * 3) \div 4)
      <3>1. E = I
        BY <1>11, <1>12, <1>13, <2>2 DEF Enlarged, Size
      <3>2. (c * 3) \div 4 <= c /\ (c * 3) \div 4 \in Int
        BY <1>14
      <3> QED
        BY <1>12, <1>14, <2>2, <3>1, <3>2
    <2> QED
      BY <2>1, <2>2
  <1>16. K = [E EXCEPT !.known = Put(E.known, s, r)]
    BY <1>9, <1>11, <1>13, <1>15 DEF Registered, Size
  <1>17. E \in Interners
    <2>1. E = I \/ E = [I EXCEPT !.capacity = 2 * c]
      BY <1>11, <1>12 DEF Enlarged
    <2>2. 2 * c \in Nat \ {0}
      BY <1>14
    <2> QED
      BY <1>6, <2>1, <2>2 DEF Interners
  <1>18. K.known = Put(I.known, s, r) /\ K.capacity = E.capacity
    BY <1>15, <1>16, <1>17 DEF Interners
  <1>19. /\ DOMAIN Put(I.known, s, r) = {s} \cup DOMAIN I.known /\ Put(I.known, s, r)[s] = r
         /\ \A x \in DOMAIN I.known : x # s => Put(I.known, s, r)[x] = I.known[x]
    BY ONLY <1>3, <1>10, <1>14, PutWorks
  <1>20. PICK D : D = DOMAIN I.known
    OBVIOUS
  <1>21. IsFiniteSet(D \cup {s}) /\ Cardinality(D \cup {s}) = z + 1
    <2>1. IsFiniteSet(D) /\ s \notin D /\ Cardinality(D) = z
      BY <1>4, <1>13, <1>20 DEF Filled
    <2> QED
      BY <2>1, FS_AddElement
  <1>22. DOMAIN O.known = D \cup {s}
    BY <1>10, <1>18, <1>19, <1>20
  <1>23. IsFiniteSet(DOMAIN O.known) /\ Size(O) \in 0..O.capacity
    <2>1. z + 1 \in 0..E.capacity
      BY <1>14, <1>15
    <2>2. O.capacity = E.capacity /\ Size(O) = z + 1
      BY <1>10, <1>18, <1>21, <1>22 DEF Size
    <2> QED
      BY <1>21, <1>22, <2>1, <2>2
  <1>24. ASSUME NEW x \in DOMAIN O.known
         PROVE  \E i \in 1..n : Keywords[i].word = x /\ O.known[x].meta = Keywords[i].type
    <2>1. CASE x = s
      <3>1. O.known[x].meta = Keywords[n].type /\ Keywords[n].word = x /\ n \in 1..n
        <4>1. O.known[s] = r
          BY <1>10, <1>18, <1>19
        <4>2. r.meta = meta
          BY <1>7
        <4>3. n \in 1..n
          BY <1>3
        <4> QED
          BY <1>1, <1>2, <2>1, <4>1, <4>2, <4>3
      <3> QED
        BY <3>1
    <2>2. CASE x # s
      <3>1. x \in DOMAIN I.known /\ O.known[x] = I.known[x]
        BY <1>10, <1>18, <1>19, <1>20, <1>22, <2>2
      <3>2. PICK i \in 1..n - 1 : Keywords[i].word = x /\ I.known[x].meta = Keywords[i].type
        BY <3>1 DEF Filled
      <3>3. i \in 1..n
        BY <1>3
      <3> QED
        BY <3>1, <3>2, <3>3
    <2> QED
      BY <2>1, <2>2
  <1>25. ASSUME NEW i \in 1..n PROVE Keywords[i].word \in DOMAIN O.known
    <2>1. i = n \/ i \in 1..n - 1
      BY <1>3
    <2> QED
      BY <1>1, <1>20, <1>22, <2>1 DEF Filled
  <1> QED
    BY <1>10, <1>23, <1>24, <1>25 DEF Filled

\* The keyword table knows the keywords, each with its type, and nothing else.
LEMMA KeywordTableWorks ==
  /\ \A s : Peek(KeywordTable, s) \in Records \cup {NULL}
  /\ \A k \in DOMAIN Keywords : /\ Peek(KeywordTable, Keywords[k].word) # NULL
                                /\ Peek(KeywordTable, Keywords[k].word).meta = Keywords[k].type
  /\ \A s : Peek(KeywordTable, s) # NULL =>
       \E k \in DOMAIN Keywords : Keywords[k].word = s /\ Keywords[k].type = Peek(KeywordTable, s).meta
  <1>1. PICK N : N = Len(Keywords)
    OBVIOUS
  <1>2. N \in Nat /\ DOMAIN Keywords = 1..N
    BY <1>1, KeywordRows
  <1>3. PICK f \in [0..Len(Keywords) -> Interners] :
          /\ f[0] = NewInterner /\ f[Len(Keywords)] = KeywordTable
          /\ \A n \in 1..Len(Keywords) :
               f[n] = Intern(f[n - 1], Keywords[n].word, Keywords[n].type, {}).interner
    BY KeywordTableTurns
  <1>4. PICK T : T = {n \in 0..N : Filled(f[n], n)}
    OBVIOUS
  <1>5. 0 \in T
    <2>1. PICK I : I = NewInterner
      OBVIOUS
    <2>2. I \in Interners /\ I.capacity = MapCapacity0 /\ DOMAIN I.known = {}
      BY <2>1, NewConsistent DEF Consistent, NewInterner
    <2>3. IsFiniteSet(DOMAIN I.known) /\ Size(I) = 0
      BY <2>2, FS_EmptySet DEF Size
    <2>4. 0 \in 0..I.capacity
      BY <2>2, InternerAssumption
    <2>5. Filled(I, 0)
      BY <2>2, <2>3, <2>4 DEF Filled
    <2> QED
      BY <1>2, <1>3, <1>4, <2>1, <2>5
  <1>6. ASSUME NEW n \in 0..N - 1, n \in T PROVE n + 1 \in T
    <2>1. n + 1 \in 1..Len(Keywords) /\ (n + 1) - 1 = n /\ n + 1 \in 0..N
      BY <1>1, <1>2
    <2>2. PICK I : I = f[n]
      OBVIOUS
    <2>3. PICK O : O = f[n + 1]
      OBVIOUS
    <2>4. PICK m : m = n + 1
      OBVIOUS
    <2>5. Filled(I, m - 1) /\ m \in 1..Len(Keywords)
      BY <1>4, <1>6, <2>1, <2>2, <2>4
    <2>6. O = Intern(I, Keywords[m].word, Keywords[m].type, {}).interner
      BY <1>3, <2>1, <2>2, <2>3, <2>4
    <2>7. Filled(O, m)
      BY ONLY <2>5, <2>6, FilledMore
    <2> QED
      BY <1>4, <2>1, <2>3, <2>4, <2>7
  <1>7. N \in T
    <2>1. 0 \in Int /\ N \in Int /\ N \in 0..N
      BY <1>2
    <2>2. \A n \in 0..N : n \in T
      BY ONLY <2>1, <1>5, <1>6, GoingUp
    <2> QED
      BY <2>1, <2>2
  <1>8. PICK I : I = KeywordTable
    OBVIOUS
  <1>9. Filled(I, N)
    BY <1>1, <1>3, <1>4, <1>7, <1>8
  <1>10. /\ \A s \in DOMAIN I.known : I.known[s] \in Records
         /\ \A s \in DOMAIN I.known :
              \E k \in DOMAIN Keywords : Keywords[k].word = s /\ I.known[s].meta = Keywords[k].type
         /\ \A k \in DOMAIN Keywords : Keywords[k].word \in DOMAIN I.known
    <2>1. I.known \in Tables
      BY <1>9 DEF Filled, Interners
    <2> QED
      BY <1>2, <1>9, <2>1, TableWorks DEF Filled
  <1>11. \A s \in DOMAIN I.known : I.known[s] # NULL
    BY <1>10, InternerAssumption
  <1>12. \A s : Peek(I, s) # NULL <=> s \in DOMAIN I.known
    BY <1>11 DEF Peek
  <1>13. \A s \in DOMAIN I.known : Peek(I, s) = I.known[s]
    BY DEF Peek
  <1>14. \A s : Peek(I, s) \in Records \cup {NULL}
    BY <1>10 DEF Peek
  <1>15. ASSUME NEW k \in DOMAIN Keywords
         PROVE  Peek(I, Keywords[k].word) # NULL /\ Peek(I, Keywords[k].word).meta = Keywords[k].type
    <2>1. PICK s : s = Keywords[k].word
      OBVIOUS
    <2>2. s \in DOMAIN I.known
      BY <1>10, <2>1
    <2>3. PICK i \in DOMAIN Keywords : Keywords[i].word = s /\ I.known[s].meta = Keywords[i].type
      BY <1>10, <2>2
    <2>4. i = k
      BY <2>1, <2>3, KeywordRows
    <2> QED
      BY <1>12, <1>13, <2>1, <2>2, <2>3, <2>4
  <1> QED
    BY <1>8, <1>10, <1>12, <1>13, <1>14, <1>15

\* The text a string literal denotes is a text.
LEMMA UnescapedTyped ==
  ASSUME NEW s \in Seq(STRING)
  PROVE  Unescaped(s) \in Seq(STRING)
  <1>1. PICK N : N = Len(s) + 1
    OBVIOUS
  <1>2. N \in Nat /\ Len(s) \in Nat
    BY <1>1
  <1>3. PICK Texts : Texts = Seq(STRING)
    OBVIOUS
  <1>4. PICK stops : stops = {k \in 1..N : k > Len(s) \/ (s[k] = "\\" /\ k = Len(s))}
    OBVIOUS
  <1>5. PICK base : base = [k \in 1..N |-> <<>>]
    OBVIOUS
  <1>6. PICK go : go = [k \in 1..N |-> IF s[k] # "\\" THEN k + 1 ELSE k + 2]
    OBVIOUS
  <1>7. PICK step : step = [k \in 1..N |-> [x \in Texts |->
                              IF k > Len(s) \/ (s[k] = "\\" /\ k = Len(s)) THEN <<>>
                              ELSE IF s[k] # "\\" THEN <<s[k]>> \o x ELSE <<Means(s[k + 1])>> \o x]]
    OBVIOUS
  <1>8. \A c \in STRING : Means(c) \in STRING
    <2>1. \A c \in STRING : Means(c) \in {"\n", "\t", "\r", "NUL", c}
      BY DEF Means
    <2> QED
      BY <2>1, EscapeAssumption
  <1>9. ASSUME NEW k \in 1..N PROVE base[k] \in Texts /\ \A x \in Texts : step[k][x] \in Texts
    <2>1. <<>> \in Texts
      BY <1>3
    <2>2. ASSUME NEW x \in Texts PROVE step[k][x] \in Texts
      <3>1. CASE k > Len(s) \/ (s[k] = "\\" /\ k = Len(s))
        BY <1>7, <2>1, <3>1
      <3>2. CASE ~(k > Len(s) \/ (s[k] = "\\" /\ k = Len(s))) /\ s[k] # "\\"
        <4>1. s[k] \in STRING
          BY <1>1, <1>2, <3>2
        <4>2. PICK c : c = s[k]
          OBVIOUS
        <4>3. <<c>> \in Seq(STRING) /\ x \in Seq(STRING)
          BY <1>3, <4>1, <4>2
        <4>4. <<c>> \o x \in Seq(STRING)
          BY ONLY <4>3
        <4> QED
          BY <1>3, <1>7, <3>2, <4>2, <4>4
      <3>3. CASE ~(k > Len(s) \/ (s[k] = "\\" /\ k = Len(s))) /\ s[k] = "\\"
        <4>1. k + 1 \in 1..Len(s)
          BY <1>1, <1>2, <3>3
        <4>2. PICK c : c = Means(s[k + 1])
          OBVIOUS
        <4>3. <<c>> \in Seq(STRING) /\ x \in Seq(STRING)
          <5>1. c \in STRING
            <6>1. s[k + 1] \in STRING
              BY <4>1
            <6> QED
              BY <1>8, <4>2, <6>1
          <5>2. <<c>> \in Seq(STRING)
            <6>1. PICK S : S = STRING
              OBVIOUS
            <6>2. c \in S
              BY <5>1, <6>1
            <6>3. <<c>> \in Seq(S)
              BY ONLY <6>2
            <6> QED
              BY <6>1, <6>3
          <5> QED
            BY <1>3, <5>2
        <4>4. <<c>> \o x \in Seq(STRING)
          BY ONLY <4>3
        <4> QED
          BY <1>3, <1>7, <3>3, <4>2, <4>4
      <3> QED
        BY <3>1, <3>2, <3>3
    <2> QED
      BY <1>5, <2>1, <2>2
  <1>10. \A k \in 1..N : k \notin stops => go[k] \in k + 1..N
    <2> SUFFICES ASSUME NEW k \in 1..N, k \notin stops PROVE go[k] \in k + 1..N
      OBVIOUS
    <2>1. k <= Len(s) /\ (s[k] = "\\" => k # Len(s))
      BY <1>2, <1>4
    <2>2. CASE s[k] # "\\"
      BY <1>1, <1>2, <1>6, <2>1, <2>2
    <2>3. CASE s[k] = "\\"
      BY <1>1, <1>2, <1>6, <2>1, <2>3
    <2> QED
      BY <2>2, <2>3
  <1>11. PICK f \in [1..N -> Texts] : ClimbsWith(f, 1, N, stops, base, go, step)
    <2>1. 1 \in Int /\ N \in Int
      BY <1>2
    <2> QED
      BY ONLY <2>1, <1>9, <1>10, ClimbingFunctionWith
  <1>12. ASSUME NEW k \in 1..N
         PROVE  f[k] = IF k > Len(s) THEN <<>>
                       ELSE IF s[k] # "\\" THEN <<s[k]>> \o f[k + 1]
                       ELSE IF k = Len(s) THEN <<>>
                       ELSE <<Means(s[k + 1])>> \o f[k + 2]
    <2>1. f[k] = IF k \in stops THEN base[k] ELSE step[k][f[go[k]]]
      BY <1>11 DEF ClimbsWith
    <2>2. CASE k \in stops
      BY <1>4, <1>5, <2>1, <2>2
    <2>3. CASE k \notin stops
      <3>1. ~(k > Len(s) \/ (s[k] = "\\" /\ k = Len(s)))
        BY <1>4, <2>3
      <3>2. go[k] \in 1..N
        BY <1>2, <1>10, <2>3
      <3>3. f[go[k]] \in Texts
        BY <1>11, <3>2
      <3>4. PICK x : x = f[go[k]]
        OBVIOUS
      <3>5. f[k] = IF s[k] # "\\" THEN <<s[k]>> \o x ELSE <<Means(s[k + 1])>> \o x
        BY <1>7, <2>1, <2>3, <3>1, <3>3, <3>4
      <3>6. x = IF s[k] # "\\" THEN f[k + 1] ELSE f[k + 2]
        BY <1>6, <3>4
      <3> QED
        BY <3>1, <3>5, <3>6
    <2> QED
      BY <2>2, <2>3
  <1>13. f = [k \in 1..Len(s) + 1 |->
                IF k > Len(s) THEN <<>>
                ELSE IF s[k] # "\\" THEN <<s[k]>> \o f[k + 1]
                ELSE IF k = Len(s) THEN <<>>
                ELSE <<Means(s[k + 1])>> \o f[k + 2]]
    <2>1. f = [k \in 1..Len(s) + 1 |-> f[k]]
      BY <1>1, <1>11
    <2> QED
      BY ONLY <1>1, <1>12, <2>1
  <1> DEFINE from == CHOOSE g : g = [k \in 1..Len(s) + 1 |->
                                       IF k > Len(s) THEN <<>>
                                       ELSE IF s[k] # "\\" THEN <<s[k]>> \o g[k + 1]
                                       ELSE IF k = Len(s) THEN <<>>
                                       ELSE <<Means(s[k + 1])>> \o g[k + 2]]
  <1>14. from = [k \in 1..Len(s) + 1 |->
                   IF k > Len(s) THEN <<>>
                   ELSE IF s[k] # "\\" THEN <<s[k]>> \o from[k + 1]
                   ELSE IF k = Len(s) THEN <<>>
                   ELSE <<Means(s[k + 1])>> \o from[k + 2]]
    BY ONLY <1>13
  <1>15. Unescaped(s) = from[1]
    BY DEF Unescaped
  <1>16. PICK g : g = from
    OBVIOUS
  <1>17. \A k \in 1..N : g[k] = IF k > Len(s) THEN <<>>
                                ELSE IF s[k] # "\\" THEN <<s[k]>> \o g[k + 1]
                                ELSE IF k = Len(s) THEN <<>>
                                ELSE <<Means(s[k + 1])>> \o g[k + 2]
    BY ONLY <1>1, <1>14, <1>16
  <1>18. PICK T : T = {k \in 1..N : g[k] = f[k]}
    OBVIOUS
  <1>19. ASSUME NEW k \in 1..N, \A m \in k + 1..N : m \in T PROVE k \in T
    <2>1. \A m \in k + 1..N : g[m] = f[m]
      BY <1>18, <1>19
    <2>2. k <= Len(s) => k + 1 \in k + 1..N
      BY <1>1, <1>2
    <2>3. k <= Len(s) /\ k # Len(s) => k + 2 \in k + 1..N
      BY <1>1, <1>2
    <2>4. g[k] = f[k]
      <3>1. CASE k > Len(s)
        BY <1>12, <1>17, <3>1
      <3>2. CASE ~(k > Len(s)) /\ s[k] # "\\"
        <4>1. g[k] = <<s[k]>> \o g[k + 1] /\ f[k] = <<s[k]>> \o f[k + 1]
          BY ONLY <1>12, <1>17, <3>2, k \in 1..N
        <4>2. g[k + 1] = f[k + 1]
          BY <1>2, <2>1, <2>2, <3>2
        <4> QED
          BY ONLY <4>1, <4>2
      <3>3. CASE ~(k > Len(s)) /\ s[k] = "\\"
        <4>1. k = Len(s) => g[k] = <<>> /\ f[k] = <<>>
          BY ONLY <1>12, <1>17, <3>3, k \in 1..N
        <4>2. k # Len(s) => g[k] = <<Means(s[k + 1])>> \o g[k + 2] /\ f[k] = <<Means(s[k + 1])>> \o f[k + 2]
          BY ONLY <1>12, <1>17, <3>3, k \in 1..N
        <4>3. k # Len(s) => g[k + 2] = f[k + 2]
          BY <1>2, <2>1, <2>3, <3>3
        <4>4. CASE k = Len(s)
          BY ONLY <4>1, <4>4
        <4>5. CASE k # Len(s)
          BY ONLY <4>2, <4>3, <4>5
        <4> QED
          BY <4>4, <4>5
      <3> QED
        BY <3>1, <3>2, <3>3
    <2> QED
      BY <1>18, <2>4
  <1>20. 1 \in T
    <2>1. 1 \in Int /\ N \in Int /\ 1 \in 1..N
      BY <1>1, <1>2
    <2>2. \A k \in 1..N : k \in T
      BY ONLY <2>1, <1>19, GoingDown
    <2> QED
      BY <2>1, <2>2
  <1>21. f[1] \in Texts
    BY <1>1, <1>2, <1>11
  <1> QED
    BY <1>3, <1>15, <1>16, <1>18, <1>20, <1>21

\* So is the text of a literal without its quotes.
LEMMA ContentTyped ==
  ASSUME NEW s \in Seq(STRING)
  PROVE  Content(s) \in Seq(STRING)
  <1>1. SubSeq(s, 2, Len(s) - 1) \in Seq(STRING)
    <2>1. PICK n : n = Len(s)
      OBVIOUS
    <2>2. n \in Nat /\ (n > 2 => 2 \in 1..n + 1 /\ n \in 2..n + 1)
      BY <2>1
    <2>3. CASE n >= 2
      <3>1. 2 \in 1..Len(s) + 1 /\ n \in 2..Len(s) + 1
        BY <2>1, <2>2, <2>3
      <3>2. SubSeq(s, 2, n - 1) \in Seq(STRING)
        BY ONLY <3>1, s \in Seq(STRING), PartOfText
      <3> QED
        BY <2>1, <3>2
    <2>4. CASE ~(n >= 2)
      <3>1. SubSeq(s, 2, n - 1) = <<>>
        BY <2>1, <2>2, <2>4
      <3> QED
        BY <2>1, <3>1
    <2> QED
      BY <2>3, <2>4
  <1> QED
    BY <1>1, UnescapedTyped DEF Content

-----------------------------------------------------------------------------
(* Tokens.                                                                 *)

\* the lexemes that start at p, by their last position
Lexemes(text, p) == {q \in p..Len(text) : IsLexeme(SubSeq(text, p, q))}

\* t is as LongestMatch has it; memory has been lacking when spoiled
Munched(text, t, spoiled) ==
  IF t.type = "UNKNOWN"
  THEN Lexemes(text, t.start) = {} \/ (IsWord(SubSeq(text, t.start, t.end - 1)) /\ spoiled)
  ELSE Is(KindOf(t), SubSeq(text, t.start, t.end - 1)) /\ t.end - 1 = Max(Lexemes(text, t.start))

\* t follows the position b as the properties have it
GoodToken(text, b, t, spoiled) ==
  /\ t.start \in b..Len(text) + 1 /\ t.end \in t.start..Len(text) + 1
  /\ t.from = Position(text, t.start) /\ t.to = Position(text, t.end)
  /\ IF t.type = "EOF" THEN t.start = Len(text) + 1 /\ IsTail(SubSeq(text, b, t.start - 1))
     ELSE t.start < t.end /\ IsBlank(SubSeq(text, b, t.start - 1)) /\ Munched(text, t, spoiled)
  /\ \A k \in DOMAIN Keywords :
       SubSeq(text, t.start, t.end - 1) = Keywords[k].word => t.type = Keywords[k].type

\* what becomes of the type x of a lexeme s
TypeFollows(x, s, type, spoiled) ==
  IF x # "WORD" THEN type = x
  ELSE \/ \E k \in DOMAIN Keywords : Keywords[k].word = s /\ type = Keywords[k].type
       \/ /\ \A k \in DOMAIN Keywords : Keywords[k].word # s
          /\ type = "IDENTIFIER" \/ (type = "UNKNOWN" /\ spoiled)

\* The greatest of a set.
LEMMA MaxIs ==
  ASSUME NEW S, NEW m \in S, m \in Int, \A x \in S : x \in Int /\ x <= m
  PROVE  Max(S) = m
  <1>1. \E x \in S : \A y \in S : x >= y
    OBVIOUS
  <1>2. Max(S) \in S /\ \A y \in S : Max(S) >= y
    BY <1>1 DEF Max
  <1>3. PICK k : k = Max(S)
    OBVIOUS
  <1>4. k \in Int /\ k >= m /\ k <= m
    BY <1>2, <1>3
  <1> QED
    BY <1>3, <1>4

\* What is cut off next is a token as the properties have it.
LEMMA TokenGood ==
  ASSUME Text \in Seq(STRING), NEW b \in 1..TextLen + 1, NEW q, q = SkipWhitespace[b],
         NEW x, x = Lex(q), NEW spoiled, NEW t,
         TypeFollows(x.type, SubSeq(Text, q, x.end - 1), t.type, spoiled),
         t.start = q, t.end = x.end, t.from = Position(Text, q), t.to = Position(Text, x.end)
  PROVE  GoodToken(Text, b, t, spoiled) /\ x.end \in 1..TextLen + 1
  <1>1. TextLen = Len(Text) /\ TextLen \in Nat
    BY DEF TextLen
  <1>2. q \in b..TextLen + 1 /\ Skipped(Text, b, q)
    BY SkipWhitespaceWorks
  <1>3. /\ q <= Len(Text) => IsBlank(SubSeq(Text, b, q - 1))
        /\ IsTail(SubSeq(Text, b, q - 1))
    <2>1. b \in 1..Len(Text) + 1 /\ q \in b..Len(Text) + 1
      BY <1>1, <1>2
    <2> QED
      BY <1>2, <2>1, SkippedGap
  <1>4. CASE q > TextLen
    <2>1. q = TextLen + 1 /\ x.type = "EOF" /\ x.end = q
      BY <1>1, <1>2, <1>4 DEF Lex, Lexeme
    <2>2. t.type = "EOF"
      BY <2>1 DEF TypeFollows
    <2>3. \A k \in DOMAIN Keywords : SubSeq(Text, q, q - 1) # Keywords[k].word
      <3>1. SubSeq(Text, q, q - 1) = <<>>
        BY <1>1, <2>1
      <3> QED
        BY <3>1, KeywordRows DEF IsWord
    <2>4. q \in b..Len(Text) + 1 /\ q \in q..Len(Text) + 1 /\ q \in 1..TextLen + 1
      BY <1>1, <1>2
    <2> QED
      BY <1>1, <1>3, <2>1, <2>2, <2>3, <2>4 DEF GoodToken
  <1>5. CASE q <= TextLen
    <2>1. q \in 1..TextLen
      BY <1>1, <1>2, <1>5
    <2>2. Longest(q, x)
      BY <2>1, LexLongest
    <2>3. PICK e : e = x.end - 1
      OBVIOUS
    <2>4. x.end \in q + 1..TextLen + 1 /\ e \in q..TextLen /\ x.end = e + 1
      BY <1>1, <2>1, <2>2, <2>3 DEF Longest
    <2>5. PICK s : s = SubSeq(Text, q, x.end - 1)
      OBVIOUS
    <2>6. s = Part(q, e)
      BY <2>3, <2>5 DEF Part
    <2>7. s \in Seq(STRING) /\ s[1] = Text[q]
      BY <2>1, <2>4, <2>6, PartWorks
    <2>8. TypeFollows(x.type, s, t.type, spoiled)
      BY <2>5
    <2>9. IsWord(s) => x.type = "WORD"
      <3> SUFFICES ASSUME IsWord(s) PROVE x.type = "WORD"
        OBVIOUS
      <3>1. At(q, Alpha)
        BY <2>1, <2>7 DEF IsWord, At
      <3> QED
        BY <1>5, <1>1, <2>1, <3>1 DEF Lex, Lexeme
    <2>10. x.type = "UNKNOWN" \/ x.type \in Kinds
      BY <2>2 DEF Longest
    <2>11. \A k \in DOMAIN Keywords : s = Keywords[k].word => t.type = Keywords[k].type
      <3> SUFFICES ASSUME NEW k \in DOMAIN Keywords, s = Keywords[k].word PROVE t.type = Keywords[k].type
        OBVIOUS
      <3>1. x.type = "WORD"
        BY <2>9, KeywordRows
      <3>2. PICK j \in DOMAIN Keywords : Keywords[j].word = s /\ t.type = Keywords[j].type
        BY <2>8, <3>1 DEF TypeFollows
      <3> QED
        BY <3>2, KeywordRows
    <2>12. t.type # "EOF"
      BY <2>8, <2>10, KeywordRows DEF TypeFollows, Kinds, OtherTypes
    <2>13. Munched(Text, t, spoiled)
      <3>1. PICK L : L = Lexemes(Text, q)
        OBVIOUS
      <3>2. L = {j \in q..TextLen : IsLexeme(Part(q, j))}
        BY <1>1, <3>1 DEF Lexemes, Part
      <3>3. CASE x.type = "UNKNOWN"
        <4>1. t.type = "UNKNOWN"
          BY <2>8, <3>3 DEF TypeFollows
        <4>2. L = {}
          BY <2>2, <3>2, <3>3 DEF Longest, Kinds
        <4> QED
          BY <3>1, <4>1, <4>2 DEF Munched
      <3>4. CASE x.type # "UNKNOWN"
        <4>1. x.type \in Kinds /\ Is(x.type, s) /\ \A j \in x.end..TextLen : ~IsLexeme(Part(q, j))
          BY <2>2, <2>3, <2>6, <3>4 DEF Longest
        <4>2. Max(L) = e
          <5>1. e \in L
            BY <2>4, <2>6, <3>2, <4>1 DEF IsLexeme
          <5>2. \A j \in L : j \in Int /\ j <= e
            <6> SUFFICES ASSUME NEW j \in L PROVE j \in Int /\ j <= e
              OBVIOUS
            <6>1. j \in q..TextLen /\ IsLexeme(Part(q, j))
              BY <3>2
            <6>2. j \notin x.end..TextLen
              BY <4>1, <6>1
            <6> QED
              BY <1>1, <2>1, <2>4, <6>1, <6>2
          <5>3. e \in Int
            BY <2>1, <2>4
          <5> QED
            BY <5>1, <5>2, <5>3, MaxIs
        <4>3. CASE t.type = "UNKNOWN"
          <5>1. x.type = "WORD" /\ spoiled
            BY <2>8, <3>4, <4>3, KeywordRows DEF TypeFollows, OtherTypes
          <5>2. IsWord(s)
            BY <4>1, <5>1 DEF Is
          <5> QED
            BY <2>5, <4>3, <5>1, <5>2 DEF Munched
        <4>4. CASE t.type # "UNKNOWN"
          <5>1. KindOf(t) = x.type
            <6>1. CASE x.type # "WORD"
              BY <2>8, <4>1, <6>1 DEF TypeFollows, KindOf
            <6>2. CASE x.type = "WORD"
              <7>1. t.type \notin Kinds
                BY <2>8, <4>4, <6>2, KeywordRows DEF TypeFollows, Kinds
              <7> QED
                BY <6>2, <7>1 DEF KindOf
            <6> QED
              BY <6>1, <6>2
          <5> QED
            BY <2>3, <2>5, <3>1, <4>1, <4>2, <4>4, <5>1 DEF Munched
        <4> QED
          BY <4>3, <4>4
      <3> QED
        BY <3>3, <3>4
    <2>14. /\ q \in b..Len(Text) + 1 /\ x.end \in q..Len(Text) + 1 /\ q < x.end /\ q <= Len(Text)
           /\ x.end \in 1..TextLen + 1
      BY <1>1, <1>2, <2>1, <2>4
    <2> QED
      BY <1>3, <2>5, <2>11, <2>12, <2>13, <2>14 DEF GoodToken
  <1> QED
    BY <1>1, <1>2, <1>4, <1>5

\* What a lexeme is recorded as, and the interners after it.
LEMMA RecordFollows ==
  ASSUME keywords = KeywordTable, NEW G, Consistent(identifiers, G), NEW H, Consistent(strings, H),
         NEW s \in Seq(STRING), NEW x \in Kinds \cup {"UNKNOWN", "EOF"}, x = "WORD" => s # <<>>,
         NEW lacking, NEW r, r = RecordOf(x, s, lacking)
  PROVE  /\ TypeFollows(x, s, r.type, lacking # {}) /\ r.record \in Records \cup {NULL}
         /\ \E D : /\ G \subseteq D /\ Consistent(r.identifiers, D)
                   /\ r.type = "IDENTIFIER" /\ r.record # NULL => r.record \in D /\ r.record.key = s
         /\ \E D : /\ H \subseteq D /\ Consistent(r.strings, D)
                   /\ r.type = "STRING_LIT" /\ r.record # NULL =>
                        r.record \in D /\ r.record.key = Content(s)
  <1>1. PICK word : word = Peek(keywords, s)
    OBVIOUS
  <1>2. /\ word \in Records \cup {NULL}
        /\ word # NULL => \E k \in DOMAIN Keywords : Keywords[k].word = s /\ Keywords[k].type = word.meta
        /\ word = NULL => \A k \in DOMAIN Keywords : Keywords[k].word # s
    BY <1>1, KeywordTableWorks
  <1>3. NULL \in STRING \cup {NULL} /\ Content(s) \in Seq(STRING)
    BY ContentTyped
  <1>4. PICK name : name = Intern(identifiers, s, NULL, lacking)
    OBVIOUS
  <1>5. /\ \E D : /\ G \subseteq D /\ Consistent(name.interner, D)
                  /\ name.record # NULL => name.record \in D /\ name.record.key = s
        /\ name.record = NULL /\ s # <<>> => "record" \in lacking \/ "array" \in lacking
    <2>1. PICK I : I = identifiers
      OBVIOUS
    <2>2. Consistent(I, G) /\ name = Intern(I, s, NULL, lacking)
      BY <1>4, <2>1
    <2>3. PICK none : none = NULL
      OBVIOUS
    <2>4. none \in STRING \cup {NULL} /\ s \in Seq(STRING) /\ name = Intern(I, s, none, lacking)
      BY <2>2, <2>3
    <2> QED
      BY ONLY <2>2, <2>4, InternConsistent
  <1>6. PICK lit : lit = Intern(strings, Content(s), NULL, lacking)
    OBVIOUS
  <1>7. \E D : /\ H \subseteq D /\ Consistent(lit.interner, D)
               /\ lit.record # NULL => lit.record \in D /\ lit.record.key = Content(s)
    <2>1. PICK I : I = strings
      OBVIOUS
    <2>2. PICK c : c = Content(s)
      OBVIOUS
    <2>3. PICK none : none = NULL
      OBVIOUS
    <2>4. /\ Consistent(I, H) /\ none \in STRING \cup {NULL} /\ c \in Seq(STRING)
          /\ lit = Intern(I, c, none, lacking)
      BY <1>3, <1>6, <2>1, <2>2, <2>3
    <2>5. \E D : /\ H \subseteq D /\ Consistent(lit.interner, D)
                 /\ lit.record # NULL => lit.record \in D /\ lit.record.key = c
      BY ONLY <2>4, InternConsistent
    <2> QED
      BY <2>2, <2>5
  <1>8. name.record \in Records \cup {NULL} /\ lit.record \in Records \cup {NULL}
    <2>1. identifiers \in Interners /\ strings \in Interners
      BY DEF Consistent
    <2>2. name.record \in Records \cup {NULL}
      BY ONLY <1>3, <1>4, <2>1, s \in Seq(STRING), InternTyped
    <2>3. lit.record \in Records \cup {NULL}
      BY ONLY <1>3, <1>6, <2>1, InternTyped
    <2> QED
      BY <2>2, <2>3
  <1>9. CASE x = "WORD" /\ word # NULL
    <2>1. r = [type |-> word.meta, record |-> word, identifiers |-> identifiers, strings |-> strings]
      BY <1>1, <1>9 DEF RecordOf
    <2>2. r.type = word.meta /\ r.record = word /\ r.identifiers = identifiers /\ r.strings = strings
      BY <2>1
    <2>3. PICK k \in DOMAIN Keywords : Keywords[k].word = s /\ Keywords[k].type = word.meta
      BY <1>2, <1>9
    <2>4. TypeFollows(x, s, r.type, lacking # {})
      BY <1>9, <2>2, <2>3 DEF TypeFollows
    <2>5. r.type # "IDENTIFIER" /\ r.type # "STRING_LIT"
      BY <2>2, <2>3, KeywordRows DEF OtherTypes
    <2> QED
      BY <1>2, <2>2, <2>4, <2>5
  <1>10. CASE x = "WORD" /\ word = NULL
    <2>1. r = [type |-> IF name.record = NULL THEN "UNKNOWN" ELSE "IDENTIFIER", record |-> name.record,
               identifiers |-> name.interner, strings |-> strings]
      BY <1>1, <1>4, <1>10 DEF RecordOf
    <2>2. /\ r.type = IF name.record = NULL THEN "UNKNOWN" ELSE "IDENTIFIER"
          /\ r.record = name.record /\ r.identifiers = name.interner /\ r.strings = strings
      BY <2>1
    <2>3. name.record = NULL => lacking # {}
      BY <1>5, <1>10
    <2>4. TypeFollows(x, s, r.type, lacking # {})
      BY <1>2, <1>10, <2>2, <2>3 DEF TypeFollows
    <2>5. r.type # "STRING_LIT"
      BY <2>2
    <2> QED
      BY <1>5, <1>8, <2>2, <2>4, <2>5
  <1>11. CASE x = "STRING_LIT"
    <2>1. r = [type |-> x, record |-> lit.record, identifiers |-> identifiers, strings |-> lit.interner]
      BY <1>6, <1>11 DEF RecordOf
    <2>2. /\ r.type = x /\ r.record = lit.record /\ r.identifiers = identifiers /\ r.strings = lit.interner
      BY <2>1
    <2>3. TypeFollows(x, s, r.type, lacking # {}) /\ r.type # "IDENTIFIER"
      BY <1>11, <2>2 DEF TypeFollows
    <2> QED
      BY <1>7, <1>8, <2>2, <2>3
  <1>12. CASE x # "WORD" /\ x # "STRING_LIT"
    <2>1. r = [type |-> x, record |-> NULL, identifiers |-> identifiers, strings |-> strings]
      BY <1>12 DEF RecordOf
    <2>2. r.type = x /\ r.record = NULL /\ r.identifiers = identifiers /\ r.strings = strings
      BY <2>1
    <2>3. TypeFollows(x, s, r.type, lacking # {})
      BY <1>12, <2>2 DEF TypeFollows
    <2> QED
      BY <2>2, <2>3
  <1> QED
    BY <1>9, <1>10, <1>11, <1>12

-----------------------------------------------------------------------------
(* The invariant.                                                          *)

TokenTypes == STRING \cup OtherTypes \cup Kinds

Tokens ==
  [type : TokenTypes, start : Nat, end : Nat, from : Nat \X Int, to : Nat \X Int,
   record : Records \cup {NULL}]

Arrays == [items : Seq(Tokens), capacity : Nat]

\* where the token at i of an array may start
Before(items, i) == IF i = 1 THEN 1 ELSE items[i - 1].end

Typed ==
  /\ program \in Programs /\ tokens \in Seq(Arrays)
  /\ Len(tokens) \in 1..Len(program.texts) /\ failures \in 0..program.failures

\* the cursor stands behind the last token, which is not the last of the file
OnCursor ==
  phase = "lexing" =>
    /\ at.cur \in 1..TextLen + 1 /\ at = CursorAt(Text, at.cur)
    /\ at.cur = Before(tokens[File].items, Len(tokens[File].items) + 1)
    /\ \A i \in DOMAIN tokens[File].items : tokens[File].items[i].type # "EOF"

\* every token of the arrays is as the properties have it
GoodIn(T, texts, spoiled) ==
  \A f \in DOMAIN T : \A i \in DOMAIN T[f].items :
    /\ GoodToken(texts[f], Before(T[f].items, i), T[f].items[i], spoiled)
    /\ T[f].items[i].type = "EOF" => i = Len(T[f].items)

\* the record of t, if it has the type and one, is in G with the key
Kept(G, t, type, key) == t.type = type /\ t.record # NULL => t.record \in G /\ t.record.key = key

NamesIn(T, texts, G) ==
  \A f \in DOMAIN T : \A i \in DOMAIN T[f].items :
    LET t == T[f].items[i] IN Kept(G, t, "IDENTIFIER", SubSeq(texts[f], t.start, t.end - 1))

LiteralsIn(T, texts, H) ==
  \A f \in DOMAIN T : \A i \in DOMAIN T[f].items :
    LET t == T[f].items[i] IN Kept(H, t, "STRING_LIT", Content(SubSeq(texts[f], t.start, t.end - 1)))

AllGood      == GoodIn(tokens, program.texts, failures < program.failures)
NamesKept    == \E G : Consistent(identifiers, G) /\ NamesIn(tokens, program.texts, G)
LiteralsKept == \E H : Consistent(strings, H) /\ LiteralsIn(tokens, program.texts, H)

LexInv == Typed /\ OnCursor /\ AllGood /\ keywords = KeywordTable /\ NamesKept /\ LiteralsKept

\* The programs, and the text of each file.
LEMMA ProgramTexts ==
  ASSUME NEW p \in Programs
  PROVE  /\ Len(p.texts) \in Nat \ {0} /\ p.failures \in Nat /\ DOMAIN p.texts = 1..Len(p.texts)
         /\ \A f \in 1..Len(p.texts) : p.texts[f] \in Seq(STRING)
  <1>1. PICK S : S = Seq(STRING)
    OBVIOUS
  <1>2. p.texts \in Seq(S) /\ p.texts # <<>> /\ p.failures \in Nat
    BY <1>1, LexerAssumption
  <1> QED
    BY <1>1, <1>2

\* A cursor on a new file.
LEMMA StartOfText ==
  ASSUME NEW text
  PROVE  Start = CursorAt(text, 1)
  BY PositionFirst DEF Start, CursorAt

\* The invariant holds at the start.
LEMMA LexInit ==
  ASSUME Init
  PROVE  LexInv
  <1>1. program \in Programs /\ tokens = <<EmptyArray>> /\ at = Start /\ failures = program.failures
    BY DEF Init
  <1>2. EmptyArray \in Arrays /\ EmptyArray.items = <<>>
    <2>1. <<>> \in Seq(Tokens)
      OBVIOUS
    <2> QED
      BY <2>1 DEF EmptyArray, Arrays
  <1>3. /\ tokens \in Seq(Arrays) /\ Len(tokens) = 1 /\ DOMAIN tokens = {1}
        /\ tokens[1] = EmptyArray
    BY <1>1, <1>2
  <1>4. /\ Len(program.texts) \in Nat \ {0} /\ program.failures \in Nat
        /\ program.texts[1] \in Seq(STRING)
    BY <1>1, ProgramTexts
  <1>5. Typed
    BY <1>1, <1>3, <1>4 DEF Typed
  <1>6. \A f \in DOMAIN tokens : DOMAIN tokens[f].items = {} /\ Len(tokens[f].items) = 0
    BY <1>2, <1>3
  <1>7. OnCursor
    <2>1. File = 1 /\ Text \in Seq(STRING)
      BY <1>3, <1>4 DEF File, Text
    <2>2. TextLen \in Nat
      BY <2>1 DEF TextLen
    <2>3. at = CursorAt(Text, 1) /\ at.cur = 1
      BY <1>1, StartOfText DEF Start
    <2>4. Before(tokens[File].items, Len(tokens[File].items) + 1) = 1
      BY <1>3, <1>6, <2>1 DEF Before
    <2>5. \A i \in DOMAIN tokens[File].items : FALSE
      BY <1>3, <1>6, <2>1
    <2> QED
      BY <2>2, <2>3, <2>4, <2>5 DEF OnCursor
  <1>8. AllGood
    BY <1>6 DEF AllGood, GoodIn
  <1>9. keywords = KeywordTable /\ identifiers = NewInterner /\ strings = NewInterner
    BY DEF Init
  <1>10. NamesKept
    BY <1>6, <1>9, NewConsistent DEF NamesKept, NamesIn
  <1>11. LiteralsKept
    BY <1>6, <1>9, NewConsistent DEF LiteralsKept, LiteralsIn
  <1> QED
    BY <1>5, <1>7, <1>8, <1>9, <1>10, <1>11 DEF LexInv

\* U is T with t pushed to its last array, and perhaps an empty array after that
Grown(T, U, t) ==
  /\ Len(U) \in {Len(T), Len(T) + 1} /\ U \in Seq(Arrays)
  /\ \A f \in 1..Len(T) - 1 : U[f] = T[f]
  /\ Len(U[Len(T)].items) = Len(T[Len(T)].items) + 1
  /\ U[Len(T)].items[Len(T[Len(T)].items) + 1] = t
  /\ \A i \in 1..Len(T[Len(T)].items) : U[Len(T)].items[i] = T[Len(T)].items[i]
  /\ Len(U) = Len(T) + 1 => U[Len(T) + 1].items = <<>>

\* What a push makes of the arrays.
LEMMA PushGrows ==
  ASSUME NEW T \in Seq(Arrays), Len(T) \in Nat \ {0}, NEW t \in Tokens,
         NEW A, A = Pushed(T[Len(T)], t), NEW W, W = [T EXCEPT ![Len(T)] = A],
         NEW U, U = W \/ U = W \o <<EmptyArray>>
  PROVE  Grown(T, U, t)
  <1>1. PICK F : F = Len(T)
    OBVIOUS
  <1>2. PICK B : B = T[F]
    OBVIOUS
  <1>3. F \in Nat \ {0} /\ F \in 1..Len(T) /\ B \in Arrays
    BY <1>1, <1>2
  <1>4. B.items \in Seq(Tokens) /\ B.capacity \in Nat
    BY <1>3 DEF Arrays
  <1>5. PICK S : S = Tokens
    OBVIOUS
  <1>6. B.items \in Seq(S) /\ B.capacity \in Nat /\ t \in S /\ A = Pushed(B, t)
    BY <1>1, <1>2, <1>4, <1>5
  <1>7. /\ A = [items |-> A.items, capacity |-> A.capacity]
        /\ IsAppended(A.items, B.items, t) /\ A.items \in Seq(S) /\ A.capacity \in Nat
    BY ONLY <1>6, PushedWorks
  <1>8. PICK b : b = B.items
    OBVIOUS
  <1>9. PICK a : a = A.items
    OBVIOUS
  <1>10. b \in Seq(S) /\ t \in S /\ IsAppended(a, b, t)
    BY <1>6, <1>7, <1>8, <1>9
  <1>11. Len(a) = Len(b) + 1 /\ a[Len(b) + 1] = t /\ \A i \in 1..Len(b) : a[i] = b[i]
    BY ONLY <1>10, AppendedWorks
  <1>12. A \in Arrays
    BY <1>5, <1>7 DEF Arrays
  <1>13. /\ W \in Seq(Arrays) /\ Len(W) = F /\ W[F] = A
         /\ \A f \in 1..F - 1 : W[f] = T[f]
    BY <1>1, <1>3, <1>12
  <1>14. CASE U = W
    <2>1. /\ Len(U) = F /\ U \in Seq(Arrays) /\ U[F] = A
          /\ \A f \in 1..F - 1 : U[f] = T[f]
      BY <1>13, <1>14
    <2>2. Len(U) # Len(T) + 1
      BY <1>1, <1>3, <2>1
    <2> QED
      BY <1>1, <1>2, <1>8, <1>9, <1>11, <2>1, <2>2 DEF Grown
  <1>15. CASE U = W \o <<EmptyArray>>
    <2>1. PICK e : e = EmptyArray
      OBVIOUS
    <2>2. e \in Arrays /\ e.items = <<>>
      <3>1. <<>> \in Seq(Tokens)
        OBVIOUS
      <3> QED
        BY <2>1, <3>1 DEF EmptyArray, Arrays
    <2>3. /\ Len(U) = F + 1 /\ U \in Seq(Arrays) /\ U[F + 1] = e
          /\ \A f \in 1..F : U[f] = W[f]
      BY <1>3, <1>13, <1>15, <2>1, <2>2
    <2>4. U[F] = A /\ \A f \in 1..F - 1 : U[f] = T[f]
      BY <1>3, <1>13, <2>3
    <2> QED
      BY <1>1, <1>2, <1>8, <1>9, <1>11, <2>2, <2>3, <2>4 DEF Grown
  <1> QED
    BY <1>14, <1>15

\* A token afterwards is one there was, where it was, or the new one.
LEMMA GrownTokens ==
  ASSUME NEW T \in Seq(Arrays), Len(T) \in Nat \ {0}, NEW t, NEW U, Grown(T, U, t),
         NEW f \in DOMAIN U, NEW i \in DOMAIN U[f].items
  PROVE  \/ /\ f \in DOMAIN T /\ i \in DOMAIN T[f].items /\ U[f].items[i] = T[f].items[i]
            /\ Before(U[f].items, i) = Before(T[f].items, i)
            /\ f # Len(T) => U[f] = T[f]
         \/ /\ f = Len(T) /\ i = Len(T[f].items) + 1 /\ U[f].items[i] = t /\ i = Len(U[f].items)
            /\ Before(U[f].items, i) = Before(T[f].items, i)
  <1>1. PICK F : F = Len(T)
    OBVIOUS
  <1>2. /\ F \in Nat \ {0} /\ DOMAIN T = 1..F /\ Len(U) \in {F, F + 1} /\ U \in Seq(Arrays)
        /\ \A g \in 1..F - 1 : U[g] = T[g]
    BY <1>1 DEF Grown
  <1>21. f \in 1..Len(U) /\ F \in 1..F /\ F \in 1..Len(U)
    BY <1>2
  <1>3. CASE f \in 1..F - 1
    <2>1. U[f] = T[f] /\ f \in DOMAIN T
      BY <1>2, <1>3
    <2> QED
      BY <2>1
  <1>4. CASE f = F
    <2>1. PICK b : b = T[F].items
      OBVIOUS
    <2>2. PICK a : a = U[F].items
      OBVIOUS
    <2>3. b \in Seq(Tokens) /\ a \in Seq(Tokens)
      <3>1. T[F] \in Arrays /\ U[F] \in Arrays
        BY <1>2, <1>21
      <3> QED
        BY <2>1, <2>2, <3>1 DEF Arrays
    <2>4. Len(a) = Len(b) + 1 /\ a[Len(b) + 1] = t /\ \A j \in 1..Len(b) : a[j] = b[j]
      BY <1>1, <2>1, <2>2 DEF Grown
    <2>5. i \in 1..Len(b) + 1
      BY <1>4, <2>2, <2>3, <2>4
    <2>6. Before(a, i) = Before(b, i)
      <3>1. i # 1 => i - 1 \in 1..Len(b)
        BY <2>3, <2>5
      <3> QED
        BY <2>4, <3>1 DEF Before
    <2>7. CASE i = Len(b) + 1
      BY <1>1, <1>4, <2>1, <2>2, <2>4, <2>6, <2>7
    <2>8. CASE i # Len(b) + 1
      <3>1. i \in 1..Len(b)
        BY <2>3, <2>5, <2>8
      <3>2. i \in DOMAIN b /\ a[i] = b[i]
        BY <2>3, <2>4, <3>1
      <3> QED
        BY <1>1, <1>2, <1>4, <1>21, <2>1, <2>2, <2>6, <3>2
    <2> QED
      BY <2>7, <2>8
  <1>5. CASE f = F + 1
    <2>1. Len(U) = F + 1
      BY <1>2, <1>5, <1>21
    <2>2. U[F + 1].items = <<>>
      BY <1>1, <2>1 DEF Grown
    <2>3. i \in {}
      BY <1>5, <2>2
    <2> QED
      BY <2>3
  <1>6. f \in 1..F - 1 \/ f = F \/ f = F + 1
    BY <1>2, <1>21
  <1> QED
    BY <1>3, <1>4, <1>5, <1>6

\* What is good stays good when memory has been lacking.
LEMMA GoodAfter ==
  ASSUME NEW text, NEW b, NEW t, NEW s1, NEW s2, GoodToken(text, b, t, s1), s1 => s2
  PROVE  GoodToken(text, b, t, s2)
  BY DEF GoodToken, Munched

\* The tokens afterwards are good when the new one is.
LEMMA GoodGrows ==
  ASSUME NEW T \in Seq(Arrays), Len(T) \in Nat \ {0}, NEW t, NEW U, Grown(T, U, t), NEW texts,
         NEW s1, NEW s2, s1 => s2, GoodIn(T, texts, s1),
         \A i \in DOMAIN T[Len(T)].items : T[Len(T)].items[i].type # "EOF",
         GoodToken(texts[Len(T)], Before(T[Len(T)].items, Len(T[Len(T)].items) + 1), t, s2)
  PROVE  GoodIn(U, texts, s2)
  <1> SUFFICES ASSUME NEW f \in DOMAIN U, NEW i \in DOMAIN U[f].items
               PROVE  /\ GoodToken(texts[f], Before(U[f].items, i), U[f].items[i], s2)
                      /\ U[f].items[i].type = "EOF" => i = Len(U[f].items)
    BY DEF GoodIn
  <1>1. CASE /\ f = Len(T) /\ i = Len(T[f].items) + 1 /\ U[f].items[i] = t /\ i = Len(U[f].items)
             /\ Before(U[f].items, i) = Before(T[f].items, i)
    BY <1>1
  <1>2. CASE /\ f \in DOMAIN T /\ i \in DOMAIN T[f].items /\ U[f].items[i] = T[f].items[i]
             /\ Before(U[f].items, i) = Before(T[f].items, i)
             /\ f # Len(T) => U[f] = T[f]
    <2>1. /\ GoodToken(texts[f], Before(T[f].items, i), T[f].items[i], s1)
          /\ T[f].items[i].type = "EOF" => i = Len(T[f].items)
      BY <1>2 DEF GoodIn
    <2>2. GoodToken(texts[f], Before(T[f].items, i), T[f].items[i], s2)
      BY <2>1, GoodAfter
    <2> QED
      BY <1>2, <2>1, <2>2
  <1> QED
    BY ONLY T \in Seq(Arrays), Len(T) \in Nat \ {0}, Grown(T, U, t), f \in DOMAIN U, i \in DOMAIN U[f].items,
            <1>1, <1>2, GrownTokens

\* The same for the records of names.
LEMMA NamesGrow ==
  ASSUME NEW T \in Seq(Arrays), Len(T) \in Nat \ {0}, NEW t, NEW U, Grown(T, U, t), NEW texts,
         NEW G, NEW D, G \subseteq D, NamesIn(T, texts, G),
         Kept(D, t, "IDENTIFIER", SubSeq(texts[Len(T)], t.start, t.end - 1))
  PROVE  NamesIn(U, texts, D)
  <1> SUFFICES ASSUME NEW f \in DOMAIN U, NEW i \in DOMAIN U[f].items, NEW u, u = U[f].items[i]
               PROVE  Kept(D, u, "IDENTIFIER", SubSeq(texts[f], u.start, u.end - 1))
    BY DEF NamesIn
  <1>1. CASE f = Len(T) /\ u = t
    BY <1>1
  <1>2. CASE f \in DOMAIN T /\ i \in DOMAIN T[f].items /\ u = T[f].items[i]
    <2>1. Kept(G, u, "IDENTIFIER", SubSeq(texts[f], u.start, u.end - 1))
      BY <1>2 DEF NamesIn
    <2> QED
      BY <2>1 DEF Kept
  <1>3. \/ f \in DOMAIN T /\ i \in DOMAIN T[f].items /\ u = T[f].items[i]
        \/ f = Len(T) /\ u = t
    BY ONLY T \in Seq(Arrays), Len(T) \in Nat \ {0}, Grown(T, U, t), f \in DOMAIN U, i \in DOMAIN U[f].items,
            u = U[f].items[i], GrownTokens
  <1> QED
    BY <1>1, <1>2, <1>3

\* And of string literals.
LEMMA LiteralsGrow ==
  ASSUME NEW T \in Seq(Arrays), Len(T) \in Nat \ {0}, NEW t, NEW U, Grown(T, U, t), NEW texts,
         NEW G, NEW D, G \subseteq D, LiteralsIn(T, texts, G),
         Kept(D, t, "STRING_LIT", Content(SubSeq(texts[Len(T)], t.start, t.end - 1)))
  PROVE  LiteralsIn(U, texts, D)
  <1> SUFFICES ASSUME NEW f \in DOMAIN U, NEW i \in DOMAIN U[f].items, NEW u, u = U[f].items[i]
               PROVE  Kept(D, u, "STRING_LIT", Content(SubSeq(texts[f], u.start, u.end - 1)))
    BY DEF LiteralsIn
  <1>1. CASE f = Len(T) /\ u = t
    BY <1>1
  <1>2. CASE f \in DOMAIN T /\ i \in DOMAIN T[f].items /\ u = T[f].items[i]
    <2>1. Kept(G, u, "STRING_LIT", Content(SubSeq(texts[f], u.start, u.end - 1)))
      BY <1>2 DEF LiteralsIn
    <2> QED
      BY <2>1 DEF Kept
  <1>3. \/ f \in DOMAIN T /\ i \in DOMAIN T[f].items /\ u = T[f].items[i]
        \/ f = Len(T) /\ u = t
    BY ONLY T \in Seq(Arrays), Len(T) \in Nat \ {0}, Grown(T, U, t), f \in DOMAIN U, i \in DOMAIN U[f].items,
            u = U[f].items[i], GrownTokens
  <1> QED
    BY <1>1, <1>2, <1>3

\* What lex returns has one of the types; a word has a character.
LEMMA LexTyped ==
  ASSUME Text \in Seq(STRING), NEW q \in 1..TextLen + 1, NEW x, x = Lex(q)
  PROVE  /\ x.type \in Kinds \cup {"UNKNOWN", "EOF"} /\ x.end \in q..TextLen + 1
         /\ SubSeq(Text, q, x.end - 1) \in Seq(STRING)
         /\ x.type = "WORD" => SubSeq(Text, q, x.end - 1) # <<>>
  <1>1. TextLen = Len(Text) /\ TextLen \in Nat
    BY DEF TextLen
  <1>2. /\ x.type \in Kinds \cup {"UNKNOWN", "EOF"} /\ x.end \in q..TextLen + 1
        /\ x.type = "WORD" => SubSeq(Text, q, x.end - 1) # <<>>
    <2>1. CASE q > TextLen
      <3>1. x.type = "EOF" /\ x.end = q
        BY <2>1 DEF Lex, Lexeme
      <3> QED
        BY <1>1, <3>1
    <2>2. CASE q <= TextLen
      <3>1. q \in 1..TextLen
        BY <1>1, <2>2
      <3>2. Longest(q, x)
        BY <3>1, LexLongest
      <3>3. PICK e : e = x.end - 1
        OBVIOUS
      <3>4. x.end \in q..TextLen + 1 /\ e \in q..TextLen
        BY <1>1, <3>1, <3>2, <3>3 DEF Longest
      <3>5. Part(q, e) # <<>>
        BY <3>1, <3>4, PartWorks
      <3>6. x.type \in Kinds \cup {"UNKNOWN", "EOF"}
        BY <3>2 DEF Longest
      <3> QED
        BY <3>3, <3>4, <3>5, <3>6 DEF Part
    <2> QED
      BY <1>1, <2>1, <2>2
  <1>3. SubSeq(Text, q, x.end - 1) \in Seq(STRING)
    <2>1. q \in 1..Len(Text) + 1 /\ x.end \in q..Len(Text) + 1
      BY <1>1, <1>2
    <2> QED
      BY <2>1, PartOfText
  <1> QED
    BY <1>2, <1>3

\* What a turn makes of the state.
LEMMA TurnFacts ==
  ASSUME LexInv, NEW lacking \in SUBSET Sites, NextToken(lacking)
  PROVE  \E from, x, r, token :
           /\ from = CursorAt(Text, from.cur) /\ from.cur \in at.cur..TextLen + 1
           /\ x = Lex(from.cur) /\ x.end \in from.cur..TextLen + 1
           /\ r = RecordOf(x.type, SubSeq(Text, from.cur, x.end - 1), lacking)
           /\ token = [type |-> r.type, start |-> from.cur, end |-> x.end, from |-> Position(Text, from.cur),
                       to |-> Position(Text, x.end), record |-> r.record]
           /\ identifiers' = r.identifiers /\ strings' = r.strings
           /\ GoodToken(Text, at.cur, token, lacking # {}) /\ token \in Tokens
           /\ \/ phase' = "failed" /\ tokens' = tokens
              \/ /\ File < Len(program.texts) /\ phase' = "lexing" /\ at' = Start
                 /\ tokens' = [tokens EXCEPT ![File] = Pushed(tokens[File], token)] \o <<EmptyArray>>
              \/ /\ tokens' = [tokens EXCEPT ![File] = Pushed(tokens[File], token)]
                 /\ phase' = "lexing" => token.type # "EOF"
                 /\ at' = CursorAt(Text, x.end)
  <1>1. /\ program \in Programs /\ File \in 1..Len(program.texts) /\ Len(program.texts) \in Nat
        /\ Text \in Seq(STRING) /\ TextLen \in Nat
    <2>1. program \in Programs /\ File \in 1..Len(program.texts)
      BY DEF LexInv, Typed, File
    <2>2. Len(program.texts) \in Nat /\ Text \in Seq(STRING)
      BY <2>1, ProgramTexts DEF Text
    <2> QED
      BY <2>1, <2>2 DEF TextLen
  <1>2. phase = "lexing"
    BY DEF NextToken
  <1>3. at = CursorAt(Text, at.cur) /\ at.cur \in 1..TextLen + 1
    BY <1>2 DEF LexInv, OnCursor
  <1>40. PICK from, x, to, r :
           /\ from = AdvanceTo(at, SkipWhitespace[at.cur]) /\ x = Lex(from.cur)
           /\ to = AdvanceTo(from, x.end)
           /\ r = RecordOf(x.type, SubSeq(Text, from.cur, x.end - 1), lacking)
           /\ identifiers' = r.identifiers /\ strings' = r.strings
           /\ PushToken(TokenBetween(from, to, r), to, lacking)
    BY ZenonT(30) DEF NextToken
  <1>41. PICK token : token = TokenBetween(from, to, r)
    OBVIOUS
  <1>4. /\ from = AdvanceTo(at, SkipWhitespace[at.cur]) /\ x = Lex(from.cur)
        /\ r = RecordOf(x.type, SubSeq(Text, from.cur, x.end - 1), lacking)
        /\ to = AdvanceTo(from, x.end)
        /\ token = [type |-> r.type, start |-> from.cur, end |-> to.cur, from |-> <<from.line, from.col>>,
                    to |-> <<to.line, to.col>>, record |-> r.record]
        /\ identifiers' = r.identifiers /\ strings' = r.strings
        /\ PushToken(token, to, lacking)
    BY <1>40, <1>41 DEF TokenBetween
  <1>5. PICK b : b = at.cur
    OBVIOUS
  <1>6. PICK q : q = SkipWhitespace[b]
    OBVIOUS
  <1>7. b \in 1..TextLen + 1 /\ q \in b..TextLen + 1 /\ q \in 1..TextLen + 1
    <2>1. b \in 1..TextLen + 1
      BY <1>3, <1>5
    <2>2. q \in b..TextLen + 1
      BY <1>1, <1>6, <2>1, SkipWhitespaceWorks
    <2> QED
      BY <1>1, <2>1, <2>2
  <1>8. from = CursorAt(Text, q)
    <2>1. AdvanceTo(CursorAt(Text, b), q) = CursorAt(Text, q)
      BY <1>1, <1>7, AdvanceFar
    <2> QED
      BY <1>3, <1>4, <1>5, <1>6, <2>1
  <1>9. from.cur = q /\ from = CursorAt(Text, from.cur) /\ <<from.line, from.col>> = Position(Text, q)
    <2>1. from.cur = q /\ from.line = Position(Text, q)[1] /\ from.col = Position(Text, q)[2]
      BY <1>8 DEF CursorAt
    <2> QED
      BY <1>8, <2>1 DEF Position
  <1>10. x = Lex(q)
    BY <1>4, <1>9
  <1>11. PICK s : s = SubSeq(Text, q, x.end - 1)
    OBVIOUS
  <1>12. /\ x.type \in Kinds \cup {"UNKNOWN", "EOF"} /\ x.end \in q..TextLen + 1
         /\ s \in Seq(STRING)
         /\ x.type = "WORD" => s # <<>>
    BY <1>1, <1>7, <1>10, <1>11, LexTyped
  <1>13. to = CursorAt(Text, x.end)
    BY <1>1, <1>4, <1>7, <1>8, <1>12, AdvanceFar
  <1>14. to.cur = x.end /\ <<to.line, to.col>> = Position(Text, x.end)
    <2>1. to.cur = x.end /\ to.line = Position(Text, x.end)[1] /\ to.col = Position(Text, x.end)[2]
      BY <1>13 DEF CursorAt
    <2> QED
      BY <2>1 DEF Position
  <1>15. token = [type |-> r.type, start |-> q, end |-> x.end, from |-> Position(Text, q),
                  to |-> Position(Text, x.end), record |-> r.record]
    BY <1>4, <1>9, <1>14
  <1>16. r = RecordOf(x.type, s, lacking)
    BY <1>4, <1>9, <1>11
  <1>17. TypeFollows(x.type, s, r.type, lacking # {}) /\ r.record \in Records \cup {NULL}
    <2>1. keywords = KeywordTable
      BY DEF LexInv
    <2>2. PICK G, H : Consistent(identifiers, G) /\ Consistent(strings, H)
      BY DEF LexInv, NamesKept, LiteralsKept
    <2>3. PICK y : y = x.type
      OBVIOUS
    <2>4. y \in Kinds \cup {"UNKNOWN", "EOF"} /\ (y = "WORD" => s # <<>>) /\ r = RecordOf(y, s, lacking)
      BY <1>12, <1>16, <2>3
    <2>40. s \in Seq(STRING)
      BY <1>12
    <2>5. TypeFollows(y, s, r.type, lacking # {}) /\ r.record \in Records \cup {NULL}
      BY ONLY <2>1, <2>2, <2>4, <2>40, RecordFollows
    <2> QED
      BY <2>3, <2>5
  <1>18. GoodToken(Text, b, token, lacking # {})
    <2>1. /\ token.type = r.type /\ token.start = q /\ token.end = x.end
          /\ token.from = Position(Text, q) /\ token.to = Position(Text, x.end)
      BY <1>15
    <2>2. TypeFollows(x.type, SubSeq(Text, q, x.end - 1), token.type, lacking # {})
      BY <1>11, <1>17, <2>1
    <2> QED
      BY <1>1, <1>6, <1>7, <1>10, <2>1, <2>2, TokenGood
  <1>19. token \in Tokens
    <2>1. r.type \in TokenTypes
      BY <1>12, <1>17, KeywordRows DEF TypeFollows, TokenTypes, OtherTypes
    <2>2. q \in Nat /\ x.end \in Nat
      BY <1>1, <1>7, <1>12
    <2>3. Position(Text, q) \in Nat \X Int /\ Position(Text, x.end) \in Nat \X Int
      BY <2>2, PositionType
    <2> QED
      BY <1>15, <1>17, <2>1, <2>2, <2>3 DEF Tokens
  <1>20. \/ phase' = "failed" /\ tokens' = tokens
         \/ /\ File < Len(program.texts) /\ phase' = "lexing" /\ at' = Start
            /\ tokens' = [tokens EXCEPT ![File] = Pushed(tokens[File], token)] \o <<EmptyArray>>
         \/ /\ tokens' = [tokens EXCEPT ![File] = Pushed(tokens[File], token)]
            /\ phase' = "lexing" => token.type # "EOF"
            /\ at' = CursorAt(Text, x.end)
    <2>1. [tokens EXCEPT ![File] = Pushed(@, token)] = [tokens EXCEPT ![File] = Pushed(tokens[File], token)]
      OBVIOUS
    <2> QED
      BY <1>2, <1>4, <1>13, <2>1 DEF PushToken
  <1>21. from.cur \in at.cur..TextLen + 1 /\ x.end \in from.cur..TextLen + 1
    BY <1>5, <1>7, <1>9, <1>12
  <1>22. /\ x = Lex(from.cur) /\ r = RecordOf(x.type, SubSeq(Text, from.cur, x.end - 1), lacking)
         /\ identifiers' = r.identifiers /\ strings' = r.strings
    BY <1>4
  <1>23. token = [type |-> r.type, start |-> from.cur, end |-> x.end, from |-> Position(Text, from.cur),
                  to |-> Position(Text, x.end), record |-> r.record]
    BY <1>9, <1>15
  <1>24. GoodToken(Text, at.cur, token, lacking # {})
    BY <1>5, <1>18
  <1> QED
    BY <1>9, <1>19, <1>20, <1>21, <1>22, <1>23, <1>24

\* How often memory may still be lacking.
LEMMA FailuresCount ==
  ASSUME NEW lacking \in SUBSET Sites, NEW m \in Nat, NEW n \in 0..m, Cardinality(lacking) <= n
  PROVE  /\ n - Cardinality(lacking) \in 0..m
         /\ n < m \/ lacking # {} => n - Cardinality(lacking) < m
  <1>1. IsFiniteSet(Sites)
    <2>1. IsFiniteSet({"record"})
      BY FS_Singleton
    <2>2. IsFiniteSet({"record"} \cup {"table"})
      BY <2>1, FS_AddElement
    <2>3. IsFiniteSet(({"record"} \cup {"table"}) \cup {"array"})
      BY <2>2, FS_AddElement
    <2>4. IsFiniteSet((({"record"} \cup {"table"}) \cup {"array"}) \cup {"tokens"})
      BY <2>3, FS_AddElement
    <2>5. (({"record"} \cup {"table"}) \cup {"array"}) \cup {"tokens"} = Sites
      BY DEF Sites
    <2> QED
      BY <2>4, <2>5
  <1>2. IsFiniteSet(lacking)
    BY <1>1, FS_Subset
  <1>3. PICK k : k = Cardinality(lacking)
    OBVIOUS
  <1>4. k \in Nat /\ (k = 0 <=> lacking = {})
    BY <1>2, <1>3, FS_CardinalityType, FS_EmptySet
  <1>5. k <= n
    BY <1>3
  <1>6. n - k \in 0..m
    BY <1>4, <1>5
  <1>7. n < m \/ lacking # {} => n - k < m
    BY <1>4, <1>5
  <1> QED
    BY <1>3, <1>6, <1>7

\* The invariant holds after a turn.
LEMMA LexTurn ==
  ASSUME LexInv, NEW lacking \in SUBSET Sites, Cardinality(lacking) <= failures, NextToken(lacking)
  PROVE  LexInv'
  <1>1. /\ program \in Programs /\ File \in 1..Len(program.texts) /\ Len(program.texts) \in Nat
        /\ program.failures \in Nat /\ failures \in 0..program.failures
        /\ tokens \in Seq(Arrays) /\ Len(tokens) \in 1..Len(program.texts)
        /\ Text \in Seq(STRING) /\ TextLen \in Nat /\ TextLen = Len(Text)
    <2>1. /\ program \in Programs /\ File \in 1..Len(program.texts) /\ failures \in 0..program.failures
          /\ tokens \in Seq(Arrays) /\ Len(tokens) \in 1..Len(program.texts)
      BY DEF LexInv, Typed, File
    <2>2. Len(program.texts) \in Nat /\ Text \in Seq(STRING) /\ program.failures \in Nat
      BY <2>1, ProgramTexts DEF Text
    <2> QED
      BY <2>1, <2>2 DEF TextLen
  <1>2. PICK from, x, r, token :
           /\ from = CursorAt(Text, from.cur) /\ from.cur \in at.cur..TextLen + 1
           /\ x = Lex(from.cur) /\ x.end \in from.cur..TextLen + 1
           /\ r = RecordOf(x.type, SubSeq(Text, from.cur, x.end - 1), lacking)
           /\ token = [type |-> r.type, start |-> from.cur, end |-> x.end, from |-> Position(Text, from.cur),
                       to |-> Position(Text, x.end), record |-> r.record]
           /\ identifiers' = r.identifiers /\ strings' = r.strings
           /\ GoodToken(Text, at.cur, token, lacking # {}) /\ token \in Tokens
           /\ \/ phase' = "failed" /\ tokens' = tokens
              \/ /\ File < Len(program.texts) /\ phase' = "lexing" /\ at' = Start
                 /\ tokens' = [tokens EXCEPT ![File] = Pushed(tokens[File], token)] \o <<EmptyArray>>
              \/ /\ tokens' = [tokens EXCEPT ![File] = Pushed(tokens[File], token)]
                 /\ phase' = "lexing" => token.type # "EOF"
                 /\ at' = CursorAt(Text, x.end)
    BY TurnFacts
  <1>3. /\ program' = program /\ keywords' = keywords /\ failures' = failures - Cardinality(lacking)
        /\ phase = "lexing"
    BY DEF NextToken
  <1>4. /\ failures' \in 0..program.failures
        /\ (failures < program.failures \/ lacking # {}) => failures' < program.failures
    BY <1>1, <1>3, FailuresCount
  <1>5. /\ at.cur \in 1..TextLen + 1
        /\ at.cur = Before(tokens[File].items, Len(tokens[File].items) + 1)
        /\ \A i \in DOMAIN tokens[File].items : tokens[File].items[i].type # "EOF"
    BY <1>3 DEF LexInv, OnCursor
  <1>6. PICK T : T = tokens
    OBVIOUS
  <1>7. PICK U : U = tokens'
    OBVIOUS
  <1>8. PICK texts : texts = program.texts
    OBVIOUS
  <1>9. /\ T \in Seq(Arrays) /\ Len(T) \in Nat \ {0} /\ Len(T) = File /\ Text = texts[Len(T)]
        /\ Len(texts) \in Nat /\ Len(T) \in 1..Len(texts)
    BY <1>1, <1>6, <1>8 DEF File, Text
  <1>10. phase' # "failed" \/ U # T => Grown(T, U, token)
    <2>1. PICK A : A = Pushed(T[Len(T)], token)
      OBVIOUS
    <2>2. PICK W : W = [T EXCEPT ![Len(T)] = A]
      OBVIOUS
    <2>3. phase' # "failed" \/ U # T => (U = W \/ U = W \o <<EmptyArray>>)
      BY <1>2, <1>6, <1>7, <1>9, <2>1, <2>2
    <2>4. token \in Tokens
      BY <1>2
    <2> QED
      BY ONLY <1>9, <2>1, <2>2, <2>3, <2>4, PushGrows
  <1>11. U = T \/ Grown(T, U, token)
    BY <1>10
  <1>12. Typed'
    <2>1. U \in Seq(Arrays) /\ Len(U) \in 1..Len(texts)
      <3>1. CASE U = T
        BY <1>9, <3>1
      <3>2. CASE U # T
        <4>1. U \in Seq(Arrays) /\ Len(U) \in {Len(T), Len(T) + 1}
          BY <1>10, <3>2 DEF Grown
        <4>2. Len(U) = Len(T) + 1 => Len(T) < Len(texts)
          <5>1. CASE File < Len(program.texts)
            BY <1>8, <1>9, <5>1
          <5>2. CASE U = [T EXCEPT ![File] = Pushed(T[File], token)]
            BY <1>9, <5>2
          <5> QED
            BY <1>2, <1>6, <1>7, <3>2, <5>1, <5>2
        <4> QED
          BY <1>9, <4>1, <4>2
      <3> QED
        BY <3>1, <3>2
    <2> QED
      BY <1>1, <1>3, <1>4, <1>7, <1>8, <2>1 DEF Typed
  <1>13. AllGood'
    <2>1. PICK s1 : s1 = (failures < program.failures)
      OBVIOUS
    <2>2. PICK s2 : s2 = (failures' < program.failures)
      OBVIOUS
    <2>3. s1 => s2
      BY <1>4, <2>1, <2>2
    <2>4. GoodIn(T, texts, s1)
      BY <1>6, <1>8, <2>1 DEF LexInv, AllGood
    <2>5. GoodIn(U, texts, s2)
      <3>1. CASE U = T
        BY <2>3, <2>4, <3>1, GoodAfter DEF GoodIn
      <3>2. CASE Grown(T, U, token)
        <4>1. \A i \in DOMAIN T[Len(T)].items : T[Len(T)].items[i].type # "EOF"
          BY <1>5, <1>6, <1>9
        <4>2. GoodToken(texts[Len(T)], at.cur, token, s2)
          <5>1. lacking # {} => s2
            BY <1>4, <2>2
          <5>2. GoodToken(texts[Len(T)], at.cur, token, lacking # {})
            BY <1>2, <1>9
          <5> QED
            BY <5>1, <5>2, GoodAfter
        <4>3. at.cur = Before(T[Len(T)].items, Len(T[Len(T)].items) + 1)
          BY <1>5, <1>6, <1>9
        <4>4. GoodToken(texts[Len(T)], Before(T[Len(T)].items, Len(T[Len(T)].items) + 1), token, s2)
          BY <4>2, <4>3
        <4> QED
          BY ONLY <1>9, <2>3, <2>4, <3>2, <4>1, <4>4, GoodGrows
      <3> QED
        BY <1>11, <3>1, <3>2
    <2>6. AllGood' <=> GoodIn(tokens', program'.texts, failures' < program'.failures)
      BY DEF AllGood
    <2> QED
      BY <1>3, <1>7, <1>8, <2>2, <2>5, <2>6
  <1>14. OnCursor'
    <2>1. SUFFICES ASSUME phase' = "lexing"
                   PROVE  LET F == Len(U) IN
                          /\ at'.cur \in 1..Len(texts[F]) + 1 /\ at' = CursorAt(texts[F], at'.cur)
                          /\ at'.cur = Before(U[F].items, Len(U[F].items) + 1)
                          /\ \A i \in DOMAIN U[F].items : U[F].items[i].type # "EOF"
      BY <1>3, <1>7, <1>8 DEF OnCursor, TextLen, Text, File
    <2>2. Grown(T, U, token)
      BY <1>10, <2>1
    <2>3. PICK t : t = T[Len(T)].items
      OBVIOUS
    <2>4. t \in Seq(Tokens) /\ \A i \in DOMAIN t : t[i].type # "EOF"
      <3>1. Len(T) \in 1..Len(T)
        BY <1>9
      <3>2. T[Len(T)] \in Arrays
        BY <1>9, <3>1
      <3> QED
        BY <1>5, <1>6, <1>9, <2>3, <3>2 DEF Arrays
    <2>5. CASE /\ File < Len(program.texts) /\ at' = Start
               /\ tokens' = [tokens EXCEPT ![File] = Pushed(tokens[File], token)] \o <<EmptyArray>>
      <3>1. Len(U) = Len(T) + 1
        BY <1>6, <1>7, <1>9, <2>5
      <3>2. Len(U) \in 1..Len(texts) /\ U[Len(U)].items = <<>>
        <4>1. U[Len(U)].items = <<>>
          BY <2>2, <3>1 DEF Grown
        <4> QED
          BY <1>8, <1>9, <2>5, <3>1, <4>1
      <3>3. texts[Len(U)] \in Seq(STRING)
        BY <1>1, <1>8, <3>2, ProgramTexts
      <3>4. at'.cur = 1 /\ at' = CursorAt(texts[Len(U)], 1)
        BY <2>5, StartOfText DEF Start
      <3>5. 1 \in 1..Len(texts[Len(U)]) + 1
        BY <3>3
      <3>6. Before(U[Len(U)].items, Len(U[Len(U)].items) + 1) = 1 /\ DOMAIN U[Len(U)].items = {}
        BY <3>2 DEF Before
      <3> QED
        BY <3>4, <3>5, <3>6
    <2>6. CASE /\ tokens' = [tokens EXCEPT ![File] = Pushed(tokens[File], token)]
               /\ phase' = "lexing" => token.type # "EOF"
               /\ at' = CursorAt(Text, x.end)
      <3>1. Len(U) = Len(T)
        BY <1>6, <1>7, <1>9, <2>6
      <3>2. PICK u : u = U[Len(T)].items
        OBVIOUS
      <3>3. u \in Seq(Tokens)
        <4>1. U \in Seq(Arrays) /\ Len(T) \in 1..Len(U)
          BY <1>9, <2>2, <3>1 DEF Grown
        <4>2. U[Len(T)] \in Arrays
          BY <4>1
        <4> QED
          BY <3>2, <4>2 DEF Arrays
      <3>4. Len(u) = Len(t) + 1 /\ u[Len(t) + 1] = token /\ \A i \in 1..Len(t) : u[i] = t[i]
        BY <2>2, <2>3, <3>2 DEF Grown
      <3>5. \A i \in DOMAIN u : u[i].type # "EOF"
        <4>1. TAKE i \in DOMAIN u
        <4>2. i \in 1..Len(t) \/ i = Len(t) + 1
          BY <2>4, <3>3, <3>4
        <4> QED
          BY <2>1, <2>4, <2>6, <3>4, <4>2
      <3>6. Before(u, Len(u) + 1) = token.end
        BY <2>4, <3>4 DEF Before
      <3>7. token.end = x.end
        BY <1>2
      <3>8. at'.cur = x.end
        BY <2>6 DEF CursorAt
      <3>9. x.end \in 1..Len(Text) + 1
        <4>1. from.cur \in at.cur..TextLen + 1 /\ x.end \in from.cur..TextLen + 1
          BY <1>2
        <4> QED
          BY <1>1, <1>5, <4>1
      <3> QED
        BY <1>9, <2>6, <3>1, <3>2, <3>5, <3>6, <3>7, <3>8, <3>9
    <2> QED
      BY <1>2, <2>1, <2>5, <2>6
  <1>15. PICK s : s = SubSeq(Text, from.cur, x.end - 1)
    OBVIOUS
  <1>16. /\ s \in Seq(STRING) /\ s = SubSeq(texts[Len(T)], token.start, token.end - 1)
         /\ x.type \in Kinds \cup {"UNKNOWN", "EOF"} /\ (x.type = "WORD" => s # <<>>)
    <2>1. PICK q : q = from.cur
      OBVIOUS
    <2>2. q \in 1..TextLen + 1 /\ x = Lex(q) /\ s = SubSeq(Text, q, x.end - 1)
      BY <1>1, <1>2, <1>5, <1>15, <2>1
    <2>3. /\ s \in Seq(STRING) /\ x.type \in Kinds \cup {"UNKNOWN", "EOF"}
          /\ x.type = "WORD" => s # <<>>
      BY <1>1, <2>2, LexTyped
    <2>4. token.start = q /\ token.end = x.end
      BY <1>2, <2>1
    <2> QED
      BY <1>9, <2>2, <2>3, <2>4
  <1>17. PICK y : y = x.type
    OBVIOUS
  <1>18. /\ s \in Seq(STRING) /\ y \in Kinds \cup {"UNKNOWN", "EOF"} /\ (y = "WORD" => s # <<>>)
         /\ r = RecordOf(y, s, lacking) /\ keywords = KeywordTable
    BY <1>2, <1>15, <1>16, <1>17 DEF LexInv
  <1>19. PICK G : Consistent(identifiers, G) /\ NamesIn(T, texts, G)
    BY <1>6, <1>8 DEF LexInv, NamesKept
  <1>20. PICK H : Consistent(strings, H) /\ LiteralsIn(T, texts, H)
    BY <1>6, <1>8 DEF LexInv, LiteralsKept
  <1>21. PICK D : /\ G \subseteq D /\ Consistent(r.identifiers, D)
                  /\ r.type = "IDENTIFIER" /\ r.record # NULL => r.record \in D /\ r.record.key = s
    BY ONLY <1>18, <1>19, <1>20, RecordFollows, SMTT(60)
  <1>22. PICK E : /\ H \subseteq E /\ Consistent(r.strings, E)
                  /\ r.type = "STRING_LIT" /\ r.record # NULL => r.record \in E /\ r.record.key = Content(s)
    BY ONLY <1>18, <1>19, <1>20, RecordFollows
  <1>23. token.type = r.type /\ token.record = r.record
    BY <1>2
  <1>24. NamesKept'
    <2>1. NamesIn(U, texts, D)
      <3>1. CASE U = T
        BY <1>19, <1>21, <3>1 DEF NamesIn, Kept
      <3>2. CASE Grown(T, U, token)
        <4>1. Kept(D, token, "IDENTIFIER", SubSeq(texts[Len(T)], token.start, token.end - 1))
          BY <1>16, <1>21, <1>23 DEF Kept
        <4> QED
          BY ONLY <1>9, <1>19, <1>21, <3>2, <4>1, NamesGrow
      <3> QED
        BY <1>11, <3>1, <3>2
    <2>2. Consistent(identifiers', D)
      BY <1>2, <1>21
    <2> QED
      BY <1>3, <1>7, <1>8, <2>1, <2>2 DEF NamesKept
  <1>25. LiteralsKept'
    <2>1. LiteralsIn(U, texts, E)
      <3>1. CASE U = T
        BY <1>20, <1>22, <3>1 DEF LiteralsIn, Kept
      <3>2. CASE Grown(T, U, token)
        <4>1. Kept(E, token, "STRING_LIT", Content(SubSeq(texts[Len(T)], token.start, token.end - 1)))
          BY <1>16, <1>22, <1>23 DEF Kept
        <4> QED
          BY ONLY <1>9, <1>20, <1>22, <3>2, <4>1, LiteralsGrow
      <3> QED
        BY <1>11, <3>1, <3>2
    <2>2. Consistent(strings', E)
      BY <1>2, <1>22
    <2> QED
      BY <1>3, <1>7, <1>8, <2>1, <2>2 DEF LiteralsKept
  <1>26. (keywords = KeywordTable)'
    <2>1. keywords' = KeywordTable
      BY <1>3, <1>18
    <2> QED
      BY <2>1 DEF KeywordTable
  <1> QED
    BY <1>12, <1>13, <1>14, <1>24, <1>25, <1>26 DEF LexInv

\* And after any step.
LEMMA LexStep ==
  ASSUME LexInv, [Next]_vars
  PROVE  LexInv'
  <1>1. CASE Next
    BY <1>1, LexTurn DEF Next
  <1>2. CASE UNCHANGED vars
    BY <1>2 DEF vars, LexInv, Typed, OnCursor, AllGood, NamesKept, LiteralsKept, Text, TextLen, File
  <1> QED
    BY <1>1, <1>2

-----------------------------------------------------------------------------
(* The properties.                                                         *)

\* What the invariant says of a token of an array.
LEMMA EachToken ==
  ASSUME LexInv, NEW f \in DOMAIN tokens, NEW i \in DOMAIN tokens[f].items, NEW t, t = tokens[f].items[i]
  PROVE  /\ GoodToken(TextOf(f), Before(tokens[f].items, i), t, failures < program.failures)
         /\ t.type = "EOF" => i = Len(tokens[f].items)
  BY DEF LexInv, AllGood, GoodIn, TextOf

LEMMA InvTiles ==
  ASSUME LexInv
  PROVE  TokensTile
  <1>1. ASSUME NEW f \in DOMAIN tokens, NEW i \in DOMAIN tokens[f].items
        PROVE  LET t == tokens[f].items[i]
                   before == Before(tokens[f].items, i)
                   gap == SubSeq(TextOf(f), before, t.start - 1)
               IN  /\ before <= t.start
                   /\ t.from = Position(TextOf(f), t.start) /\ t.to = Position(TextOf(f), t.end)
                   /\ IF t.type = "EOF"
                      THEN t.start = Len(TextOf(f)) + 1 /\ i = Len(tokens[f].items) /\ IsTail(gap)
                      ELSE t.start < t.end /\ IsBlank(gap)
    <2>1. PICK t, before, text : t = tokens[f].items[i] /\ before = Before(tokens[f].items, i) /\ text = TextOf(f)
      OBVIOUS
    <2>2. /\ GoodToken(text, before, t, failures < program.failures)
          /\ t.type = "EOF" => i = Len(tokens[f].items)
      BY <2>1, EachToken
    <2>3. t.start \in before..Len(text) + 1
      BY <2>2 DEF GoodToken
    <2>4. before <= t.start
      BY <2>3
    <2> QED
      BY <2>1, <2>2, <2>4 DEF GoodToken
  <1> QED
    BY <1>1 DEF TokensTile, Pushes, Before

LEMMA InvLongest ==
  ASSUME LexInv
  PROVE  LongestMatch
  <1>1. SUFFICES ASSUME NEW f \in DOMAIN tokens, NEW i \in DOMAIN tokens[f].items, NEW t, t = tokens[f].items[i],
                        NEW text, text = TextOf(f), t.type # "EOF"
                 PROVE  IF t.type = "UNKNOWN"
                        THEN \/ Lexemes(text, t.start) = {}
                             \/ IsWord(SubSeq(text, t.start, t.end - 1)) /\ failures < program.failures
                        ELSE /\ Is(KindOf(t), SubSeq(text, t.start, t.end - 1))
                             /\ t.end - 1 = Max(Lexemes(text, t.start))
    BY DEF LongestMatch, Pushes, Written, Lexemes
  <1>2. GoodToken(text, Before(tokens[f].items, i), t, failures < program.failures)
    BY <1>1, EachToken
  <1>3. Munched(text, t, failures < program.failures)
    BY <1>1, <1>2 DEF GoodToken
  <1> QED
    BY <1>3 DEF Munched

\* What is consistent tells two strings apart, and nothing more.
LEMMA OneEach ==
  ASSUME NEW I, NEW G, Consistent(I, G), NEW r \in G, NEW u \in G
  PROVE  /\ r.id = u.id => r.key = u.key
         /\ EveryStringKept(I) /\ r.key = u.key => r.id = u.id
         /\ EveryRecordPushed(I) => Result(I, r.index) = r
  <1>1. /\ r.id = u.id => r = u
        /\ EveryStringKept(I) => I.known[r.key] = r /\ I.known[u.key] = u
        /\ EveryRecordPushed(I) => r.index < Len(I.dense.items) /\ I.dense.items[r.index + 1] = r
    BY DEF Consistent
  <1>2. r.id = u.id => r.key = u.key
    BY <1>1
  <1>3. EveryStringKept(I) /\ r.key = u.key => r.id = u.id
    BY <1>1
  <1>4. EveryRecordPushed(I) => Result(I, r.index) = r
    BY <1>1 DEF Result
  <1> QED
    BY <1>2, <1>3, <1>4

LEMMA InvNames ==
  ASSUME LexInv
  PROVE  NamesAgree
  <1>1. \A x \in Places : /\ x[1] \in DOMAIN tokens /\ x[2] \in DOMAIN tokens[x[1]].items
                          /\ Token(x) = tokens[x[1]].items[x[2]]
                          /\ Spelling(x) = SubSeq(program.texts[x[1]], Token(x).start, Token(x).end - 1)
    BY DEF Places, Pushes, Token, Spelling, Written, TextOf
  <1>2. OneRecordEach(identifiers, "IDENTIFIER", [x \in Places |-> Spelling(x)])
    <2>1. PICK G : Consistent(identifiers, G) /\ NamesIn(tokens, program.texts, G)
      BY DEF LexInv, NamesKept
    <2>2. \A x \in Recorded("IDENTIFIER") :
             x \in Places /\ Token(x).record \in G /\ Token(x).record.key = Spelling(x)
      <3>1. TAKE x \in Recorded("IDENTIFIER")
      <3>2. x \in Places /\ Token(x).type = "IDENTIFIER" /\ Token(x).record # NULL
        BY DEF Recorded
      <3>3. Kept(G, Token(x), "IDENTIFIER", Spelling(x))
        BY <1>1, <2>1, <3>2 DEF NamesIn
      <3> QED
        BY <3>2, <3>3 DEF Kept
    <2>3. PICK I : I = identifiers
      OBVIOUS
    <2>4. SUFFICES ASSUME NEW x \in Recorded("IDENTIFIER"), NEW y \in Recorded("IDENTIFIER")
                   PROVE  /\ Token(x).record.id = Token(y).record.id => Spelling(x) = Spelling(y)
                          /\ EveryStringKept(I) /\ Spelling(x) = Spelling(y) =>
                               Token(x).record.id = Token(y).record.id
                          /\ EveryRecordPushed(I) => Result(I, Token(x).record.index) = Token(x).record
      BY <2>2, <2>3 DEF OneRecordEach
    <2>5. PICK r : r = Token(x).record
      OBVIOUS
    <2>6. PICK u : u = Token(y).record
      OBVIOUS
    <2>7. Consistent(I, G) /\ r \in G /\ u \in G /\ r.key = Spelling(x) /\ u.key = Spelling(y)
      BY <2>1, <2>2, <2>3, <2>5, <2>6
    <2>8. /\ r.id = u.id => r.key = u.key
          /\ EveryStringKept(I) /\ r.key = u.key => r.id = u.id
          /\ EveryRecordPushed(I) => Result(I, r.index) = r
      BY ONLY <2>7, OneEach
    <2> QED
      BY <2>5, <2>6, <2>7, <2>8
  <1>3. OneRecordEach(strings, "STRING_LIT", [x \in Places |-> Content(Spelling(x))])
    <2>1. PICK H : Consistent(strings, H) /\ LiteralsIn(tokens, program.texts, H)
      BY DEF LexInv, LiteralsKept
    <2>2. \A x \in Recorded("STRING_LIT") :
             x \in Places /\ Token(x).record \in H /\ Token(x).record.key = Content(Spelling(x))
      <3>1. TAKE x \in Recorded("STRING_LIT")
      <3>2. x \in Places /\ Token(x).type = "STRING_LIT" /\ Token(x).record # NULL
        BY DEF Recorded
      <3>3. Kept(H, Token(x), "STRING_LIT", Content(Spelling(x)))
        BY <1>1, <2>1, <3>2 DEF LiteralsIn
      <3> QED
        BY <3>2, <3>3 DEF Kept
    <2>3. PICK I : I = strings
      OBVIOUS
    <2>4. SUFFICES ASSUME NEW x \in Recorded("STRING_LIT"), NEW y \in Recorded("STRING_LIT")
                   PROVE  /\ Token(x).record.id = Token(y).record.id => Content(Spelling(x)) = Content(Spelling(y))
                          /\ EveryStringKept(I) /\ Content(Spelling(x)) = Content(Spelling(y)) =>
                               Token(x).record.id = Token(y).record.id
                          /\ EveryRecordPushed(I) => Result(I, Token(x).record.index) = Token(x).record
      BY <2>2, <2>3 DEF OneRecordEach
    <2>5. PICK r : r = Token(x).record
      OBVIOUS
    <2>6. PICK u : u = Token(y).record
      OBVIOUS
    <2>7. /\ Consistent(I, H) /\ r \in H /\ u \in H
          /\ r.key = Content(Spelling(x)) /\ u.key = Content(Spelling(y))
      BY <2>1, <2>2, <2>3, <2>5, <2>6
    <2>8. /\ r.id = u.id => r.key = u.key
          /\ EveryStringKept(I) /\ r.key = u.key => r.id = u.id
          /\ EveryRecordPushed(I) => Result(I, r.index) = r
      BY ONLY <2>7, OneEach
    <2> QED
      BY <2>5, <2>6, <2>7, <2>8
  <1>4. \A x \in Places : \A k \in DOMAIN Keywords :
          Spelling(x) = Keywords[k].word => Token(x).type = Keywords[k].type
    <2>1. TAKE x \in Places
    <2>2. PICK f, i, t : f = x[1] /\ i = x[2] /\ t = Token(x)
      OBVIOUS
    <2>3. f \in DOMAIN tokens /\ i \in DOMAIN tokens[f].items /\ t = tokens[f].items[i]
      BY <1>1, <2>2
    <2>4. GoodToken(TextOf(f), Before(tokens[f].items, i), t, failures < program.failures)
      BY <2>3, EachToken
    <2>5. Spelling(x) = SubSeq(TextOf(f), t.start, t.end - 1)
      BY <1>1, <2>2 DEF TextOf
    <2> QED
      BY <2>2, <2>4, <2>5 DEF GoodToken
  <1> QED
    BY <1>2, <1>3, <1>4 DEF NamesAgree

\* The invariant of the lexer (lexer_lex_all and its callees), in every state it reaches.
THEOREM LexerInvariant == Spec => []LexInv
  <1>1. Init => LexInv
    BY LexInit
  <1>2. LexInv /\ [Next]_vars => LexInv'
    BY LexStep
  <1> QED
    BY <1>1, <1>2, PTL DEF Spec

\* The tokens of every file, of any length and whatever memory is lacking for, follow each
\* other without a gap but blanks and comments, with the lines and columns of the text
\* (lexer_lex_all, skip_whitespace, lexer_advance).
THEOREM TokensTileAlways == Spec => []TokensTile
  <1>1. LexInv => TokensTile
    BY InvTiles
  <1> QED
    BY <1>1, LexerInvariant, PTL

\* Every token is the longest lexeme of the grammar that starts where it does, and of its
\* kind (lex_token and the functions it chooses between).
THEOREM LongestMatchAlways == Spec => []LongestMatch
  <1>1. LexInv => LongestMatch
    BY InvLongest
  <1> QED
    BY <1>1, LexerInvariant, PTL

\* A name is one record in the whole program and two names are never one, a literal is the
\* record of its text, and a keyword is a keyword (intern, lexer_add_keyword).
THEOREM NamesAgreeAlways == Spec => []NamesAgree
  <1>1. LexInv => NamesAgree
    BY InvNames
  <1> QED
    BY <1>1, LexerInvariant, PTL
=============================================================================
