--------------------------- MODULE HashMap_proofs ---------------------------
(***************************************************************************)
(* For every set of keys and values, every hash function and every initial *)
(* capacity: every stored key is found, the counters are exact, a put is   *)
(* refused only after memory was lacking, and the table implements the     *)
(* key-value store.                                                        *)
(***************************************************************************)
EXTENDS HashMap, LeastNumber, FiniteSetTheorems, TLAPS

-----------------------------------------------------------------------------
(* Paths of probes.                                                        *)

\* A key's home is a slot.
LEMMA HomeType ==
  ASSUME NEW k \in Keys, NEW n \in Nat \ {0}
  PROVE  Home(k, n) \in 0..n - 1
  BY HashAssumption DEF Home

\* Of two slots one comes first on the way round from h.
LEMMA PathOrder ==
  ASSUME NEW n \in Nat, NEW h \in 0..n - 1, NEW s \in 0..n - 1, NEW u \in 0..n - 1
  PROVE  s = u \/ s \in Path(h, u, n) \/ u \in Path(h, s, n)
  BY DEF Path

\* A path stays in the table, before its end, and holds the paths to its slots.
LEMMA PathFacts ==
  ASSUME NEW n \in Nat, NEW h \in 0..n - 1, NEW s \in 0..n - 1
  PROVE  /\ Path(h, s, n) \subseteq 0..n - 1
         /\ s \notin Path(h, s, n)
         /\ \A u \in Path(h, s, n) : Path(h, u, n) \subseteq Path(h, s, n)
  BY DEF Path

\* A probe from h comes to the slots of T in an order: one is the first.
LEMMA FirstOnPath ==
  ASSUME NEW n \in Nat, NEW h \in 0..n - 1, NEW T \in SUBSET (0..n - 1), T # {}
  PROVE  \E s \in T : \A x \in Path(h, s, n) : x \notin T
<1> DEFINE Far(s) == IF h <= s THEN s - h ELSE s - h + n
           D == {Far(s) : s \in T}
<1>1. \A s \in T : s \in Int /\ 0 <= s /\ s < n /\ Far(s) \in Nat
  OBVIOUS
<1>2. D \in SUBSET Nat /\ D # {}
  BY <1>1
<1>3. PICK d \in D : \A e \in D : d <= e
  BY <1>2, LeastNat
<1>4. PICK s \in T : d = Far(s)
  BY <1>3
<1>5. ASSUME NEW x \in Path(h, s, n), x \in T PROVE FALSE
  <2>1. Far(s) <= Far(x)
    BY <1>3, <1>4, <1>5
  <2>2. x \in 0..n - 1 /\ s \in 0..n - 1 /\ (IF h <= s THEN h <= x /\ x < s ELSE h <= x \/ x < s)
    BY <1>5 DEF Path
  <2> QED BY <2>1, <2>2
<1> QED BY <1>4, <1>5

-----------------------------------------------------------------------------
(* Tables.                                                                 *)

\* t is a table of n slots
Table(t, n) == n \in Nat \ {0} /\ t \in [0..n - 1 -> Slot]

\* only a live slot holds a value
Valued(t, n) ==
  \A s \in 0..n - 1 : IF t[s].key \in Keys THEN t[s].value \in Values ELSE t[s].value = NULL

With(t, s, k, v) == [t EXCEPT ![s] = [key |-> k, value |-> v]]

\* A key that is not stored may go into any slot that is not live, as long as the
\* probe for it does not stop before.
LEMMA InsertKeepsFindable ==
  ASSUME NEW t, NEW n, Table(t, n), Findable(t, n), Valued(t, n),
         NEW k \in Keys, NEW v \in Values, NEW s \in 0..n - 1,
         t[s].key \notin Keys,
         \A x \in Path(Home(k, n), s, n) : t[x].key # NULL,
         \A u \in LiveIn(t, n) : t[u].key # k
  PROVE  /\ Table(With(t, s, k, v), n)
         /\ Findable(With(t, s, k, v), n)
         /\ Valued(With(t, s, k, v), n)
         /\ LiveIn(With(t, s, k, v), n) = LiveIn(t, n) \cup {s}
         /\ s \notin LiveIn(t, n)
         /\ Pairs(With(t, s, k, v), LiveIn(With(t, s, k, v), n))
              = Pairs(t, LiveIn(t, n)) \cup {<<k, v>>}
<1> DEFINE w == With(t, s, k, v)
<1>1. /\ DOMAIN t = 0..n - 1 /\ DOMAIN w = 0..n - 1
      /\ w[s].key = k /\ w[s].value = v
      /\ \A x \in 0..n - 1 : x # s => w[x] = t[x]
  BY DEF Table, With
<1>2. Table(w, n)
  BY DEF Table, With, Slot
<1> HIDE DEF w
<1>3. LiveIn(w, n) = LiveIn(t, n) \cup {s} /\ s \notin LiveIn(t, n)
  BY <1>1 DEF LiveIn
<1>4. Valued(w, n)
  BY <1>1 DEF Valued
<1>5. \A x \in 0..n - 1 : t[x].key # NULL => w[x].key # NULL
  BY <1>1, MarksAssumption
<1>6. \A u \in LiveIn(w, n) : \A x \in Path(Home(w[u].key, n), u, n) : w[x].key # NULL
  <2>1. SUFFICES ASSUME NEW u \in LiveIn(w, n), NEW x \in Path(Home(w[u].key, n), u, n)
                 PROVE  w[x].key # NULL
    OBVIOUS
  <2>2. x \in 0..n - 1
    BY <2>1 DEF Path
  <2>3. CASE u = s
    BY <1>1, <1>5, <2>1, <2>2, <2>3
  <2>4. CASE u # s
    <3>1. u \in LiveIn(t, n) /\ w[u] = t[u]
      BY <1>1, <1>3, <2>4 DEF LiveIn
    <3> QED BY <1>5, <2>1, <2>2, <3>1 DEF Findable
  <2> QED BY <2>3, <2>4
<1>7. \A u, x \in LiveIn(w, n) : w[u].key = w[x].key => u = x
  <2>1. \A u \in LiveIn(w, n) : u # s => u \in LiveIn(t, n) /\ w[u].key = t[u].key /\ w[u].key # k
    BY <1>1, <1>3 DEF LiveIn
  <2>2. \A u, x \in LiveIn(t, n) : t[u].key = t[x].key => u = x
    BY DEF Findable
  <2> QED BY <1>1, <2>1, <2>2
<1>8. Pairs(w, LiveIn(w, n)) = Pairs(t, LiveIn(t, n)) \cup {<<k, v>>}
  <2>1. \A u \in LiveIn(t, n) : w[u] = t[u]
    BY <1>1, <1>3 DEF LiveIn
  <2> QED BY <1>1, <1>3, <2>1 DEF Pairs
<1> QED BY <1>2, <1>3, <1>4, <1>6, <1>7, <1>8 DEF Findable, w

\* The probe for a stored key stops at its slot, and nowhere else.
LEMMA KeyStops ==
  ASSUME Table(entries, capacity), Findable(entries, capacity),
         NEW u \in LiveIn(entries, capacity)
  PROVE  /\ Stops(entries[u].key, u)
         /\ \A s \in Slots : Stops(entries[u].key, s) => s = u
<1> DEFINE k == entries[u].key
<1>0. k \in Keys /\ u \in 0..capacity - 1
  BY DEF LiveIn
<1>1. \A x \in Path(Home(k, capacity), u, capacity) : x \in 0..capacity - 1 /\ x # u
  BY <1>0, HomeType, PathFacts DEF Table
<1>2. \A x \in Path(Home(k, capacity), u, capacity) : entries[x].key \notin {k, NULL}
  <2> SUFFICES ASSUME NEW x \in Path(Home(k, capacity), u, capacity)
               PROVE  entries[x].key # k /\ entries[x].key # NULL
    OBVIOUS
  <2>1. entries[x].key # NULL
    BY DEF Findable
  <2>2. entries[x].key = k => x \in LiveIn(entries, capacity)
    BY <1>0, <1>1 DEF LiveIn
  <2> QED BY <1>1, <2>1, <2>2 DEF Findable
<1>3. Stops(k, u)
  BY <1>0, <1>2 DEF Stops, Slots
<1>4. ASSUME NEW s \in Slots, Stops(k, s) PROVE s = u
  <2>1. s \in 0..capacity - 1 /\ entries[s].key \in {k, NULL}
        /\ \A x \in Path(Home(k, capacity), s, capacity) : entries[x].key \notin {k, NULL}
    BY <1>4 DEF Stops, Slots
  <2>2. s = u \/ s \in Path(Home(k, capacity), u, capacity) \/ u \in Path(Home(k, capacity), s, capacity)
    BY <1>0, <2>1, HomeType, PathOrder DEF Table
  <2> QED BY <1>2, <2>1, <2>2
<1> QED BY <1>3, <1>4

\* Where the probe stops at an unused slot, the key is not stored.
LEMMA StopsAtUnused ==
  ASSUME Table(entries, capacity), Findable(entries, capacity),
         NEW k \in Keys, NEW s, Stops(k, s), entries[s].key = NULL
  PROVE  \A u \in LiveIn(entries, capacity) : entries[u].key # k
<1> SUFFICES ASSUME NEW u \in LiveIn(entries, capacity), entries[u].key = k PROVE FALSE
  OBVIOUS
<1>1. s = u
  BY KeyStops DEF Stops
<1> QED BY <1>1, MarksAssumption

\* A probe stops somewhere if there is an unused slot.
LEMMA ProbeEnds ==
  ASSUME Table(entries, capacity), NEW k \in Keys,
         NEW u \in Slots, entries[u].key = NULL
  PROVE  \E s \in Slots : Stops(k, s)
<1> DEFINE T == {s \in 0..capacity - 1 : entries[s].key \in {k, NULL}}
<1>1. T \in SUBSET (0..capacity - 1) /\ T # {}
  BY DEF Slots
<1>2. Home(k, capacity) \in 0..capacity - 1 /\ capacity \in Nat
  BY HomeType DEF Table
<1>3. PICK s \in T : \A x \in Path(Home(k, capacity), s, capacity) : x \notin T
  BY <1>1, <1>2, FirstOnPath
<1>4. \A x \in Path(Home(k, capacity), s, capacity) : entries[x].key \notin {k, NULL}
  BY <1>3 DEF Path
<1> QED BY <1>3, <1>4 DEF Stops, Slots

-----------------------------------------------------------------------------
(* Counters.                                                               *)

DeadIn(t, n) == {s \in 0..n - 1 : t[s].key = TOMBSTONE}

\* The slots of a state are finitely many.
LEMMA SlotsFinite ==
  ASSUME NEW n \in Nat, NEW S \in SUBSET (0..n - 1)
  PROVE  IsFiniteSet(S) /\ Cardinality(S) \in Nat
<1>1. IsFiniteSet(0..n - 1)
  BY FS_Interval
<1> QED BY <1>1, FS_Subset, FS_CardinalityType

\* The counters, as cardinalities of sets of slots.
LEMMA CountersAsSets ==
  CountersExact <=> /\ size = Cardinality(LiveIn(entries, capacity))
                    /\ tombstones = Cardinality(DeadIn(entries, capacity))
  BY DEF CountersExact, LiveIn, DeadIn, Live, Slots

\* The contents of the table, as pairs of live slots.
LEMMA ContentsAsPairs == Contents = Pairs(entries, LiveIn(entries, capacity))
  BY DEF Contents, Pairs, LiveIn, Live, Slots

\* The part of the invariant that is about the table alone.
TableInv ==
  /\ Table(entries, capacity) /\ size \in Nat /\ tombstones \in Nat
  /\ Findable(entries, capacity)
  /\ Valued(entries, capacity)
  /\ CountersExact

\* A table without an unused slot is full.
LEMMA NoUnusedIsFull ==
  ASSUME TableInv, \A s \in Slots : entries[s].key # NULL
  PROVE  size + tombstones = capacity
<1> DEFINE A == LiveIn(entries, capacity)
           B == DeadIn(entries, capacity)
<1>1. capacity \in Nat \ {0} /\ A \in SUBSET (0..capacity - 1) /\ B \in SUBSET (0..capacity - 1)
  BY DEF TableInv, Table, LiveIn, DeadIn
<1>2. A \cup B = 0..capacity - 1
  BY DEF TableInv, Table, Slots, Slot, LiveIn, DeadIn
<1>3. A \cap B = {}
  BY MarksAssumption DEF LiveIn, DeadIn
<1>4. IsFiniteSet(A) /\ IsFiniteSet(B)
  BY <1>1, SlotsFinite
<1>5. Cardinality(A \cup B) = Cardinality(A) + Cardinality(B) - Cardinality(A \cap B)
  BY <1>4, FS_Union
<1>6. Cardinality(A \cap B) = 0
  BY <1>3, FS_EmptySet
<1>7. Cardinality(0..capacity - 1) = capacity
  BY <1>1, FS_Interval
<1>8. size = Cardinality(A) /\ tombstones = Cardinality(B) /\ size \in Nat /\ tombstones \in Nat
  BY CountersAsSets DEF TableInv
<1>9. Cardinality(A \cup B) = size + tombstones
  BY <1>5, <1>6, <1>8
<1>10. Cardinality(A \cup B) = capacity
  BY <1>2, <1>7
<1> QED BY <1>9, <1>10

-----------------------------------------------------------------------------
(* The calls on the table: what a put does, whichever action starts it.    *)

\* A pair goes into slot s, which was not live.
LEMMA InsertAt ==
  ASSUME TableInv, NEW k \in Keys, NEW v \in Values, NEW s \in Slots,
         entries[s].key \notin Keys,
         \A x \in Path(Home(k, capacity), s, capacity) : entries[x].key # NULL,
         \A u \in LiveIn(entries, capacity) : entries[u].key # k,
         entries' = With(entries, s, k, v),
         capacity' = capacity, size' = size + 1,
         tombstones' = IF entries[s].key = TOMBSTONE THEN tombstones - 1 ELSE tombstones,
         reply' = <<"put", k, TRUE>>
  PROVE  TableInv' /\ Store!StorePut(k, v)
<1>1. capacity \in Nat \ {0} /\ s \in 0..capacity - 1 /\ size \in Nat /\ tombstones \in Nat
  BY DEF TableInv, Table, Slots
<1>2. /\ Table(entries', capacity)
      /\ Findable(entries', capacity)
      /\ Valued(entries', capacity)
      /\ LiveIn(entries', capacity) = LiveIn(entries, capacity) \cup {s}
      /\ s \notin LiveIn(entries, capacity)
      /\ Pairs(entries', LiveIn(entries', capacity))
           = Pairs(entries, LiveIn(entries, capacity)) \cup {<<k, v>>}
  BY <1>1, InsertKeepsFindable DEF TableInv
<1>3. size' = Cardinality(LiveIn(entries', capacity))
  <2>1. size = Cardinality(LiveIn(entries, capacity))
    BY CountersAsSets DEF TableInv
  <2>2. IsFiniteSet(LiveIn(entries, capacity))
    BY <1>1, SlotsFinite DEF LiveIn
  <2> QED BY <1>2, <2>1, <2>2, FS_AddElement
<1>4. tombstones' = Cardinality(DeadIn(entries', capacity)) /\ tombstones' \in Nat
  <2>1. tombstones = Cardinality(DeadIn(entries, capacity))
    BY CountersAsSets DEF TableInv
  <2>2. IsFiniteSet(DeadIn(entries, capacity))
    BY <1>1, SlotsFinite DEF DeadIn
  <2>3. DeadIn(entries', capacity) = DeadIn(entries, capacity) \ {s}
    BY <1>1, MarksAssumption DEF DeadIn, With, TableInv, Table
  <2>4. entries[s].key = TOMBSTONE <=> s \in DeadIn(entries, capacity)
    BY <1>1 DEF DeadIn
  <2>5. Cardinality(DeadIn(entries, capacity) \ {s})
          = IF s \in DeadIn(entries, capacity) THEN tombstones - 1 ELSE tombstones
    BY <2>1, <2>2, FS_RemoveElement
  <2>6. Cardinality(DeadIn(entries', capacity)) \in Nat
    BY <1>1, SlotsFinite DEF DeadIn
  <2> QED BY <2>3, <2>4, <2>5, <2>6
<1>5. TableInv'
  <2>1. CountersExact'
    BY <1>3, <1>4 DEF CountersExact, LiveIn, DeadIn, Live, Slots
  <2> QED BY <1>1, <1>2, <1>4, <2>1 DEF TableInv
<1>6. Store!StorePut(k, v)
  <2>1. Contents' = Contents \cup {<<k, v>>}
    BY <1>2, ContentsAsPairs DEF Contents, Pairs, LiveIn, Live, Slots
  <2>2. Store!Keyed(k) = {}
    BY ContentsAsPairs DEF Store!Keyed, Pairs
  <2> QED BY <2>1, <2>2 DEF Store!StorePut
<1> QED BY <1>5, <1>6

\* A put of a new key keeps the table and adds the key to its contents.
LEMMA InsertNewStep ==
  ASSUME TableInv, NEW k \in Keys, NEW v \in Values, InsertNew(k, v)
  PROVE  TableInv' /\ Store!StorePut(k, v)
<1>1. PICK s \in Slots :
        /\ Stops(k, s) /\ entries[s].key = NULL
        /\ \/ /\ Deleted(k, s) = {}
              /\ entries' = With(entries, s, k, v)
              /\ UNCHANGED tombstones
           \/ \E t \in Slots :
                /\ FirstTombstone(k, s, t)
                /\ entries' = With(entries, t, k, v)
                /\ tombstones' = tombstones - 1
        /\ size' = size + 1
        /\ reply' = <<"put", k, TRUE>>
        /\ UNCHANGED capacity
  BY DEF InsertNew, With
<1>2. \A u \in LiveIn(entries, capacity) : entries[u].key # k
  BY <1>1, StopsAtUnused DEF TableInv
<1>3. \A x \in Path(Home(k, capacity), s, capacity) : entries[x].key # NULL
  BY <1>1 DEF Stops
<1>4. Home(k, capacity) \in 0..capacity - 1 /\ capacity \in Nat /\ s \in 0..capacity - 1
  BY HomeType DEF TableInv, Table, Slots
<1>5. CASE Deleted(k, s) = {} /\ entries' = With(entries, s, k, v) /\ UNCHANGED tombstones
  BY <1>1, <1>2, <1>3, <1>5, InsertAt, MarksAssumption
<1>6. CASE \E t \in Slots : /\ FirstTombstone(k, s, t)
                            /\ entries' = With(entries, t, k, v)
                            /\ tombstones' = tombstones - 1
  <2>1. PICK t \in Slots : /\ FirstTombstone(k, s, t)
                           /\ entries' = With(entries, t, k, v)
                           /\ tombstones' = tombstones - 1
    BY <1>6
  <2>2. t \in Path(Home(k, capacity), s, capacity) /\ entries[t].key = TOMBSTONE
    BY <2>1 DEF FirstTombstone
  <2>3. \A x \in Path(Home(k, capacity), t, capacity) : entries[x].key # NULL
    BY <1>3, <1>4, <2>2, PathFacts
  <2> QED BY <1>1, <1>2, <2>1, <2>2, <2>3, InsertAt, MarksAssumption
<1> QED BY <1>1, <1>5, <1>6

\* A put of a stored key changes its value and nothing else.
LEMMA InsertExistingStep ==
  ASSUME TableInv, NEW k \in Keys, NEW v \in Values, InsertExisting(k, v)
  PROVE  TableInv' /\ Store!StorePut(k, v)
<1>1. PICK s \in Slots :
        /\ Stops(k, s) /\ entries[s].key = k
        /\ entries' = [entries EXCEPT ![s].value = v]
        /\ reply' = <<"put", k, TRUE>>
        /\ UNCHANGED <<capacity, size, tombstones>>
  BY DEF InsertExisting
<1>2. /\ DOMAIN entries = 0..capacity - 1 /\ s \in 0..capacity - 1
      /\ \A x \in 0..capacity - 1 : entries'[x].key = entries[x].key
      /\ \A x \in 0..capacity - 1 : x # s => entries'[x] = entries[x]
      /\ entries'[s].value = v
      /\ Table(entries', capacity)
  BY <1>1 DEF TableInv, Table, Slots, Slot
<1>3. LiveIn(entries', capacity) = LiveIn(entries, capacity) /\ s \in LiveIn(entries, capacity)
  BY <1>1, <1>2 DEF LiveIn
<1>4. DeadIn(entries', capacity) = DeadIn(entries, capacity)
  BY <1>2 DEF DeadIn
<1>5. Findable(entries', capacity)
  <2>1. \A u \in LiveIn(entries, capacity) :
          u \in 0..capacity - 1 /\ Path(Home(entries[u].key, capacity), u, capacity) \subseteq 0..capacity - 1
    BY DEF LiveIn, Path
  <2> QED BY <1>2, <1>3, <2>1 DEF TableInv, Findable
<1>6. Valued(entries', capacity)
  BY <1>1, <1>2 DEF TableInv, Valued
<1>7. TableInv'
  <2>1. CountersExact'
    BY <1>1, <1>3, <1>4, CountersAsSets DEF TableInv, CountersExact, LiveIn, DeadIn, Live, Slots
  <2> QED BY <1>1, <1>2, <1>5, <1>6, <2>1 DEF TableInv
<1>8. Store!StorePut(k, v)
  <2>1. Contents' = Pairs(entries', LiveIn(entries, capacity))
    BY <1>1, <1>3 DEF Contents, Pairs, LiveIn, Live, Slots
  <2>2. \A u \in LiveIn(entries, capacity) : u # s => entries'[u] = entries[u] /\ entries[u].key # k
    BY <1>1, <1>2, <1>3 DEF TableInv, Findable, LiveIn
  <2>3. entries'[s].key = k /\ entries'[s].value = v
    BY <1>1, <1>2
  <2>4. Contents' = (Contents \ Store!Keyed(k)) \cup {<<k, v>>}
    BY <1>1, <1>3, <2>1, <2>2, <2>3, ContentsAsPairs DEF Pairs, Store!Keyed
  <2> QED BY <1>1, <2>4 DEF Store!StorePut
<1> QED BY <1>7, <1>8

\* A put that is refused changes nothing, and the table was full.
LEMMA InsertRefusedStep ==
  ASSUME TableInv, NEW k \in Keys, InsertRefused(k)
  PROVE  /\ TableInv' /\ Store!StoreRefuse(k)
         /\ size + tombstones = capacity
<1>1. \A s \in Slots : ~Stops(k, s)
  BY DEF InsertRefused
<1>2. \A u \in LiveIn(entries, capacity) : entries[u].key # k
  <2> SUFFICES ASSUME NEW u \in LiveIn(entries, capacity), entries[u].key = k PROVE FALSE
    OBVIOUS
  <2>1. Stops(k, u)
    BY KeyStops DEF TableInv
  <2> QED BY <1>1, <2>1 DEF Stops
<1>3. Store!StoreRefuse(k)
  <2>1. Store!Keyed(k) = {}
    BY <1>2, ContentsAsPairs DEF Store!Keyed, Pairs
  <2>2. Contents' = Contents
    BY DEF InsertRefused, table, Contents, Live, Slots
  <2> QED BY <2>1, <2>2 DEF InsertRefused, Store!StoreRefuse
<1>4. \A s \in Slots : entries[s].key # NULL
  BY <1>1, ProbeEnds DEF TableInv
<1>5. TableInv'
  BY DEF InsertRefused, table, TableInv, CountersExact, Live, Slots
<1> QED BY <1>3, <1>4, <1>5, NoUnusedIsFull

\* Every put that reaches the table.
LEMMA InsertStep ==
  ASSUME TableInv, NEW k \in Keys, NEW v \in Values, Insert(k, v)
  PROVE  /\ TableInv'
         /\ \/ Store!StorePut(k, v) /\ reply' = <<"put", k, TRUE>>
            \/ Store!StoreRefuse(k) /\ size + tombstones = capacity
  BY InsertNewStep, InsertExistingStep, InsertRefusedStep DEF Insert, Store!StorePut

-----------------------------------------------------------------------------
(* The inductive invariant.                                                *)

\* What is known while the entries are being moved: beside what KeysFindable says,
\* the new table has no deleted slots and as many entries as were moved.
Moving ==
  /\ Table(newEntries, capacity * 2)
  /\ Valued(newEntries, capacity * 2)
  /\ DeadIn(newEntries, capacity * 2) = {}
  /\ Cardinality(LiveIn(newEntries, capacity * 2))
       = Cardinality({s \in LiveIn(entries, capacity) : s < moved})

\* KeysFindable, CountersExact and RefusedOnlyWhenStarved are not inductive alone: a
\* growth needs the two tables to agree, and the put it was made for needs room.
IInv ==
  /\ KeysFindable
  /\ TableInv
  /\ RefusedOnlyWhenStarved
  /\ phase = "moving" => Moving
  /\ phase = "inserting" => size + tombstones < capacity

\* An empty table satisfies the invariant.
LEMMA InitInv == Init => IInv
<1> SUFFICES ASSUME Init PROVE IInv
  OBVIOUS
<1>1. /\ capacity \in Nat \ {0} /\ size = 0 /\ tombstones = 0 /\ phase = "idle"
      /\ entries \in [0..capacity - 1 -> Slot]
      /\ \A s \in 0..capacity - 1 : entries[s].key = NULL /\ entries[s].value = NULL
      /\ starved = FALSE /\ reply = NULL
  BY CapacityAssumption DEF Init, Blank, Unused, Slot
<1>2. LiveIn(entries, capacity) = {} /\ DeadIn(entries, capacity) = {}
  BY <1>1, MarksAssumption DEF LiveIn, DeadIn
<1>3. CountersExact
  BY <1>1, <1>2, CountersAsSets, FS_EmptySet
<1>4. Findable(entries, capacity) /\ Valued(entries, capacity) /\ Table(entries, capacity)
  BY <1>1, <1>2, MarksAssumption DEF Findable, Valued, Table
<1>5. KeysFindable
  BY <1>1, <1>4 DEF KeysFindable, TypeOK, Slots
<1>6. RefusedOnlyWhenStarved
  BY MarksAssumption DEF Init, RefusedOnlyWhenStarved
<1> QED BY <1>1, <1>3, <1>4, <1>5, <1>6 DEF IInv, TableInv

-----------------------------------------------------------------------------
(* The steps: each keeps the invariant, and is a call on the store or none. *)

StoreStep == [Store!StoreNext]_<<Contents, reply>>

\* What is left to show of a put once the table is dealt with.
LEMMA PutDone ==
  ASSUME IInv, NEW k \in Keys, NEW v \in Values, Insert(k, v),
         phase' = "idle", starved' \in BOOLEAN,
         size + tombstones = capacity => starved'
  PROVE  IInv' /\ StoreStep
<1>1. /\ TableInv'
      /\ \/ Store!StorePut(k, v) /\ reply' = <<"put", k, TRUE>>
         \/ Store!StoreRefuse(k) /\ size + tombstones = capacity
  BY InsertStep DEF IInv
<1>2. KeysFindable'
  BY <1>1 DEF KeysFindable, TypeOK, TableInv, Table, Slots
<1>3. RefusedOnlyWhenStarved'
  <2>1. CASE reply' = <<"put", k, TRUE>>
    BY <2>1 DEF RefusedOnlyWhenStarved
  <2>2. CASE size + tombstones = capacity
    BY <2>2 DEF RefusedOnlyWhenStarved
  <2> QED BY <1>1, <2>1, <2>2
<1>4. StoreStep
  BY <1>1 DEF StoreStep, Store!StoreNext
<1> QED BY <1>1, <1>2, <1>3, <1>4 DEF IInv

\* A table that is not crowded has an unused slot to spare.
LEMMA CrowdedBound ==
  ASSUME IInv, ~Crowded
  PROVE  size + tombstones # capacity
<1>1. capacity \in Nat \ {0} /\ size \in Nat /\ tombstones \in Nat
  BY DEF IInv, TableInv, Table
<1> QED BY <1>1 DEF Crowded

\* hashmap_put without a growth.
LEMMA PutWithRoomStep ==
  ASSUME IInv, NEW k \in Keys, NEW v \in Values, PutWithRoom(k, v)
  PROVE  IInv' /\ StoreStep
<1>1. starved' \in BOOLEAN
  BY DEF IInv, KeysFindable, TypeOK, PutWithRoom
<1> QED BY <1>1, PutDone, CrowdedBound DEF PutWithRoom, growing

\* hashmap_put after a growth that failed.
LEMMA PutWithoutMemoryStep ==
  ASSUME IInv, NEW k \in Keys, NEW v \in Values, PutWithoutMemory(k, v)
  PROVE  IInv' /\ StoreStep
  BY PutDone DEF PutWithoutMemory, growing

\* The put that asked for the growth, once it is over.
LEMMA InsertPendingStep ==
  ASSUME IInv, InsertPending
  PROVE  IInv' /\ StoreStep
<1>1. pending.key \in Keys /\ pending.value \in Values /\ starved' \in BOOLEAN
  BY DEF InsertPending, IInv, KeysFindable, TypeOK
<1>2. size + tombstones # capacity
  BY DEF InsertPending, IInv, TableInv, Table
<1> QED BY <1>1, <1>2, PutDone DEF InsertPending

\* A growth begins: the larger table is empty and nothing has been moved.
LEMMA PutGrowsStep ==
  ASSUME IInv, NEW k \in Keys, NEW v \in Values, PutGrows(k, v)
  PROVE  IInv' /\ StoreStep
<1>1. /\ capacity \in Nat \ {0} /\ entries \in [0..capacity - 1 -> Slot]
      /\ UNCHANGED table /\ reply' = reply /\ starved' = starved
      /\ phase' = "moving" /\ moved' = 0
      /\ pending' \in [key : Keys, value : Values]
      /\ newEntries' = [s \in 0..capacity * 2 - 1 |-> Unused]
  BY DEF PutGrows, IInv, TableInv, Table, Blank
<1> DEFINE n == capacity * 2
<1>2. n \in Nat \ {0} /\ newEntries' \in [0..n - 1 -> Slot]
      /\ \A s \in 0..n - 1 : newEntries'[s].key = NULL /\ newEntries'[s].value = NULL
  BY <1>1 DEF Slot, Unused
<1> HIDE DEF n
<1>3. LiveIn(newEntries', n) = {} /\ DeadIn(newEntries', n) = {}
  BY <1>2, MarksAssumption DEF LiveIn, DeadIn
<1>4. {s \in LiveIn(entries, capacity) : s < 0} = {}
  BY <1>1 DEF LiveIn
<1>5. Table(newEntries', n) /\ Valued(newEntries', n) /\ Findable(newEntries', n)
  BY <1>2, <1>3, MarksAssumption DEF Table, Valued, Findable
<1>6. n = (capacity * 2)' /\ LiveIn(entries', capacity') = LiveIn(entries, capacity)
  BY <1>1 DEF table, n
<1>7. TableInv'
  BY <1>1 DEF IInv, TableInv, table, CountersExact, Live, Slots
<1>8. KeysFindable'
  <2>1. TypeOK'
    BY <1>1, <1>2, <1>6, <1>7 DEF IInv, KeysFindable, TypeOK, TableInv, Table, Slots, table
  <2>2. Pairs(newEntries', LiveIn(newEntries', n)) = Pairs(entries', {s \in LiveIn(entries', capacity') : s < moved'})
    BY <1>1, <1>3, <1>4, <1>6 DEF Pairs
  <2>3. Findable(entries', capacity')
    BY <1>7 DEF TableInv
  <2> QED BY <1>5, <1>6, <2>1, <2>2, <2>3 DEF KeysFindable
<1>9. Moving'
  <2>1. Cardinality(LiveIn(newEntries', n)) = Cardinality({s \in LiveIn(entries', capacity') : s < moved'})
    BY <1>1, <1>3, <1>4, <1>6
  <2> QED BY <1>3, <1>5, <1>6, <2>1 DEF Moving
<1>10. RefusedOnlyWhenStarved'
  BY <1>1 DEF IInv, RefusedOnlyWhenStarved
<1>11. StoreStep
  BY <1>1 DEF StoreStep, table, Contents, Live, Slots
<1> QED BY <1>1, <1>7, <1>8, <1>9, <1>10, <1>11 DEF IInv

\* The table is left alone: what was known of it is still known.
LEMMA TableUnchanged ==
  ASSUME IInv, UNCHANGED table
  PROVE  /\ TableInv'
         /\ Findable(entries', capacity')
         /\ Contents' = Contents
  BY DEF IInv, TableInv, table, CountersExact, Contents, Live, Slots

\* One slot of the old table is moved, or skipped if it is not live.
LEMMA MoveEntryStep ==
  ASSUME IInv, MoveEntry
  PROVE  IInv' /\ StoreStep
<1> DEFINE n == capacity * 2
           Before == {s \in LiveIn(entries, capacity) : s < moved}
<1>1. /\ capacity \in Nat \ {0} /\ entries \in [0..capacity - 1 -> Slot]
      /\ UNCHANGED <<table, phase, pending, starved, reply>>
      /\ entries' = entries /\ capacity' = capacity
      /\ phase = "moving" /\ moved \in 0..capacity - 1 /\ moved' = moved + 1
      /\ n \in Nat \ {0}
  BY DEF MoveEntry, IInv, TableInv, Table, KeysFindable, TypeOK, table
<1>2. /\ Table(newEntries, n) /\ Valued(newEntries, n) /\ Findable(newEntries, n)
      /\ DeadIn(newEntries, n) = {}
      /\ Cardinality(LiveIn(newEntries, n)) = Cardinality(Before)
      /\ Pairs(newEntries, LiveIn(newEntries, n)) = Pairs(entries, Before)
  BY <1>1 DEF IInv, KeysFindable, Moving
<1>3. {s \in LiveIn(entries, capacity) : s < moved + 1}
        = IF entries[moved].key \in Keys THEN Before \cup {moved} ELSE Before
  BY <1>1 DEF LiveIn
<1>4. IsFiniteSet(Before) /\ moved \notin Before
  <2>1. Before \in SUBSET (0..capacity - 1) /\ moved \notin Before
    BY <1>1 DEF LiveIn
  <2> HIDE DEF Before
  <2> QED BY <1>1, <2>1, SlotsFinite
<1> HIDE DEF n, Before
<1>5. /\ Table(newEntries', n) /\ Valued(newEntries', n) /\ Findable(newEntries', n)
      /\ DeadIn(newEntries', n) = {}
      /\ Cardinality(LiveIn(newEntries', n)) = Cardinality({s \in LiveIn(entries, capacity) : s < moved + 1})
      /\ Pairs(newEntries', LiveIn(newEntries', n)) = Pairs(entries, {s \in LiveIn(entries, capacity) : s < moved + 1})
  <2>1. CASE entries[moved].key \in {NULL, TOMBSTONE}
    <3>1. newEntries' = newEntries /\ entries[moved].key \notin Keys
      BY <2>1, MarksAssumption DEF MoveEntry
    <3> QED BY <1>2, <1>3, <3>1
  <2>2. CASE entries[moved].key \notin {NULL, TOMBSTONE}
    <3> DEFINE k == entries[moved].key
               v == entries[moved].value
    <3>1. /\ k \in Keys /\ v \in Values /\ entries[moved] = [key |-> k, value |-> v]
          /\ moved \in LiveIn(entries, capacity)
      BY <1>1, <2>2 DEF Slot, IInv, TableInv, Valued, LiveIn
    <3>2. PICK s \in 0..n - 1 : FreeIn(k, s) /\ newEntries' = [newEntries EXCEPT ![s] = entries[moved]]
      BY <2>2 DEF MoveEntry, n
    <3>3. newEntries[s].key = NULL /\ \A x \in Path(Home(k, n), s, n) : newEntries[x].key # NULL
      BY <3>2 DEF FreeIn, n
    <3>4. \A u \in LiveIn(newEntries, n) : newEntries[u].key # k
      <4> SUFFICES ASSUME NEW u \in LiveIn(newEntries, n), newEntries[u].key = k PROVE FALSE
        OBVIOUS
      <4>1. <<newEntries[u].key, newEntries[u].value>> \in Pairs(entries, Before)
        BY <1>2 DEF Pairs
      <4>2. PICK x \in Before : entries[x].key = k
        BY <4>1 DEF Pairs
      <4>3. x \in LiveIn(entries, capacity) /\ x # moved
        BY <1>4 DEF Before
      <4> QED BY <3>1, <4>2, <4>3 DEF IInv, TableInv, Findable
    <3>5. newEntries' = With(newEntries, s, k, v)
      BY <3>1, <3>2 DEF With
    <3> HIDE DEF k, v
    <3>6. newEntries[s].key \notin Keys
      BY <3>3, MarksAssumption
    <3>7. /\ Table(newEntries', n) /\ Valued(newEntries', n) /\ Findable(newEntries', n)
          /\ LiveIn(newEntries', n) = LiveIn(newEntries, n) \cup {s}
          /\ s \notin LiveIn(newEntries, n)
          /\ Pairs(newEntries', LiveIn(newEntries', n)) = Pairs(newEntries, LiveIn(newEntries, n)) \cup {<<k, v>>}
      BY <1>2, <3>1, <3>3, <3>4, <3>5, <3>6, InsertKeepsFindable
    <3>8. DeadIn(newEntries', n) = {}
      BY <1>2, <3>1, <3>5, MarksAssumption DEF DeadIn, With, Table
    <3>9. Cardinality(LiveIn(newEntries', n)) = Cardinality(Before \cup {moved})
      <4>1. IsFiniteSet(LiveIn(newEntries, n))
        BY <1>1, SlotsFinite DEF LiveIn
      <4>2. Cardinality(LiveIn(newEntries', n)) = Cardinality(LiveIn(newEntries, n)) + 1
        BY <3>7, <4>1, FS_AddElement
      <4>3. Cardinality(Before \cup {moved}) = Cardinality(Before) + 1
        BY <1>4, FS_AddElement
      <4> QED BY <1>2, <4>2, <4>3
    <3>10. Pairs(entries, Before) \cup {<<k, v>>} = Pairs(entries, Before \cup {moved})
      BY DEF Pairs, k, v
    <3>11. entries[moved].key \in Keys
      BY <3>1 DEF k
    <3> QED BY <1>2, <1>3, <3>7, <3>8, <3>9, <3>10, <3>11
  <2> QED BY <2>1, <2>2
<1>6. (capacity * 2)' = n
  BY <1>1 DEF n
<1>7. TableInv' /\ Findable(entries', capacity') /\ Contents' = Contents
  BY <1>1, TableUnchanged
<1>8. KeysFindable'
  <2>1. TypeOK'
    <3>1. newEntries' \in [0..(capacity * 2)' - 1 -> Slot]
      BY <1>5, <1>6 DEF Table
    <3>2. moved' \in 0..capacity'
      BY <1>1
    <3> QED BY <1>1, <1>7, <3>1, <3>2 DEF IInv, KeysFindable, TypeOK, TableInv, Table, Slots
  <2> QED BY <1>1, <1>5, <1>6, <1>7, <2>1 DEF KeysFindable
<1>9. Moving'
  BY <1>1, <1>5, <1>6 DEF Moving
<1>10. RefusedOnlyWhenStarved'
  BY <1>1 DEF IInv, RefusedOnlyWhenStarved
<1>11. StoreStep
  BY <1>1, <1>7 DEF StoreStep
<1> QED BY <1>1, <1>7, <1>8, <1>9, <1>10, <1>11 DEF IInv

\* The larger table takes over with all that was stored.
LEMMA SwapTablesStep ==
  ASSUME IInv, SwapTables
  PROVE  IInv' /\ StoreStep
<1>1. /\ capacity \in Nat \ {0} /\ size \in Nat /\ phase = "moving" /\ moved = capacity
      /\ entries' = newEntries /\ capacity' = capacity * 2 /\ tombstones' = 0
      /\ phase' = "inserting" /\ UNCHANGED <<size, pending, starved, reply>>
  BY DEF SwapTables, IInv, TableInv, Table
<1>2. {s \in LiveIn(entries, capacity) : s < capacity} = LiveIn(entries, capacity)
  BY <1>1 DEF LiveIn
<1>3. /\ Table(entries', capacity') /\ Valued(entries', capacity') /\ Findable(entries', capacity')
      /\ DeadIn(entries', capacity') = {}
      /\ Cardinality(LiveIn(entries', capacity')) = Cardinality(LiveIn(entries, capacity))
      /\ Pairs(entries', LiveIn(entries', capacity')) = Pairs(entries, LiveIn(entries, capacity))
  BY <1>1, <1>2 DEF IInv, KeysFindable, Moving
<1>4. size = Cardinality(LiveIn(entries, capacity))
  BY CountersAsSets DEF IInv, TableInv
<1>5. TableInv'
  <2>1. CountersExact'
    BY <1>1, <1>3, <1>4, FS_EmptySet DEF CountersExact, LiveIn, DeadIn, Live, Slots
  <2> QED BY <1>1, <1>3, <2>1 DEF TableInv
<1>6. size' + tombstones' < capacity'
  <2>1. IsFiniteSet(0..capacity - 1) /\ Cardinality(0..capacity - 1) = capacity
    BY <1>1, FS_Interval
  <2>2. LiveIn(entries, capacity) \in SUBSET (0..capacity - 1)
    BY DEF LiveIn
  <2>3. size <= capacity
    BY <1>4, <2>1, <2>2, FS_Subset
  <2> QED BY <1>1, <2>3
<1>7. KeysFindable'
  BY <1>1, <1>3, <1>5 DEF IInv, KeysFindable, TypeOK, TableInv, Table, Slots
<1>8. RefusedOnlyWhenStarved'
  BY <1>1 DEF IInv, RefusedOnlyWhenStarved
<1>9. StoreStep
  <2>1. Contents' = Contents
    BY <1>3, ContentsAsPairs DEF Contents, Pairs, LiveIn, Live, Slots
  <2> QED BY <1>1, <2>1 DEF StoreStep
<1> QED BY <1>1, <1>5, <1>6, <1>7, <1>8, <1>9 DEF IInv

\* A call that changes neither the table nor the growth, and refuses nothing.
LEMMA AnswerOnly ==
  ASSUME IInv, UNCHANGED <<table, growing, starved>>, NEW a,
         a # "put", NEW k, NEW v, reply' = <<a, k, v>>
  PROVE  IInv'
<1>1. /\ UNCHANGED table /\ phase' = phase /\ pending' = pending /\ newEntries' = newEntries
      /\ moved' = moved /\ starved' = starved
      /\ entries' = entries /\ capacity' = capacity /\ size' = size /\ tombstones' = tombstones
  BY DEF growing, table
<1>2. TableInv'
  BY <1>1, TableUnchanged
<1>3. KeysFindable'
  BY <1>1 DEF IInv, KeysFindable, TypeOK, Slots
<1>4. RefusedOnlyWhenStarved'
  BY DEF RefusedOnlyWhenStarved
<1>5. (phase = "moving" => Moving)' /\ (phase = "inserting" => size + tombstones < capacity)'
  BY <1>1 DEF IInv, Moving
<1> QED BY <1>2, <1>3, <1>4, <1>5 DEF IInv

\* hashmap_get finds what is stored and nothing else.
LEMMA GetStep ==
  ASSUME IInv, NEW k \in Keys, Get(k)
  PROVE  IInv' /\ StoreStep
<1>1. UNCHANGED <<table, growing, starved>>
  BY DEF Get
<1>2. Contents' = Contents
  BY <1>1, TableUnchanged
<1>3. CASE \E s \in Slots : Stops(k, s) /\ reply' = <<"get", k, entries[s].value>>
  <2>1. PICK s \in Slots : Stops(k, s) /\ reply' = <<"get", k, entries[s].value>>
    BY <1>3
  <2>2. s \in 0..capacity - 1 /\ entries[s].key \in {k, NULL}
    BY <2>1 DEF Stops, Slots
  <2>3. ASSUME entries[s].key = k PROVE Store!StoreGet(k)
    <3>1. <<k, entries[s].value>> \in Contents /\ entries[s].value \in Values
      BY <2>2, <2>3 DEF Contents, Slots, Live, IInv, TableInv, Valued
    <3> QED BY <1>2, <2>1, <3>1 DEF Store!StoreGet
  <2>4. ASSUME entries[s].key = NULL PROVE Store!StoreGet(k)
    <3>1. entries[s].value = NULL
      BY <2>2, <2>4, MarksAssumption DEF IInv, TableInv, Valued
    <3>2. \A u \in LiveIn(entries, capacity) : entries[u].key # k
      BY <2>1, <2>4, StopsAtUnused DEF IInv, TableInv
    <3>3. Store!Keyed(k) = {}
      BY <3>2, ContentsAsPairs DEF Store!Keyed, Pairs
    <3> QED BY <1>2, <2>1, <3>1, <3>3 DEF Store!StoreGet
  <2>5. Store!StoreGet(k)
    BY <2>2, <2>3, <2>4
  <2>6. IInv'
    BY <1>1, <2>1, AnswerOnly
  <2> QED BY <2>5, <2>6 DEF StoreStep, Store!StoreNext
<1>4. CASE (\A s \in Slots : ~Stops(k, s)) /\ reply' = <<"get", k, NULL>>
  <2>1. \A u \in LiveIn(entries, capacity) : entries[u].key # k
    BY <1>4, KeyStops DEF IInv, TableInv, Stops
  <2>2. Store!Keyed(k) = {}
    BY <2>1, ContentsAsPairs DEF Store!Keyed, Pairs
  <2>3. Store!StoreGet(k)
    BY <1>2, <1>4, <2>2 DEF Store!StoreGet
  <2>4. IInv'
    BY <1>1, <1>4, AnswerOnly
  <2> QED BY <2>3, <2>4 DEF StoreStep, Store!StoreNext
<1> QED BY <1>3, <1>4 DEF Get

\* hashmap_remove leaves a tombstone in the place of the entry.
LEMMA RemoveStep ==
  ASSUME IInv, NEW k \in Keys, Remove(k)
  PROVE  IInv' /\ StoreStep
<1>1. /\ capacity \in Nat \ {0} /\ entries \in [0..capacity - 1 -> Slot]
      /\ size \in Nat /\ tombstones \in Nat
      /\ phase = "idle" /\ UNCHANGED <<capacity, growing, starved>>
      /\ capacity' = capacity /\ phase' = "idle" /\ starved' \in BOOLEAN
  BY DEF Remove, IInv, TableInv, Table, growing, KeysFindable, TypeOK
<1>2. CASE \E s \in Slots :
              /\ Stops(k, s) /\ entries[s].key = k
              /\ entries' = [entries EXCEPT ![s] = [key |-> TOMBSTONE, value |-> NULL]]
              /\ size' = size - 1 /\ tombstones' = tombstones + 1
              /\ reply' = <<"remove", k, TRUE>>
  <2>1. PICK s \in 0..capacity - 1 :
              /\ entries[s].key = k
              /\ entries' = [entries EXCEPT ![s] = [key |-> TOMBSTONE, value |-> NULL]]
              /\ size' = size - 1 /\ tombstones' = tombstones + 1
              /\ reply' = <<"remove", k, TRUE>>
    BY <1>2 DEF Slots
  <2>2. /\ Table(entries', capacity)
        /\ entries'[s].key = TOMBSTONE /\ entries'[s].value = NULL
        /\ \A x \in 0..capacity - 1 : x # s => entries'[x] = entries[x]
    BY <1>1, <2>1 DEF Table, Slot
  <2>3. /\ LiveIn(entries', capacity) = LiveIn(entries, capacity) \ {s}
        /\ DeadIn(entries', capacity) = DeadIn(entries, capacity) \cup {s}
        /\ s \in LiveIn(entries, capacity) /\ s \notin DeadIn(entries, capacity)
    BY <1>1, <2>1, <2>2, MarksAssumption DEF LiveIn, DeadIn
  <2>4. Valued(entries', capacity)
    BY <2>2, MarksAssumption DEF Valued, IInv, TableInv
  <2>5. Findable(entries', capacity)
    <3>1. \A u \in LiveIn(entries', capacity) : u \in LiveIn(entries, capacity) /\ entries'[u] = entries[u]
      BY <2>2, <2>3 DEF LiveIn
    <3>2. \A x \in 0..capacity - 1 : entries[x].key # NULL => entries'[x].key # NULL
      BY <2>2, MarksAssumption
    <3>3. \A u \in LiveIn(entries', capacity) :
            Path(Home(entries'[u].key, capacity), u, capacity) \subseteq 0..capacity - 1
      BY DEF Path
    <3> QED BY <3>1, <3>2, <3>3 DEF Findable, IInv, TableInv
  <2>6. TableInv'
    <3>1. IsFiniteSet(LiveIn(entries, capacity)) /\ IsFiniteSet(DeadIn(entries, capacity))
      BY <1>1, SlotsFinite DEF LiveIn, DeadIn
    <3>2. size = Cardinality(LiveIn(entries, capacity)) /\ tombstones = Cardinality(DeadIn(entries, capacity))
      BY CountersAsSets DEF IInv, TableInv
    <3>3. Cardinality(LiveIn(entries', capacity)) = size - 1
      BY <2>3, <3>1, <3>2, FS_RemoveElement
    <3>4. Cardinality(DeadIn(entries', capacity)) = tombstones + 1
      BY <2>3, <3>1, <3>2, FS_AddElement
    <3>5. size' \in Nat
      <4>1. LiveIn(entries', capacity) \in SUBSET (0..capacity - 1)
        BY DEF LiveIn
      <4>2. Cardinality(LiveIn(entries', capacity)) \in Nat
        BY <1>1, <4>1, SlotsFinite
      <4> QED BY <2>1, <3>3, <4>2
    <3>6. CountersExact'
      BY <1>1, <2>1, <3>3, <3>4 DEF CountersExact, LiveIn, DeadIn, Live, Slots
    <3> QED BY <1>1, <2>1, <2>2, <2>4, <2>5, <3>5, <3>6 DEF TableInv
  <2>7. KeysFindable'
    BY <1>1, <2>6 DEF KeysFindable, TypeOK, TableInv, Table, Slots
  <2>8. RefusedOnlyWhenStarved'
    BY <2>1 DEF RefusedOnlyWhenStarved
  <2>9. Store!StoreRemove(k)
    <3>1. Contents' = Pairs(entries', LiveIn(entries, capacity) \ {s})
      BY <1>1, <2>3 DEF Contents, Pairs, LiveIn, Live, Slots
    <3>2. \A u \in LiveIn(entries, capacity) :
            u # s => entries'[u] = entries[u] /\ entries[u].key # k
      BY <2>1, <2>2, <2>3 DEF IInv, TableInv, Findable, LiveIn
    <3>3. Contents' = Contents \ Store!Keyed(k)
      BY <2>1, <3>1, <3>2, ContentsAsPairs DEF Pairs, Store!Keyed
    <3>4. Store!Keyed(k) # {}
      <4>1. <<k, entries[s].value>> \in Contents
        BY <2>1, <2>3, ContentsAsPairs DEF Pairs
      <4> QED BY <4>1 DEF Store!Keyed
    <3> QED BY <2>1, <3>3, <3>4 DEF Store!StoreRemove
  <2> QED BY <1>1, <2>6, <2>7, <2>8, <2>9 DEF IInv, StoreStep, Store!StoreNext
<1>3. CASE /\ \A s \in Slots : Stops(k, s) => entries[s].key = NULL
           /\ reply' = <<"remove", k, FALSE>>
           /\ UNCHANGED <<entries, size, tombstones>>
  <2>1. UNCHANGED <<table, growing, starved>>
    BY <1>1, <1>3 DEF table
  <2>2. IInv'
    BY <1>3, <2>1, AnswerOnly
  <2>3. \A u \in LiveIn(entries, capacity) : entries[u].key # k
    <3> SUFFICES ASSUME NEW u \in LiveIn(entries, capacity), entries[u].key = k PROVE FALSE
      OBVIOUS
    <3>1. Stops(k, u) /\ u \in Slots /\ k # NULL
      BY KeyStops, MarksAssumption DEF IInv, TableInv, Stops
    <3> QED BY <1>3, <3>1
  <2>4. Store!Keyed(k) = {}
    BY <2>3, ContentsAsPairs DEF Store!Keyed, Pairs
  <2>5. Contents' = Contents
    BY <2>1, TableUnchanged
  <2>6. Store!StoreRemove(k)
    BY <1>3, <2>4, <2>5 DEF Store!StoreRemove
  <2> QED BY <2>2, <2>6 DEF StoreStep, Store!StoreNext
<1> QED BY <1>2, <1>3 DEF Remove

\* A step that changes nothing.
LEMMA StutterStep ==
  ASSUME IInv, UNCHANGED vars
  PROVE  IInv' /\ StoreStep
<1>1. /\ UNCHANGED table /\ phase' = phase /\ pending' = pending /\ newEntries' = newEntries
      /\ moved' = moved /\ starved' = starved /\ reply' = reply
      /\ entries' = entries /\ capacity' = capacity /\ size' = size /\ tombstones' = tombstones
  BY DEF vars, growing, table
<1>2. TableInv' /\ Contents' = Contents
  BY <1>1, TableUnchanged
<1>3. KeysFindable' /\ RefusedOnlyWhenStarved'
  BY <1>1 DEF IInv, KeysFindable, TypeOK, Slots, RefusedOnlyWhenStarved
<1>4. (phase = "moving" => Moving)' /\ (phase = "inserting" => size + tombstones < capacity)'
  BY <1>1 DEF IInv, Moving
<1> QED BY <1>1, <1>2, <1>3, <1>4 DEF IInv, StoreStep

\* Every step keeps the invariant and is a step of the store or a stutter.
LEMMA EveryStep ==
  ASSUME IInv, [Next]_vars
  PROVE  IInv' /\ StoreStep
<1>1. CASE \E k \in Keys, v \in Values : PutWithRoom(k, v)
  BY <1>1, PutWithRoomStep
<1>2. CASE \E k \in Keys, v \in Values : PutWithoutMemory(k, v)
  BY <1>2, PutWithoutMemoryStep
<1>3. CASE \E k \in Keys, v \in Values : PutGrows(k, v)
  BY <1>3, PutGrowsStep
<1>4. CASE \E k \in Keys : Get(k)
  BY <1>4, GetStep
<1>5. CASE \E k \in Keys : Remove(k)
  BY <1>5, RemoveStep
<1>6. CASE MoveEntry
  BY <1>6, MoveEntryStep
<1>7. CASE SwapTables
  BY <1>7, SwapTablesStep
<1>8. CASE InsertPending
  BY <1>8, InsertPendingStep
<1>9. CASE UNCHANGED vars
  BY <1>9, StutterStep
<1> QED BY <1>1, <1>2, <1>3, <1>4, <1>5, <1>6, <1>7, <1>8, <1>9 DEF Next, Grow

-----------------------------------------------------------------------------
(* The theorems.                                                           *)

\* The invariant holds in every reachable state.
LEMMA TableInvariant == Spec => []IInv
<1>1. IInv /\ [Next]_vars => IInv'
  BY EveryStep
<1> QED BY InitInv, <1>1, PTL DEF Spec

\* Every stored key is found from its home slot and stored once, in whatever order
\* keys were put, removed and moved (hashmap_put, hashmap_get, hashmap_rehash).
THEOREM KeysAlwaysFindable == Spec => []KeysFindable
<1>1. IInv => KeysFindable
  BY DEF IInv
<1> QED BY TableInvariant, <1>1, PTL

\* The two counters of the table are the numbers of its live and deleted slots.
THEOREM CountersAlwaysExact == Spec => []CountersExact
<1>1. IInv => CountersExact
  BY DEF IInv, TableInv
<1> QED BY TableInvariant, <1>1, PTL

\* A put is refused only after an allocation failed (hash_map.c:142).
THEOREM NeverRefusedWithMemory == Spec => []RefusedOnlyWhenStarved
<1>1. IInv => RefusedOnlyWhenStarved
  BY DEF IInv
<1> QED BY TableInvariant, <1>1, PTL

\* The table implements the key-value store: every call is one of its calls, and
\* every step of a growth is none.
THEOREM TableImplementsStore == Spec => ImplementsStore
<1>1. Init => Store!StoreInit
  <2> SUFFICES ASSUME Init PROVE Store!StoreInit
    OBVIOUS
  <2>1. Contents = {}
    BY CapacityAssumption, MarksAssumption DEF Init, Contents, Slots, Live, Blank, Unused
  <2> QED BY <2>1 DEF Init, Store!StoreInit
<1>2. IInv /\ [Next]_vars => [Store!StoreNext]_<<Contents, reply>>
  BY EveryStep DEF StoreStep
<1> QED BY TableInvariant, <1>1, <1>2, PTL DEF Spec, ImplementsStore, Store!StoreSpec

=============================================================================
