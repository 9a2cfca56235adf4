------------------------------ MODULE HashMap ------------------------------
(***************************************************************************)
(* The open-addressing hash map (src/datastructures/hash_map.c) under      *)
(* every table of the compiler: linear probing, deleted slots marked by a  *)
(* tombstone, the table doubled when live and deleted slots reach three    *)
(* quarters of it.                                                         *)
(*                                                                         *)
(* A probe stops at one slot whatever else happens, so a call is one step; *)
(* only the loop that moves the entries into a doubled table goes slot by  *)
(* slot, while the put that started it waits.  The allocation of that      *)
(* table may fail at any time, and does once MaxCapacity is reached.       *)
(***************************************************************************)
EXTENDS Integers, FiniteSets

CONSTANTS
  Keys, Values,
  hash,          \* the caller's hash function
  Capacity0,     \* initial_capacity, at least 8 in the code
  MaxCapacity,   \* bound: no larger table is ever allocated
  NULL,          \* the key of a slot never used; the value get returns for none
  TOMBSTONE      \* the key of a deleted slot

VARIABLES
  entries,       \* slot |-> [key, value]
  capacity, size, tombstones,
  phase,         \* "idle", "moving" entries to newEntries, or "inserting"
  pending,       \* the put that is waiting: [key, value]
  newEntries,    \* the table being filled
  moved,         \* old slots moved so far
  starved,       \* an allocation has failed
  reply          \* the call answered last and its answer

table == <<entries, capacity, size, tombstones>>
growing == <<phase, pending, newEntries, moved>>
vars  == <<table, growing, starved, reply>>

ASSUME CapacityAssumption == Capacity0 \in Nat \ {0} /\ MaxCapacity \in Nat
ASSUME HashAssumption == hash \in [Keys -> Nat]
ASSUME MarksAssumption ==
  /\ NULL \notin Keys \cup Values /\ TOMBSTONE \notin Keys \cup {NULL}
  /\ \A k \in Keys : NULL # <<"put", k, FALSE>>

-----------------------------------------------------------------------------
(* Probing.                                                                *)

Unused == [key |-> NULL, value |-> NULL]
Slot   == [key : Keys \cup {NULL, TOMBSTONE}, value : Values \cup {NULL}]
Blank(n) == [s \in 0..n - 1 |-> Unused]

Slots   == 0..capacity - 1
Home(k, n) == hash[k] % n

\* the slots a probe visits between h and s, s not included
Path(h, s, n) == {x \in 0..n - 1 : IF h <= s THEN h <= x /\ x < s ELSE h <= x \/ x < s}

\* s is where the probe for k stops: k's own slot or one never used
Stops(k, s) ==
  /\ s \in Slots
  /\ entries[s].key \in {k, NULL}
  /\ \A x \in Path(Home(k, capacity), s, capacity) : entries[x].key \notin {k, NULL}

\* t is the first deleted slot on the way to s
FirstTombstone(k, s, t) ==
  LET h == Home(k, capacity)
  IN  /\ t \in Path(h, s, capacity) /\ entries[t].key = TOMBSTONE
      /\ \A x \in Path(h, t, capacity) : entries[x].key # TOMBSTONE

Deleted(k, s) == {t \in Path(Home(k, capacity), s, capacity) : entries[t].key = TOMBSTONE}

-----------------------------------------------------------------------------
Init ==
  /\ capacity = Capacity0
  /\ entries = Blank(Capacity0)
  /\ size = 0 /\ tombstones = 0
  /\ phase = "idle" /\ pending = NULL /\ newEntries = <<>> /\ moved = 0
  /\ starved = FALSE
  /\ reply = NULL

\* Mutant: the pair goes into the first deleted slot, without a look past it.
InsertNewAtOnce(k, v) ==
  \E s \in Slots :
    /\ \A x \in Path(Home(k, capacity), s, capacity) : entries[x].key \in Keys \ {k}
    /\ entries[s].key \in {NULL, TOMBSTONE}
    /\ entries' = [entries EXCEPT ![s] = [key |-> k, value |-> v]]
    /\ tombstones' = tombstones - (IF entries[s].key = NULL THEN 0 ELSE 1)
    /\ size' = size + 1
    /\ reply' = <<"put", k, TRUE>>
    /\ UNCHANGED capacity

\* the probe of put ends at an unused slot: the pair goes into the first deleted
\* slot it passed, if there was one
InsertNew(k, v) ==
  \E s \in Slots :
    /\ Stops(k, s) /\ entries[s].key = NULL
    /\ \/ /\ Deleted(k, s) = {}
          /\ entries' = [entries EXCEPT ![s] = [key |-> k, value |-> v]]
          /\ UNCHANGED tombstones
       \/ \E t \in Slots :
            /\ FirstTombstone(k, s, t)
            /\ entries' = [entries EXCEPT ![t] = [key |-> k, value |-> v]]
            /\ tombstones' = tombstones - 1
    /\ size' = size + 1
    /\ reply' = <<"put", k, TRUE>>
    /\ UNCHANGED capacity

InsertExisting(k, v) ==
  \E s \in Slots :
    /\ Stops(k, s) /\ entries[s].key = k
    /\ entries' = [entries EXCEPT ![s].value = v]
    /\ reply' = <<"put", k, TRUE>>
    /\ UNCHANGED <<capacity, size, tombstones>>

\* the probe comes round without finding either: deleted slots are not reused
InsertRefused(k) ==
  /\ \A s \in Slots : ~Stops(k, s)
  /\ reply' = <<"put", k, FALSE>>
  /\ UNCHANGED table

Insert(k, v) == InsertNew(k, v) \/ InsertExisting(k, v) \/ InsertRefused(k)

\* Mutant: deleted slots do not count as used.
CrowdedByLive == size >= (capacity * 3) \div 4

Crowded == size + tombstones >= (capacity * 3) \div 4

PutWithRoom(k, v) ==
  /\ phase = "idle" /\ ~Crowded
  /\ Insert(k, v)
  /\ UNCHANGED <<growing, starved>>

\* hashmap_rehash fails, put ignores that
PutWithoutMemory(k, v) ==
  /\ phase = "idle" /\ Crowded
  /\ Insert(k, v)
  /\ starved' = TRUE
  /\ UNCHANGED growing

PutGrows(k, v) ==
  /\ phase = "idle" /\ Crowded
  /\ capacity * 2 <= MaxCapacity
  /\ phase' = "moving" /\ pending' = [key |-> k, value |-> v]
  /\ newEntries' = Blank(capacity * 2) /\ moved' = 0
  /\ UNCHANGED <<table, starved, reply>>

\* Mutant: the probe does not come round to the first slot.
FreeInNoWrap(k, s) ==
  LET n == capacity * 2
  IN  /\ s \in Home(k, n)..n - 1 /\ newEntries[s].key = NULL
      /\ \A x \in Home(k, n)..s - 1 : newEntries[x].key # NULL

\* the first unused slot of the new table, from the key's home slot on
FreeIn(k, s) ==
  LET n == capacity * 2
  IN  /\ s \in 0..n - 1 /\ newEntries[s].key = NULL
      /\ \A x \in Path(Home(k, n), s, n) : newEntries[x].key # NULL

MoveEntry ==
  /\ phase = "moving" /\ moved < capacity
  /\ IF entries[moved].key \in {NULL, TOMBSTONE} THEN UNCHANGED newEntries
     ELSE \E s \in 0..capacity * 2 - 1 :
            /\ FreeIn(entries[moved].key, s)
            /\ newEntries' = [newEntries EXCEPT ![s] = entries[moved]]
  /\ moved' = moved + 1
  /\ UNCHANGED <<table, phase, pending, starved, reply>>

\* Mutant: the count of deleted slots is kept.
SwapTablesKeepsCount ==
  /\ phase = "moving" /\ moved = capacity
  /\ entries' = newEntries /\ capacity' = capacity * 2
  /\ phase' = "inserting" /\ newEntries' = <<>> /\ moved' = 0
  /\ UNCHANGED <<size, tombstones, pending, starved, reply>>

SwapTables ==
  /\ phase = "moving" /\ moved = capacity
  /\ entries' = newEntries /\ capacity' = capacity * 2 /\ tombstones' = 0
  /\ phase' = "inserting" /\ newEntries' = <<>> /\ moved' = 0
  /\ UNCHANGED <<size, pending, starved, reply>>

InsertPending ==
  /\ phase = "inserting"
  /\ Insert(pending.key, pending.value)
  /\ phase' = "idle" /\ pending' = NULL
  /\ UNCHANGED <<newEntries, moved, starved>>

Get(k) ==
  /\ phase = "idle"
  /\ \/ \E s \in Slots : Stops(k, s) /\ reply' = <<"get", k, entries[s].value>>
     \/ (\A s \in Slots : ~Stops(k, s)) /\ reply' = <<"get", k, NULL>>
  /\ UNCHANGED <<table, growing, starved>>

\* Mutant: a removed entry leaves an unused slot.
RemoveClears(k) ==
  /\ phase = "idle"
  /\ \/ \E s \in Slots :
          /\ Stops(k, s) /\ entries[s].key = k
          /\ entries' = [entries EXCEPT ![s] = Unused]
          /\ size' = size - 1
          /\ reply' = <<"remove", k, TRUE>>
     \/ /\ \A s \in Slots : Stops(k, s) => entries[s].key = NULL
        /\ reply' = <<"remove", k, FALSE>>
        /\ UNCHANGED <<entries, size>>
  /\ UNCHANGED <<capacity, tombstones, growing, starved>>

Remove(k) ==
  /\ phase = "idle"
  /\ \/ \E s \in Slots :
          /\ Stops(k, s) /\ entries[s].key = k
          /\ entries' = [entries EXCEPT ![s] = [key |-> TOMBSTONE, value |-> NULL]]
          /\ size' = size - 1 /\ tombstones' = tombstones + 1
          /\ reply' = <<"remove", k, TRUE>>
     \/ /\ \A s \in Slots : Stops(k, s) => entries[s].key = NULL
        /\ reply' = <<"remove", k, FALSE>>
        /\ UNCHANGED <<entries, size, tombstones>>
  /\ UNCHANGED <<capacity, growing, starved>>

Grow == MoveEntry \/ SwapTables \/ InsertPending

Next ==
  \/ \E k \in Keys :
       \/ \E v \in Values : PutWithRoom(k, v) \/ PutWithoutMemory(k, v) \/ PutGrows(k, v)
       \/ Get(k) \/ Remove(k)
  \/ Grow

\* a put that has started runs to its end
Spec == Init /\ [][Next]_vars /\ WF_vars(Grow)

-----------------------------------------------------------------------------
(* Properties.                                                             *)

Live(s)  == entries[s].key \in Keys
Contents == {<<entries[s].key, entries[s].value>> : s \in {x \in Slots : Live(x)}}

TypeOK ==
  /\ capacity \in Nat \ {0} /\ size \in Nat /\ tombstones \in Nat
  /\ entries \in [Slots -> Slot]
  /\ phase \in {"idle", "moving", "inserting"}
  /\ phase # "idle" => pending \in [key : Keys, value : Values]
  /\ phase = "moving" => newEntries \in [0..capacity * 2 - 1 -> Slot] /\ moved \in 0..capacity
  /\ starved \in BOOLEAN

LiveIn(t, n) == {s \in 0..n - 1 : t[s].key \in Keys}
Pairs(t, S)  == {<<t[s].key, t[s].value>> : s \in S}

\* the probe for a stored key gets to its slot, and to no other one before
Findable(t, n) ==
  /\ \A s \in LiveIn(t, n) : \A x \in Path(Home(t[s].key, n), s, n) : t[x].key # NULL
  /\ \A s, u \in LiveIn(t, n) : t[s].key = t[u].key => s = u

\* Every key is stored once and found from its home slot on, over deleted slots and
\* past the end of the table; while the entries are moved, the new table holds
\* exactly those moved so far, each findable in the place it has there (lines 76-88,
\* 114-140).
KeysFindable ==
  /\ TypeOK
  /\ Findable(entries, capacity)
  /\ phase = "moving" =>
       /\ Findable(newEntries, capacity * 2)
       /\ Pairs(newEntries, LiveIn(newEntries, capacity * 2))
            = Pairs(entries, {s \in LiveIn(entries, capacity) : s < moved})

\* The two counters that decide when to grow are the numbers of live and of
\* deleted slots (lines 109, 124, 128, 193-194, 95).
CountersExact ==
  /\ size = Cardinality({s \in Slots : Live(s)})
  /\ tombstones = Cardinality({s \in Slots : entries[s].key = TOMBSTONE})

\* A put is only refused after an allocation has failed: line 142, "Should never
\* reach here if resizing correctly".
RefusedOnlyWhenStarved == reply \in {<<"put", k, FALSE>> : k \in Keys} => starved

\* A put that grows the table always ends: there is a free slot in the new table
\* for every entry moved (lines 82-84), although deleted slots filled the old one.
GrowthEnds == phase # "idle" ~> phase = "idle"

Store == INSTANCE KeyValueStore WITH store <- Contents

\* Every call behaves as on a plain set of pairs, through collisions, deleted
\* slots, reuse of deleted slots, doubling and failed doubling.
ImplementsStore == Store!StoreSpec
=============================================================================
