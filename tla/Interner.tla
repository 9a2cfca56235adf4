------------------------------ MODULE Interner ------------------------------
(***************************************************************************)
(* Strings interned to one record each                                     *)
(* (src/datastructures/dense_arena_interner.c): a hash map from a string   *)
(* to its record, and a dense array that finds the record again by its     *)
(* index.  Indices stand for names in the tree (parameters) and in the     *)
(* tables of the code generator, records everywhere else.                  *)
(*                                                                         *)
(* An interner is a value, since the compiler has three of them.  Memory   *)
(* may be lacking at any of three places of a call: for the record and its *)
(* copy of the string, for a larger table, for a larger array.  The map is *)
(* the KeyValueStore that HashMap implements: a put is refused when the    *)
(* table is full, and it is only full after it could not be enlarged.      *)
(***************************************************************************)
EXTENDS Naturals, Sequences, FiniteSets

CONSTANTS
  NULL,          \* no record
  MapCapacity0,  \* slots of a new table: 64 and 128 in the code
  ArrayCapacity0 \* elements a dynamic array is first enlarged to: 8 in the code

Records == [key : Seq(STRING), index : Nat, meta : STRING \cup {NULL}, id : Nat]

ASSUME InternerAssumption ==
  {MapCapacity0, ArrayCapacity0} \subseteq Nat \ {0} /\ NULL \notin Records

Sites == {"record", "table", "array", "tokens"}  \* what memory may be lacking for

-----------------------------------------------------------------------------
(* Dynamic arrays, whose buffer doubles.                                   *)

EmptyArray == [items |-> <<>>, capacity |-> 0]

Full(a) == Len(a.items) = a.capacity

\* with room or memory for one more
CanPush(a, enough) == ~Full(a) \/ enough

Pushed(a, x) ==
  [items    |-> Append(a.items, x),
   capacity |-> IF ~Full(a) THEN a.capacity
                ELSE IF a.capacity = 0 THEN ArrayCapacity0 ELSE 2 * a.capacity]

-----------------------------------------------------------------------------
NewInterner == [known |-> <<>>, capacity |-> MapCapacity0, dense |-> EmptyArray, made |-> 0]

Peek(I, s) == IF s \in DOMAIN I.known THEN I.known[s] ELSE NULL

Size(I) == Cardinality(DOMAIN I.known)

Enlarged(I, lacking) ==
  IF Size(I) >= (I.capacity * 3) \div 4 /\ "table" \notin lacking
  THEN [I EXCEPT !.capacity = 2 * @] ELSE I

\* K with r for s
Put(K, s, r) == [x \in {s} \cup DOMAIN K |-> IF x = s THEN r ELSE K[x]]

\* hashmap_put, whose answer is ignored
Registered(I, s, r, lacking) ==
  LET J == Enlarged(I, lacking)
  IN  IF Size(J) < J.capacity THEN [J EXCEPT !.known = Put(@, s, r)] ELSE J

\* Mutant: the index is taken after the string has been counted.
InternLateIndex(I, s, meta, lacking) ==
  IF s = <<>> THEN [interner |-> I, record |-> NULL]
  ELSE IF Peek(I, s) # NULL THEN [interner |-> I, record |-> Peek(I, s)]
  ELSE IF "record" \in lacking THEN [interner |-> I, record |-> NULL]
  ELSE LET r == [key |-> s, index |-> Len(I.dense.items) + 1, meta |-> meta, id |-> I.made + 1]
           J == [Registered(I, s, r, lacking) EXCEPT !.made = @ + 1]
       IN  IF CanPush(J.dense, "array" \notin lacking)
           THEN [interner |-> [J EXCEPT !.dense = Pushed(@, r)], record |-> r]
           ELSE [interner |-> J, record |-> NULL]

\* the record of s, made when there is none; id tells records apart as pointers do.
\* A record that cannot be pushed is not returned, but stays in the table.
Intern(I, s, meta, lacking) ==
  IF s = <<>> THEN [interner |-> I, record |-> NULL]
  ELSE IF Peek(I, s) # NULL THEN [interner |-> I, record |-> Peek(I, s)]
  ELSE IF "record" \in lacking THEN [interner |-> I, record |-> NULL]
  ELSE LET r == [key |-> s, index |-> Len(I.dense.items), meta |-> meta, id |-> I.made + 1]
           J == [Registered(I, s, r, lacking) EXCEPT !.made = @ + 1]
       IN  IF CanPush(J.dense, "array" \notin lacking)
           THEN [interner |-> [J EXCEPT !.dense = Pushed(@, r)], record |-> r]
           ELSE [interner |-> J, record |-> NULL]

\* interner_get_result
Result(I, index) == IF index < Len(I.dense.items) THEN I.dense.items[index + 1] ELSE NULL

-----------------------------------------------------------------------------
\* no put has been refused, no push has failed
EveryStringKept(I) == Size(I) = I.made
EveryRecordPushed(I) == Len(I.dense.items) = I.made

=============================================================================
