--------------------------- MODULE KeyValueStore ---------------------------
(***************************************************************************)
(* What a map promises its callers: a set of key-value pairs, changed and  *)
(* read one call at a time.  A put may be refused, but only of a key that  *)
(* is not stored, and then it changes nothing.                             *)
(***************************************************************************)
CONSTANTS Keys, Values, NULL

VARIABLES
  store,   \* the pairs <<key, value>>
  reply    \* the call answered last and its answer

Keyed(k) == {p \in store : p[1] = k}

StoreInit == store = {} /\ reply = NULL

StorePut(k, v) ==
  /\ store' = (store \ Keyed(k)) \cup {<<k, v>>}
  /\ reply' = <<"put", k, TRUE>>

StoreRefuse(k) ==
  /\ Keyed(k) = {}
  /\ reply' = <<"put", k, FALSE>>
  /\ UNCHANGED store

StoreGet(k) ==
  /\ \/ \E v \in Values : <<k, v>> \in store /\ reply' = <<"get", k, v>>
     \/ Keyed(k) = {} /\ reply' = <<"get", k, NULL>>
  /\ UNCHANGED store

StoreRemove(k) ==
  /\ store' = store \ Keyed(k)
  /\ reply' = <<"remove", k, Keyed(k) # {}>>

StoreNext ==
  \E k \in Keys :
    \/ \E v \in Values : StorePut(k, v)
    \/ StoreRefuse(k) \/ StoreGet(k) \/ StoreRemove(k)

StoreSpec == StoreInit /\ [][StoreNext]_<<store, reply>>
=============================================================================
