------------------------------ MODULE RowStore ------------------------------
(***************************************************************************)
(* The authoritative row store of src/engine/store.rs as a state machine:  *)
(* any sequence of upsert, remove, get and len calls.  The store is owned  *)
(* by one IqdbCore and every call is made through `&mut self` or under a   *)
(* guard, so a call is one step.                                           *)
(***************************************************************************)
EXTENDS RowStoreOps

CONSTANTS Ids, Vals, Absent

ASSUME StoreAssumption == Absent \notin Vals

VARIABLES store,   \* RowStore { rows, index }
          ret      \* what the latest call returned

vars == <<store, ret>>

Init == /\ store = EmptyStore
        /\ ret = [op |-> "open"]

Upsert(id, val) ==
  /\ store' = StoreUpsert(store, id, val)
  /\ ret' = [op |-> "upsert", id |-> id, newly |-> ~StoreContains(store, id)]

Remove(id) ==
  /\ store' = StoreRemove(store, id)
  /\ ret' = [op |-> "delete", id |-> id, existed |-> StoreContains(store, id)]

Get(id) ==
  /\ ret' = [op |-> "get", id |-> id,
             row |-> IF StoreContains(store, id) THEN StoreGet(store, id).val
                                                 ELSE Absent]
  /\ UNCHANGED store

Size == /\ ret' = [op |-> "len", n |-> StoreLen(store)]
        /\ UNCHANGED store

Next == \/ \E id \in Ids, val \in Vals : Upsert(id, val)
        \/ \E id \in Ids : Remove(id)
        \/ \E id \in Ids : Get(id)
        \/ Size

Spec == Init /\ [][Next]_vars

-----------------------------------------------------------------------------
TypeOK == StoreType(store, Ids, Vals)

(***************************************************************************)
(* The position map and the row vector name each other at all times.       *)
(* `get` and `upsert` index `rows` with an entry without checking, so an   *)
(* entry that `remove` failed to repoint after its swap would read or      *)
(* overwrite another id's row, or panic.                                   *)
(***************************************************************************)
IndexMatchesRows == StoreSound(store)

Map == INSTANCE VectorMap WITH map <- RowsMap(store.rows, Ids, Absent)

(***************************************************************************)
(* The store implements the map: what scanning the rows shows (a save, a   *)
(* rebuild) and what the calls answer through the position map (get,       *)
(* contains, the newly and existed results, the length) are the same map.  *)
(***************************************************************************)
ImplementsMap == Map!Spec

(***************************************************************************)
(* Upserts keep the iteration order: no row that stands before the call    *)
(* moves, a replaced row keeps its position (the doc comment of upsert).   *)
(***************************************************************************)
UpsertKeepsOrder ==
  [][ret'.op = "upsert" =>
       /\ Len(store'.rows) >= Len(store.rows)
       /\ \A p \in 1 .. Len(store.rows) : store'.rows[p].id = store.rows[p].id
     ]_vars

=============================================================================
