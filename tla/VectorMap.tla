----------------------------- MODULE VectorMap -----------------------------
(***************************************************************************)
(* What every layer of the database promises its caller: a map from ids to *)
(* values with atomic operations, each returning the answer the map gives. *)
(* RowStore, IqdbCore and IqdbHandle are each shown to implement it.       *)
(*                                                                         *)
(* `ret` is the answer of the latest operation, as a record whose fields   *)
(* depend on the operation.                                                *)
(***************************************************************************)
EXTENDS Integers, FiniteSets

CONSTANTS Ids,     \* the vector ids
          Vals,    \* the payloads (vector and metadata)
          Absent   \* what the map holds for an id that is not stored, no value

VARIABLES map, ret

mapVars == <<map, ret>>

Stored == {id \in Ids : map[id] # Absent}

Init == /\ map = [id \in Ids |-> Absent]
        /\ ret = [op |-> "open"]

Put(id, val) == /\ map' = [map EXCEPT ![id] = val]
                /\ ret' = [op |-> "upsert", id |-> id, newly |-> id \notin Stored]

Del(id) == /\ map' = [map EXCEPT ![id] = Absent]
           /\ ret' = [op |-> "delete", id |-> id, existed |-> id \in Stored]

Get(id) == /\ ret' = [op |-> "get", id |-> id, row |-> map[id]]
           /\ UNCHANGED map

Size == /\ ret' = [op |-> "len", n |-> Cardinality(Stored)]
        /\ UNCHANGED map

\* The rows a search ranks: every stored row, with its current value, once.
Search == /\ ret' = [op |-> "search", hits |-> {<<id, map[id]>> : id \in Stored}]
          /\ UNCHANGED map

Next == \/ \E id \in Ids, val \in Vals : Put(id, val)
        \/ \E id \in Ids : Del(id) \/ Get(id)
        \/ Size
        \/ Search

Spec == Init /\ [][Next]_mapVars

=============================================================================
