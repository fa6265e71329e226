---------------------------- MODULE RowStoreOps ----------------------------
(***************************************************************************)
(* The data structure of src/engine/store.rs: a vector of rows and a hash  *)
(* map from id to position, as pure operators on a record                  *)
(*                                                                         *)
(*     [rows |-> <<row, ...>>, index |-> [id -> position]]                 *)
(*                                                                         *)
(* A row's vector and metadata are one opaque value `val`.  Positions are  *)
(* 1-based (the code's usize plus one).  `index` is a function whose       *)
(* domain is the set of keys of the HashMap.                               *)
(***************************************************************************)
EXTENDS Integers, Sequences

\* struct Row
Row(id, val) == [id |-> id, val |-> val]

\* HashMap::insert and HashMap::remove on a function read as a key-value map.
MapInsert(f, k, v) == [x \in DOMAIN f \cup {k} |-> IF x = k THEN v ELSE f[x]]
MapRemove(f, k) == [x \in DOMAIN f \ {k} |-> f[x]]

\* Vec::swap_remove: the last element takes the place of the removed one.
SwapRemove(s, p) == [i \in 1 .. Len(s) - 1 |-> IF i = p THEN s[Len(s)] ELSE s[i]]

\* RowStore::new and RowStore::with_capacity
EmptyStore == [rows |-> <<>>, index |-> [x \in {} |-> 0]]

StoreLen(st) == Len(st.rows)
StoreIsEmpty(st) == st.rows = <<>>
StoreContains(st, id) == id \in DOMAIN st.index

\* RowStore::get: one hop through the position map, defined when the id is
\* present.
StoreGet(st, id) == st.rows[st.index[id]]

\* Slips in `upsert` the checks must notice: a position below the slot the
\* push fills, no test for a present id, a replacement that moves to the end.
StoreUpsert_WrongSlot(st, id, val) ==
  [rows  |-> Append(st.rows, Row(id, val)),
   index |-> MapInsert(st.index, id, Len(st.rows) - 1)]
StoreUpsert_AlwaysPush(st, id, val) ==
  [rows  |-> Append(st.rows, Row(id, val)),
   index |-> MapInsert(st.index, id, Len(st.rows) + 1)]
StoreUpsert_MoveToEnd(st, id, val) ==
  LET others == SelectSeq(st.rows, LAMBDA r : r.id # id)
      rows   == Append(others, Row(id, val))
  IN  [rows  |-> rows,
       index |-> [x \in {rows[p].id : p \in 1 .. Len(rows)} |->
                    CHOOSE p \in 1 .. Len(rows) : rows[p].id = x]]

(***************************************************************************)
(* RowStore::upsert.  A present id is overwritten where it stands; a new   *)
(* id is recorded at the position the push is about to fill.               *)
(***************************************************************************)
StoreUpsert(st, id, val) ==
  IF StoreContains(st, id)
  THEN [st EXCEPT !.rows = [@ EXCEPT ![st.index[id]] = Row(id, val)]]
  ELSE [rows  |-> Append(st.rows, Row(id, val)),
        index |-> MapInsert(st.index, id, Len(st.rows) + 1)]

\* A slip in `remove`: the moved row's entry still points past the end.
StoreRemove_NoRepoint(st, id) ==
  IF ~StoreContains(st, id)
  THEN st
  ELSE [rows  |-> SwapRemove(st.rows, st.index[id]),
        index |-> MapRemove(st.index, id)]

(***************************************************************************)
(* RowStore::remove.  The entry goes, the last row is swapped into the     *)
(* hole, and, unless the removed row was the last, the moved row's entry   *)
(* is pointed at its new position.                                         *)
(***************************************************************************)
StoreRemove(st, id) ==
  IF ~StoreContains(st, id)
  THEN st
  ELSE LET pos   == st.index[id]
           rows  == SwapRemove(st.rows, pos)
           index == MapRemove(st.index, id)
       IN  [rows  |-> rows,
            index |-> IF pos <= Len(rows)
                      THEN MapInsert(index, rows[pos].id, pos)
                      ELSE index]

-----------------------------------------------------------------------------
\* The values a store of ids from I and payloads from V ranges over.
StoreType(st, I, V) ==
  /\ st \in [rows : Seq([id : I, val : V]), index : [DOMAIN st.index -> Nat]]
  /\ DOMAIN st.index \subseteq I

(***************************************************************************)
(* The position map and the row vector agree: an entry points at the row   *)
(* of its own id, and every row is pointed at (so ids are unique).         *)
(***************************************************************************)
StoreSound(st) ==
  /\ \A id \in DOMAIN st.index : /\ st.index[id] \in 1 .. Len(st.rows)
                                /\ st.rows[st.index[id]].id = id
  /\ \A p \in 1 .. Len(st.rows) : /\ st.rows[p].id \in DOMAIN st.index
                                  /\ st.index[st.rows[p].id] = p

(***************************************************************************)
(* The map the rows denote, read by scanning them as `iter` does for a     *)
(* save or a rebuild, never through the position map.                      *)
(***************************************************************************)
RowsMap(rows, I, absent) ==
  [id \in I |-> IF \E p \in 1 .. Len(rows) : rows[p].id = id
                THEN rows[CHOOSE p \in 1 .. Len(rows) : rows[p].id = id].val
                ELSE absent]

=============================================================================
